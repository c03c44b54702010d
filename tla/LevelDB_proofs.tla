--------------------------- MODULE LevelDB_proofs ---------------------------
(***************************************************************************)
(* Theorems about LevelDB, for every set of threads, of keys and of        *)
(* batches, every number of levels and every combination of faults: nobody *)
(* waits for a background thread that does not run, the files that the     *)
(* manifest names are never deleted, memtables, logs, tables and numbers   *)
(* are what they should be, readers see what they saw when they began, and *)
(* the tables of a level do not overlap unless the manifest fails.         *)
(***************************************************************************)
EXTENDS LevelDB, FiniteSetTheorems, WellFoundedInduction, TLAPS

-----------------------------------------------------------------------------
(* The inductive invariants. *)

\* The numbers of some files, and those of the files that an edit adds.
Nums(files) == {f.num : f \in files}
Added(edit) == Nums({p[2] : p \in edit.add})

\* What the records are made of, as far as it matters here.
Asking == [batch : Batch \cup {<<>>}, sync : BOOLEAN, delayed : BOOLEAN,
           asleep : {"no", "cv", "bg"}, done : BOOLEAN]

Versions == {"version", "seq", "next", "log"}

Shape ==
    /\ up \in {"down", "opening", "up"}
    /\ DOMAIN vs = Versions
    /\ vs.next \in Nat
    /\ DOMAIN disk = {"logs", "tables", "manifest"}
    /\ DOMAIN disk.manifest = Versions
    /\ DOMAIN work = {"at", "kind", "num", "edit", "seq", "next", "comp"}
    /\ DOMAIN work.edit = {"del", "add"}
    /\ DOMAIN work.comp = {"level", "inputs", "version", "rest", "outputs"}
    /\ work.at \in {"none", "table", "merge", "manifest", "open"}
    /\ work.kind \in {"none", "flush", "merge", "move"}
    /\ call \in [Writer -> Asking]
    /\ DOMAIN group = {"at", "n", "ok", "syncError"}
    /\ bgError \in BOOLEAN /\ scheduled \in BOOLEAN
    /\ DOMAIN reading = Reader

\* A database that is not open does nothing.
Closed ==
    /\ up # "up" => /\ imm = 0 /\ scheduled = FALSE /\ bgError = FALSE
                    /\ queue = <<>> /\ group.at = "none"
                    /\ \A w \in Writer : call[w].asleep = "no" /\ call[w].done = FALSE
                    /\ work.at \in {"none", "open"}
                    /\ pending = {} /\ hot = {}
                    /\ \A r \in Reader : reading[r] = NoRead
    /\ up = "down" => work.at = "none"
    /\ work.at = "open" <=> up = "opening"

FilesFinite(v) == \A l \in Level : IsFiniteSet(v[l])

\* There are finitely many files.
Finite ==
    /\ FilesFinite(vs.version)
    /\ FilesFinite(disk.manifest.version)
    /\ IsFiniteSet(work.edit.add)
    /\ IsFiniteSet(work.comp.outputs)
    /\ IsFiniteSet(DOMAIN disk.logs)

\* The level that is due, and the file that was read in vain, are of the version.
Picks ==
    /\ due = {} \/ \E l \in Level : due = {l}
    /\ \A p \in hot : p[1] \in Level /\ p[2] \in vs.version[p[1]]

\* Files are numbered.
Numbered == disk.manifest.next \in Nat /\ work.next \in Nat /\ DOMAIN disk.logs \subseteq Nat

\* What is under way or to be done is scheduled, and too many files on level 0 are something.
WorkIsScheduled ==
    up = "up" =>
        /\ work.at # "none" => scheduled
        /\ ~bgError /\ (imm # 0 \/ due # {} \/ hot # {}) => scheduled
        /\ Cardinality(vs.version[0]) >= CompactionTrigger => due # {}

WakeInv == Shape /\ Closed /\ Finite /\ Numbered /\ Picks /\ WorkIsScheduled /\ NoLostWakeup

\* The manifest says what the current version is, as long as nothing has failed.
ManifestIsCurrent == up = "up" /\ ~bgError => disk.manifest.version = vs.version

\* The files of every version that somebody refers to are there.
PinnedAreThere ==
    \A v \in Pinned(vs.version, work.comp) : Numbers(v) \subseteq disk.tables

\* The files that the background thread has written are there, no version names them
\* yet, and pending_outputs_ keeps them until one does.
OutputsAreThere ==
    /\ Nums(work.comp.outputs) \subseteq pending \cap disk.tables
    /\ \A n \in Nums(work.comp.outputs) : n \in Nat /\ n < vs.next
    /\ work.at = "table" => work.num \notin Nums(work.comp.outputs)
    /\ work.at \in {"manifest", "open"} => Added(work.edit) \subseteq disk.tables

FilesInv == WakeInv /\ ManifestIsCurrent /\ PinnedAreThere /\ OutputsAreThere /\ Recoverable

-----------------------------------------------------------------------------
(* Lemmas about the operators of the writers. *)

LEMMA NoCallAsks == NoCall \in Asking /\ NoCall.asleep = "no" /\ NoCall.done = FALSE
BY DEF NoCall, Asking

LEMMA AskingExcept ==
    ASSUME NEW c \in Asking
    PROVE  /\ [c EXCEPT !.delayed = TRUE] \in Asking
           /\ [c EXCEPT !.delayed = TRUE].asleep = c.asleep
           /\ [c EXCEPT !.asleep = "bg"] \in Asking
BY DEF Asking

\* SignalAll wakes everybody who waits for the background thread, and does nothing else.
LEMMA SignalAllWakes ==
    ASSUME NEW calls \in [Writer -> Asking]
    PROVE  /\ SignalAll(calls) \in [Writer -> Asking]
           /\ \A w \in Writer : /\ SignalAll(calls)[w].asleep # "bg"
                                /\ SignalAll(calls)[w].done = calls[w].done
BY DEF SignalAll, Asking

\* Popped sends nobody to sleep.
LEMMA PoppedSleeps ==
    ASSUME NEW calls \in [Writer -> Asking], NEW q, NEW n
    PROVE  /\ Popped(q, n, calls) \in [Writer -> Asking]
           /\ \A w \in Writer : Popped(q, n, calls)[w].asleep = "bg"
                                    => calls[w].asleep = "bg"
<1> DEFINE first == {q[i] : i \in 2 .. n}
           last == SubSeq(q, n + 1, Len(q))
           new(w) == IF w = q[1] THEN NoCall
                     ELSE IF w \in first
                          THEN [calls[w] EXCEPT !.done = TRUE, !.asleep = "no"]
                          ELSE IF last # <<>> /\ w = last[1]
                               THEN [calls[w] EXCEPT !.asleep = "no"] ELSE calls[w]
<1>1. Popped(q, n, calls) = [w \in Writer |-> new(w)]
    BY DEF Popped
<1>2. \A w \in Writer : new(w) \in Asking /\ (new(w).asleep = "bg" => calls[w].asleep = "bg")
    BY NoCallAsks DEF Asking
<1> QED
    BY <1>1, <1>2

\* The step of the writer in front.
LEMMA FrontStep ==
    ASSUME Shape, Finite, Numbered, NEW w \in Writer, NEW q, q[1] = w,
           NEW calls \in [Writer -> Asking], AtFront(q, calls)
    PROVE  /\ call' \in [Writer -> Asking]
           /\ \A u \in Writer : call'[u].asleep = "bg" =>
                calls[u].asleep = "bg" \/ (~bgError /\ MustWait /\ scheduled' = scheduled)
           /\ scheduled' \in BOOLEAN
           /\ scheduled => scheduled'
           /\ imm' # imm => scheduled' = Scheduled(scheduled, bgError, imm', due, hot)
           /\ DOMAIN vs' = Versions /\ vs'.version = vs.version
           /\ vs'.next \in Nat /\ vs'.next >= vs.next
           /\ DOMAIN disk' = DOMAIN disk
           /\ disk'.tables = disk.tables /\ disk'.manifest = disk.manifest
           /\ IsFiniteSet(DOMAIN disk'.logs) /\ DOMAIN disk'.logs \subseteq Nat
           /\ DOMAIN group' = DOMAIN NoGroup
           /\ pending' = pending
<1> USE DEF Versions
<1>1. CASE bgError /\ queue' = Tail(q) /\ call' = Popped(q, 1, calls)
           /\ UNCHANGED <<group, fileVars, memVars, scheduled>>
    BY <1>1, PoppedSleeps DEF Shape, Finite, Numbered, NoGroup, fileVars, memVars
<1>2. CASE "newfile" \in Faults /\ queue' = Tail(q) /\ call' = Popped(q, 1, calls)
           /\ UNCHANGED <<group, fileVars, memVars, scheduled>>
    BY <1>2, PoppedSleeps DEF Shape, Finite, Numbered, NoGroup, fileVars, memVars
<1>3. CASE /\ queue' = q /\ call' = [calls EXCEPT ![w].delayed = TRUE]
           /\ UNCHANGED <<group, fileVars, memVars, scheduled>>
    <2>1. /\ call' \in [Writer -> Asking]
          /\ \A u \in Writer : call'[u].asleep = "bg" => calls[u].asleep = "bg"
        <3> DEFINE c == [calls[w] EXCEPT !.delayed = TRUE]
        <3>1. c \in Asking /\ c.asleep = calls[w].asleep
            BY AskingExcept
        <3>2. call' = [calls EXCEPT ![w] = c]
            BY <1>3
        <3> QED
            BY <3>1, <3>2
    <2> QED
        BY <1>3, <2>1 DEF Shape, Finite, Numbered, NoGroup, fileVars, memVars
<1>4. CASE /\ queue' = q /\ call' = [calls EXCEPT ![w].asleep = "bg"]
           /\ ~bgError /\ MustWait
           /\ UNCHANGED <<group, fileVars, memVars, scheduled>>
    <2>1. call' \in [Writer -> Asking]
        <3> DEFINE c == [calls[w] EXCEPT !.asleep = "bg"]
        <3>1. c \in Asking
            BY AskingExcept
        <3>2. call' = [calls EXCEPT ![w] = c]
            BY <1>4
        <3> QED
            BY <3>1, <3>2
    <2> QED
        BY <1>4, <2>1 DEF Shape, Finite, Numbered, NoGroup, fileVars, memVars
<1> DEFINE go == /\ \E n \in GroupSizes(q, calls) :
                        group' = [NoGroup EXCEPT !.at = "append", !.n = n]
                 /\ queue' = q /\ call' = calls
<1>5. CASE go /\ UNCHANGED <<fileVars, memVars, scheduled>>
    BY <1>5 DEF Shape, Finite, Numbered, NoGroup, fileVars, memVars
<1>6. CASE SwitchMemTable /\ go /\ UNCHANGED pending
    <2>1. /\ vs' = [vs EXCEPT !.next = @ + 1]
          /\ imm' = mem
          /\ disk' = [disk EXCEPT !.logs = [n \in DOMAIN @ \cup {vs.next} |->
                                            IF n = vs.next THEN NoLog ELSE @[n]]]
          /\ scheduled' = Scheduled(scheduled, bgError, mem, due, hot)
        BY <1>6 DEF SwitchMemTable
    <2>2. IsFiniteSet(DOMAIN disk.logs \cup {vs.next})
        BY FS_AddElement DEF Finite
    <2>3. DOMAIN disk'.logs = DOMAIN disk.logs \cup {vs.next}
        BY <2>1 DEF Shape
    <2>4. scheduled' \in BOOLEAN /\ (scheduled => scheduled')
        BY <2>1 DEF Shape, Scheduled
    <2>5. DOMAIN group' = DOMAIN NoGroup
        BY <1>6 DEF NoGroup
    <2> QED
        BY <1>6, <2>1, <2>2, <2>3, <2>4, <2>5 DEF Shape, Numbered
<1> QED
    BY <1>1, <1>2, <1>3, <1>4, <1>5, <1>6 DEF AtFront

-----------------------------------------------------------------------------
(* Finite sets of files. *)

LEMMA SecondsFinite ==
    ASSUME NEW S, IsFiniteSet(S)
    PROVE  IsFiniteSet({p[2] : p \in S})
<1> DEFINE T == {p[2] : p \in S}
           f == [p \in S |-> p[2]]
<1>1. f \in Surjection(S, T)
    BY DEF Surjection
<1> QED
    BY <1>1, FS_Surjection

\* An edit that adds finitely many files leaves finitely many.
LEMMA ApplyFinite ==
    ASSUME NEW v, NEW edit, FilesFinite(v), IsFiniteSet(edit.add)
    PROVE  FilesFinite(Apply(v, edit))
<1> SUFFICES ASSUME NEW l \in Level PROVE IsFiniteSet(Apply(v, edit)[l])
    BY DEF FilesFinite
<1> DEFINE kept == {f \in v[l] : <<l, f>> \notin edit.del}
           new == {q \in edit.add : q[1] = l}
<1>1. IsFiniteSet(kept)
    BY FS_Subset DEF FilesFinite
<1>2. IsFiniteSet(new)
    BY FS_Subset
<1>3. IsFiniteSet({p[2] : p \in new})
    BY <1>2, SecondsFinite
<1>4. Apply(v, edit)[l] = kept \cup {p[2] : p \in new}
    BY DEF Apply
<1>5. IsFiniteSet(kept \cup {p[2] : p \in new})
    BY ONLY <1>1, <1>3, FS_Union
<1> QED
    BY ONLY <1>4, <1>5

\* The numbers after an edit were there before or are added by it.
LEMMA ApplyNumbers ==
    ASSUME NEW v, NEW edit
    PROVE  Numbers(Apply(v, edit)) \subseteq Numbers(v) \cup Added(edit)
<1> SUFFICES ASSUME NEW n \in Numbers(Apply(v, edit))
             PROVE  n \in Numbers(v) \/ n \in Added(edit)
    OBVIOUS
<1>1. PICK l \in Level : \E f \in Apply(v, edit)[l] : n = f.num
    BY DEF Numbers
<1>2. PICK f \in Apply(v, edit)[l] : n = f.num
    BY <1>1
<1>3. f \in v[l] \/ f \in {p[2] : p \in edit.add}
    BY <1>2 DEF Apply
<1>4. CASE f \in v[l]
    BY <1>2, <1>4 DEF Numbers
<1>5. CASE f \in {p[2] : p \in edit.add}
    BY <1>2, <1>5 DEF Added, Nums
<1> QED
    BY <1>3, <1>4, <1>5

-----------------------------------------------------------------------------
(* Lemmas about the operators of the background thread. *)

LEMMA ScheduledType ==
    ASSUME NEW a \in BOOLEAN, NEW err \in BOOLEAN, NEW i, NEW d, NEW h
    PROVE  /\ Scheduled(a, err, i, d, h) \in BOOLEAN
           /\ a => Scheduled(a, err, i, d, h)
           /\ ~err /\ (i # 0 \/ d # {} \/ h # {}) => Scheduled(a, err, i, d, h)
BY DEF Scheduled

\* The end of a call leaves nobody waiting.
LEMMA EndOfCallStep ==
    ASSUME Shape, NEW err \in BOOLEAN, NEW i, NEW d, NEW h, EndOfCall(err, i, d, h, call)
    PROVE  /\ call' \in [Writer -> Asking]
           /\ \A w \in Writer : call'[w].asleep # "bg" /\ call'[w].done = call[w].done
           /\ scheduled' \in BOOLEAN
           /\ ~err /\ (i # 0 \/ d # {} \/ h # {}) => scheduled'
           /\ work' = NoWork
<1>1. call' = SignalAll(call) /\ work' = NoWork
    BY DEF EndOfCall
<1>2. scheduled' = Scheduled(FALSE, err, i, d, h)
    BY DEF EndOfCall
<1>3. call \in [Writer -> Asking]
    BY DEF Shape
<1>4. /\ scheduled' \in BOOLEAN
      /\ ~err /\ (i # 0 \/ d # {} \/ h # {}) => scheduled'
    BY <1>2, ScheduledType
<1> QED
    BY <1>1, <1>3, <1>4, SignalAllWakes

\* A merge that goes on leaves nobody waiting either.
LEMMA GoOnStep ==
    ASSUME Shape, NEW err \in BOOLEAN, NEW i, NEW d, NEW h, GoOn(err, i, d, h)
    PROVE  /\ call' \in [Writer -> Asking]
           /\ \A w \in Writer : call'[w].asleep # "bg" /\ call'[w].done = call[w].done
           /\ scheduled' \in BOOLEAN
           /\ \/ /\ work.comp = NoCompaction /\ work' = NoWork
                 /\ ~err /\ (i # 0 \/ d # {} \/ h # {}) => scheduled'
              \/ /\ work' = [NoWork EXCEPT !.at = "merge", !.kind = "merge", !.comp = work.comp]
                 /\ scheduled' = scheduled
<1>1. CASE work.comp = NoCompaction
    BY <1>1, EndOfCallStep DEF GoOn
<1>2. CASE work.comp # NoCompaction
    BY <1>2, SignalAllWakes DEF GoOn, Shape
<1> QED
    BY <1>1, <1>2

LEMMA NoWorkShape ==
    /\ DOMAIN NoWork = {"at", "kind", "num", "edit", "seq", "next", "comp"}
    /\ NoWork.next = 0
    /\ NoWork.at = "none" /\ NoWork.kind = "none"
    /\ NoWork.edit = NoEdit /\ NoWork.comp = NoCompaction
    /\ DOMAIN NoEdit = {"del", "add"} /\ NoEdit.add = {} /\ NoEdit.del = {}
    /\ DOMAIN NoCompaction = {"level", "inputs", "version", "rest", "outputs"}
    /\ NoCompaction.outputs = {} /\ NoCompaction.version = NoFiles
BY DEF NoWork, NoEdit, NoCompaction

\* LogAndApply sets the edit and keeps the compaction.
LEMMA LogAndApplyShape ==
    ASSUME NEW doing, NEW kind, NEW edit,
           DOMAIN doing = {"at", "kind", "num", "edit", "seq", "next", "comp"}
    PROVE  LET w == LogAndApply(doing, kind, edit)
           IN  /\ DOMAIN w = DOMAIN doing
               /\ w.at = "manifest" /\ w.kind = kind /\ w.edit = edit
               /\ w.comp = doing.comp /\ w.num = doing.num /\ w.next = vs.next
BY DEF LogAndApply

\* What the deletion of obsolete files leaves alone.
LEMMA CollectedShape ==
    ASSUME NEW d, DOMAIN d = {"logs", "tables", "manifest"}, IsFiniteSet(DOMAIN d.logs),
           NEW v, NEW comp, NEW pend, NEW err
    PROVE  LET c == Collected(d, v, comp, pend, err)
           IN  /\ DOMAIN c = DOMAIN d
               /\ c.manifest = d.manifest
               /\ IsFiniteSet(DOMAIN c.logs) /\ DOMAIN c.logs \subseteq DOMAIN d.logs
               /\ err => c = d
               /\ d.tables \cap LiveTables(v.version, comp, pend) \subseteq c.tables
<1> DEFINE live == {m \in DOMAIN d.logs : m >= v.log}
           c == [d EXCEPT !.tables = @ \cap LiveTables(v.version, comp, pend),
                          !.logs = [n \in {m \in DOMAIN @ : m >= v.log} |-> @[n]]]
<1>1. IsFiniteSet(live)
    BY FS_Subset
<1>2. /\ DOMAIN c = DOMAIN d /\ c.manifest = d.manifest
      /\ c.tables = d.tables \cap LiveTables(v.version, comp, pend)
    OBVIOUS
<1>3. DOMAIN c.logs = live
    OBVIOUS
<1>4. Collected(d, v, comp, pend, err) = IF err THEN d ELSE c
    BY DEF Collected
<1> QED
    BY <1>1, <1>2, <1>3, <1>4

\* The end of a compaction.
LEMMA CleanupStep ==
    ASSUME Shape, NEW d, DOMAIN d = {"logs", "tables", "manifest"},
           IsFiniteSet(DOMAIN d.logs),
           NEW v, NEW err \in BOOLEAN, NEW dd, NEW h, CleanupCompaction(d, v, err, dd, h)
    PROVE  /\ call' \in [Writer -> Asking]
           /\ \A w \in Writer : call'[w].asleep # "bg" /\ call'[w].done = call[w].done
           /\ scheduled' \in BOOLEAN
           /\ ~err /\ (imm # 0 \/ dd # {} \/ h # {}) => scheduled'
           /\ work' = NoWork
           /\ DOMAIN disk' = DOMAIN d
           /\ disk'.manifest = d.manifest
           /\ IsFiniteSet(DOMAIN disk'.logs) /\ DOMAIN disk'.logs \subseteq DOMAIN d.logs
           /\ err => disk' = d
           /\ d.tables \cap UNION {Numbers(u) : u \in Pinned(v.version, NoCompaction)}
                \subseteq disk'.tables
           /\ pending' \subseteq pending
BY EndOfCallStep, CollectedShape DEF CleanupCompaction, LiveTables

-----------------------------------------------------------------------------
(* Nobody waits for nothing: WakeInv is kept by every step. *)

\* Who has to wait for the background thread finds it scheduled.
LEMMA WaitsForWork ==
    ASSUME WakeInv, up = "up", ~bgError, MustWait
    PROVE  scheduled
<1>1. CASE imm # 0
    BY <1>1 DEF WakeInv, WorkIsScheduled
<1>2. CASE Cardinality(vs.version[0]) >= StopTrigger
    <2>1. 0 \in Level
        BY VersionSetAssumption DEF Level
    <2>2. Cardinality(vs.version[0]) \in Nat
        BY <2>1, FS_CardinalityType DEF WakeInv, Finite, FilesFinite
    <2>3. Cardinality(vs.version[0]) >= CompactionTrigger
        BY <1>2, <2>2, LevelDBAssumption, VersionSetAssumption
    <2> QED
        BY <2>3 DEF WakeInv, WorkIsScheduled
<1> QED
    BY <1>1, <1>2 DEF MustWait

LEMMA FrontWakes ==
    ASSUME WakeInv, up = "up", NEW w \in Writer, NEW q, q[1] = w,
           NEW calls \in [Writer -> Asking],
           \A u \in Writer : calls[u].asleep = "bg" => call[u].asleep = "bg",
           AtFront(q, calls), UNCHANGED frontRest
    PROVE  WakeInv'
<1>1. /\ call' \in [Writer -> Asking]
      /\ \A u \in Writer : call'[u].asleep = "bg" =>
            calls[u].asleep = "bg" \/ (~bgError /\ MustWait /\ scheduled' = scheduled)
      /\ scheduled' \in BOOLEAN
      /\ scheduled => scheduled'
      /\ imm' # imm => scheduled' = Scheduled(scheduled, bgError, imm', due, hot)
      /\ DOMAIN vs' = Versions /\ vs'.version = vs.version
      /\ vs'.next \in Nat
      /\ DOMAIN disk' = DOMAIN disk
      /\ disk'.tables = disk.tables /\ disk'.manifest = disk.manifest
      /\ IsFiniteSet(DOMAIN disk'.logs) /\ DOMAIN disk'.logs \subseteq Nat
      /\ DOMAIN group' = DOMAIN NoGroup
      /\ pending' = pending
    BY FrontStep DEF WakeInv
<1>2. UNCHANGED <<up, work, due, hot, bgError, reading>>
    BY DEF frontRest, pickVars, readVars
<1>3. Shape'
    BY <1>1, <1>2 DEF WakeInv, Shape, NoGroup
<1>4. Closed'
    BY <1>2 DEF WakeInv, Closed
<1>5. Finite' /\ Numbered' /\ Picks'
    BY <1>1, <1>2 DEF WakeInv, Finite, FilesFinite, Numbered, Picks
<1>6. WorkIsScheduled'
    BY <1>1, <1>2, ScheduledType DEF WakeInv, WorkIsScheduled, Shape
<1>7. NoLostWakeup'
    BY <1>1, WaitsForWork DEF WakeInv, NoLostWakeup
<1> QED
    BY <1>3, <1>4, <1>5, <1>6, <1>7 DEF WakeInv

LEMMA WriteWakes ==
    ASSUME WakeInv, NEW w \in Writer, NEW b \in Batch, NEW sync \in SyncOption,
           Write(w, b, sync)
    PROVE  WakeInv'
<1> DEFINE asked == [NoCall EXCEPT !.batch = b, !.sync = sync]
           waits == [asked EXCEPT !.asleep = "cv"]
<1>1. /\ asked \in Asking /\ asked.asleep = "no"
      /\ waits \in Asking /\ waits.asleep = "cv"
    BY LevelDBAssumption DEF NoCall, Asking
<1>2. up = "up" /\ UNCHANGED frontRest
    BY DEF Write
<1>3. call \in [Writer -> Asking]
    BY DEF WakeInv, Shape
<1>4. CASE queue = <<>> /\ AtFront(<<w>>, [call EXCEPT ![w] = asked])
    <2> DEFINE calls == [call EXCEPT ![w] = asked]
    <2>1. /\ calls \in [Writer -> Asking]
          /\ \A u \in Writer : calls[u].asleep = "bg" => call[u].asleep = "bg"
        BY <1>1, <1>3
    <2>2. <<w>>[1] = w
        OBVIOUS
    <2>3. AtFront(<<w>>, calls)
        BY <1>4
    <2> HIDE DEF calls
    <2> QED
        BY <1>2, <2>1, <2>2, <2>3, FrontWakes
<1>5. CASE /\ queue' = Append(queue, w)
           /\ call' = [call EXCEPT ![w] = waits]
           /\ UNCHANGED <<group, fileVars, memVars, scheduled>>
    <2>1. /\ call' \in [Writer -> Asking]
          /\ \A u \in Writer : call'[u].asleep = "bg" => call[u].asleep = "bg"
        BY <1>1, <1>3, <1>5
    <2>2. UNCHANGED <<up, vs, disk, pending, imm, work, due, hot, bgError, group, scheduled,
                      reading>>
        BY <1>2, <1>5 DEF frontRest, pickVars, readVars, fileVars, memVars
    <2> HIDE DEF waits
    <2>3. Shape' /\ Finite' /\ Numbered' /\ Picks' /\ WorkIsScheduled' /\ NoLostWakeup'
        BY <2>1, <2>2 DEF WakeInv, Shape, Finite, Numbered, Picks, WorkIsScheduled, NoLostWakeup
    <2>4. Closed'
        BY <1>2, <2>2 DEF WakeInv, Closed
    <2> QED
        BY <2>3, <2>4 DEF WakeInv
<1> QED
    BY <1>4, <1>5 DEF Write

LEMMA ProceedWakes ==
    ASSUME WakeInv, NEW w \in Writer, Proceed(w)
    PROVE  WakeInv'
<1>1. up = "up"
    BY DEF Proceed, WakeInv, Closed
<1> QED
    BY <1>1, FrontWakes DEF Proceed, WakeInv, Shape

LEMMA ReturnWakes ==
    ASSUME WakeInv, NEW w \in Writer, Return(w)
    PROVE  WakeInv'
<1>1. call' = [call EXCEPT ![w] = NoCall]
    BY DEF Return
<1>2. /\ call' \in [Writer -> Asking]
      /\ \A u \in Writer : call'[u].asleep = "bg" => call[u].asleep = "bg"
    BY <1>1, NoCallAsks DEF WakeInv, Shape
<1>3. UNCHANGED <<up, vs, disk, pending, imm, work, due, hot, bgError, group, scheduled,
                  reading, queue>>
    BY DEF Return, frontRest, pickVars, readVars, fileVars, memVars
<1>4. up = "up"
    BY DEF Return, WakeInv, Closed, Shape
<1>5. Shape' /\ Finite' /\ Numbered' /\ Picks' /\ WorkIsScheduled' /\ NoLostWakeup'
    BY <1>2, <1>3 DEF WakeInv, Shape, Finite, Numbered, Picks, WorkIsScheduled, NoLostWakeup
<1>6. Closed'
    BY <1>3, <1>4 DEF WakeInv, Closed
<1> QED
    BY <1>5, <1>6 DEF WakeInv

\* What the writer in front does without the lock concerns nobody else.
LEMMA UnlockedWakes ==
    ASSUME WakeInv, AddRecord \/ Sync \/ Insert
    PROVE  /\ WakeInv'
           /\ disk'.tables = disk.tables
           /\ UNCHANGED <<up, vs, pending, work, due, hot, bgError, reading>>
<1>1. UNCHANGED <<up, vs, pending, imm, call, queue, scheduled, work, due, hot, bgError,
                  reading>>
    BY DEF AddRecord, Sync, Insert, groupRest, workVars, pickVars, readVars
<1>2. /\ DOMAIN disk' = DOMAIN disk /\ disk'.tables = disk.tables
      /\ disk'.manifest = disk.manifest /\ DOMAIN disk'.logs = DOMAIN disk.logs
    BY DEF AddRecord, Sync, Insert, LogRec, WakeInv, Shape
<1>3. DOMAIN group' = DOMAIN group
    BY DEF AddRecord, Sync, Insert, WakeInv, Shape
<1>4. group.at # "none"
    BY DEF AddRecord, Sync, Insert
<1>5. up = "up"
    BY <1>4 DEF WakeInv, Closed, Shape
<1>6. Shape'
    BY <1>1, <1>2, <1>3 DEF WakeInv, Shape
<1>7. Finite' /\ Numbered' /\ Picks' /\ WorkIsScheduled' /\ NoLostWakeup'
    BY <1>1, <1>2 DEF WakeInv, Finite, FilesFinite, Numbered, Picks, WorkIsScheduled, NoLostWakeup
<1>8. Closed'
    BY <1>1, <1>5 DEF WakeInv, Closed
<1> QED
    BY <1>1, <1>2, <1>6, <1>7, <1>8 DEF WakeInv

LEMMA FinishWakes ==
    ASSUME WakeInv, Finish
    PROVE  /\ WakeInv'
           /\ vs'.version = vs.version /\ vs'.next = vs.next
           /\ bgError => bgError'
           /\ UNCHANGED <<up, disk, pending, work, due, hot, reading>>
<1>1. UNCHANGED <<up, disk, pending, imm, scheduled, work, due, hot, reading>>
    BY DEF Finish, memVars, workVars, pickVars, readVars
<1>2. /\ call' \in [Writer -> Asking]
      /\ \A u \in Writer : call'[u].asleep = "bg" => call[u].asleep = "bg"
    BY PoppedSleeps DEF Finish, WakeInv, Shape
<1>3. DOMAIN vs' = DOMAIN vs /\ vs'.version = vs.version /\ vs'.next = vs.next
    BY DEF Finish, WakeInv, Shape, Versions
<1>4. bgError' \in BOOLEAN /\ (bgError => bgError')
    BY DEF Finish, WakeInv, Shape
<1>5. DOMAIN group' = DOMAIN NoGroup /\ group'.at = "none"
    BY DEF Finish, NoGroup
<1>6. up = "up"
    BY DEF Finish, WakeInv, Closed, Shape
<1>7. Shape'
    BY <1>1, <1>2, <1>3, <1>4, <1>5 DEF WakeInv, Shape, NoGroup
<1>8. Finite' /\ Numbered' /\ Picks' /\ WorkIsScheduled' /\ NoLostWakeup'
    BY <1>1, <1>2, <1>3, <1>4 DEF WakeInv, Finite, Numbered, Picks, WorkIsScheduled, NoLostWakeup
<1>9. Closed'
    BY <1>1, <1>6 DEF WakeInv, Closed
<1> QED
    BY <1>1, <1>3, <1>4, <1>7, <1>8, <1>9 DEF WakeInv

\* What every action of the background thread leaves alone.
LEMMA Unworked ==
    ASSUME UNCHANGED workRest
    PROVE  UNCHANGED <<up, queue, group, snapshots, reading, crashes>>
BY DEF workRest, readVars

LEMMA NothingToDoWakes ==
    ASSUME WakeInv, NothingToDo
    PROVE  WakeInv'
<1>1. EndOfCall(bgError, imm, due, hot, call)
    BY DEF NothingToDo
<1>2. UNCHANGED <<up, queue, group, reading, vs, disk, pending, imm, due, hot, bgError>>
    BY Unworked DEF NothingToDo, fileVars, memVars, pickVars
<1>3. /\ call' \in [Writer -> Asking]
      /\ \A w \in Writer : call'[w].asleep # "bg"
      /\ scheduled' \in BOOLEAN
      /\ ~bgError /\ (imm # 0 \/ due # {} \/ hot # {}) => scheduled'
      /\ work' = NoWork
    BY <1>1, EndOfCallStep DEF WakeInv, Shape
<1>4. up = "up"
    BY DEF NothingToDo, WakeInv, Closed, Shape
<1>5. Shape'
    BY <1>2, <1>3, NoWorkShape DEF WakeInv, Shape
<1>6. Finite' /\ Numbered'
    BY <1>2, <1>3, NoWorkShape, FS_EmptySet DEF WakeInv, Finite, Numbered
<1>7. Closed' /\ Picks' /\ WorkIsScheduled' /\ NoLostWakeup'
    BY <1>2, <1>3, <1>4, NoWorkShape
       DEF WakeInv, Closed, Picks, WorkIsScheduled, NoLostWakeup
<1> QED
    BY <1>5, <1>6, <1>7 DEF WakeInv

LEMMA BeginFlushWakes ==
    ASSUME WakeInv, BeginFlush
    PROVE  WakeInv'
<1>1. /\ work' = [work EXCEPT !.at = "table", !.kind = "flush", !.num = vs.next]
      /\ vs' = [vs EXCEPT !.next = @ + 1]
    BY DEF BeginFlush
<1>2. UNCHANGED <<up, queue, group, reading, disk, imm, call, scheduled, due, hot, bgError>>
    BY Unworked DEF BeginFlush, memVars, pickVars
<1>3. up = "up" /\ scheduled
    BY DEF BeginFlush, WakeInv, Closed, Shape, WorkIsScheduled
<1>4. /\ DOMAIN work' = DOMAIN work /\ work'.at = "table" /\ work'.kind = "flush"
      /\ work'.edit = work.edit /\ work'.comp = work.comp /\ work'.next = work.next
    BY <1>1 DEF WakeInv, Shape
<1>5. DOMAIN vs' = DOMAIN vs /\ vs'.version = vs.version /\ vs'.next \in Nat
    BY <1>1 DEF WakeInv, Shape, Versions
<1>6. Shape'
    BY <1>2, <1>4, <1>5 DEF WakeInv, Shape
<1>7. Finite' /\ Numbered' /\ Picks' /\ WorkIsScheduled' /\ NoLostWakeup'
    BY <1>2, <1>3, <1>4, <1>5 DEF WakeInv, Finite, Numbered, Picks, WorkIsScheduled, NoLostWakeup
<1>8. Closed'
    BY <1>2, <1>3, <1>4 DEF WakeInv, Closed
<1> QED
    BY <1>6, <1>7, <1>8 DEF WakeInv

LEMMA EndOfTableWakes ==
    ASSUME WakeInv, EndOfTable
    PROVE  WakeInv'
<1> DEFINE table == [num |-> work.num, ents |-> memtable[imm]]
<1>1. UNCHANGED <<up, queue, group, reading, vs, imm, due, hot>>
    BY Unworked DEF EndOfTable, memVars, pickVars
<1>2. up = "up" /\ scheduled
    BY DEF EndOfTable, WakeInv, Closed, Shape, WorkIsScheduled
<1>3. CASE /\ \E l \in Nat : work' = LogAndApply(work, "flush", [NoEdit EXCEPT !.add = {<<l, table>>}])
           /\ disk' = [disk EXCEPT !.tables = @ \cup {work.num}]
           /\ UNCHANGED <<bgError, call, scheduled>>
    <2>1. PICK l \in Nat : work' = LogAndApply(work, "flush", [NoEdit EXCEPT !.add = {<<l, table>>}])
        BY <1>3
    <2> DEFINE edit == [NoEdit EXCEPT !.add = {<<l, table>>}]
    <2>2. DOMAIN edit = {"del", "add"} /\ edit.add = {<<l, table>>}
        BY DEF NoEdit
    <2>3. /\ DOMAIN work' = DOMAIN work /\ work'.at = "manifest" /\ work'.kind = "flush"
          /\ work'.edit = edit /\ work'.comp = work.comp /\ work'.next \in Nat
        BY <2>1, LogAndApplyShape DEF WakeInv, Shape
    <2>4. IsFiniteSet(work'.edit.add)
        <3>1. \A x : IsFiniteSet({x})
            BY FS_Singleton
        <3> HIDE DEF table
        <3> QED
            BY ONLY ZenonT(30), <2>2, <2>3, <3>1
    <2>5. DOMAIN disk' = DOMAIN disk /\ disk'.logs = disk.logs /\ disk'.manifest = disk.manifest
        BY <1>3 DEF WakeInv, Shape
    <2> HIDE DEF edit
    <2>6. Shape'
        BY <1>1, <1>3, <2>2, <2>3, <2>5 DEF WakeInv, Shape
    <2>7. Finite' /\ Numbered' /\ Picks' /\ WorkIsScheduled' /\ NoLostWakeup'
        BY <1>1, <1>2, <1>3, <2>3, <2>4, <2>5 DEF WakeInv, Finite, Numbered, Picks, WorkIsScheduled, NoLostWakeup
    <2>8. Closed'
        BY <1>1, <1>2, <2>3 DEF WakeInv, Closed
    <2> QED
        BY <2>6, <2>7, <2>8 DEF WakeInv
<1>4. CASE bgError' = TRUE /\ GoOn(TRUE, imm, due, hot) /\ UNCHANGED disk
    <2>1. /\ call' \in [Writer -> Asking]
          /\ \A w \in Writer : call'[w].asleep # "bg"
          /\ scheduled' \in BOOLEAN
          /\ \/ work.comp = NoCompaction /\ work' = NoWork
             \/ /\ work' = [NoWork EXCEPT !.at = "merge", !.kind = "merge", !.comp = work.comp]
                /\ scheduled' = scheduled
        BY <1>4, GoOnStep DEF WakeInv
    <2>2. /\ DOMAIN work' = DOMAIN work /\ work'.at \in {"none", "merge"}
          /\ work'.kind \in {"none", "merge"}
          /\ work'.edit = NoEdit /\ work'.comp = work.comp /\ work'.next = 0
          /\ work'.at = "merge" => scheduled' = scheduled
        BY ZenonT(30), <2>1, NoWorkShape DEF WakeInv, Shape
    <2>3. Shape'
        BY <1>1, <1>4, <2>1, <2>2, NoWorkShape DEF WakeInv, Shape
    <2>4. Finite' /\ Picks' /\ WorkIsScheduled' /\ NoLostWakeup'
        BY ZenonT(30), <1>1, <1>2, <1>4, <2>1, <2>2, NoWorkShape, FS_EmptySet
           DEF WakeInv, Finite, Picks, WorkIsScheduled, NoLostWakeup
    <2>5. Closed' /\ Numbered'
        BY <1>1, <1>2, <1>4, <2>2 DEF WakeInv, Closed, Numbered
    <2> QED
        BY <2>3, <2>4, <2>5 DEF WakeInv
<1>5. \A v, lo, hi : PickLevelForMemTableOutput(v, lo, hi) \subseteq Nat
    BY VersionSetAssumption DEF PickLevelForMemTableOutput
<1> HIDE DEF table
<1> QED
    BY <1>3, <1>4, <1>5 DEF EndOfTable, table

\* The inputs of a compaction are finitely many files of the version.
LEMMA InputsFound ==
    ASSUME NEW v, NEW l \in Level, NEW picked \in SUBSET v[l],
           NEW inputs \in SetupOtherInputs(v, l, picked)
    PROVE  inputs[1] \subseteq v[l]
<1>1. \A S : AddBoundaryInputs(v[l], S) \subseteq v[l] \cup S
    BY DEF AddBoundaryInputs
<1>2. \A lo, hi : GetOverlappingInputs(v, l, lo, hi) \subseteq v[l]
    BY DEF GetOverlappingInputs, Overlapping
<1>3. \A both : Grown(v, l, both) \subseteq v[l]
    BY <1>1, <1>2 DEF Grown
<1> DEFINE pairs == {<<i, OverlappingInputs(v, l + 1, i)>> :
                        i \in {AddBoundaryInputs(v[l], picked)}}
<1>4. PICK both \in pairs :
        \/ inputs = both
        \/ \E g : g = Grown(v, l, both[1] \cup both[2]) /\ inputs = <<g, both[2]>>
    BY DEF SetupOtherInputs
<1>5. both[1] = AddBoundaryInputs(v[l], picked)
    BY <1>4
<1>6. both[1] \subseteq v[l]
    BY <1>1, <1>5
<1>7. CASE inputs = both
    BY <1>6, <1>7
<1>8. CASE \E g : g = Grown(v, l, both[1] \cup both[2]) /\ inputs = <<g, both[2]>>
    BY <1>3, <1>8
<1> QED
    BY <1>4, <1>7, <1>8

\* A file that is picked is of its level.
LEMMA PickedFound ==
    ASSUME WakeInv,
           NEW p \in IF due # {} THEN due \X UNION {vs.version[l] : l \in due} ELSE hot
    PROVE  /\ p[1] \in Level
           /\ Picked(vs.version, p[1], p[2]) \subseteq vs.version[p[1]]
<1>1. p[1] \in Level /\ p[2] \in vs.version[p[1]]
    BY DEF WakeInv, Picks
<1>2. CASE p[1] = 0
    BY <1>1, <1>2 DEF Picked, GetOverlappingInputs, Overlapping
<1>3. CASE p[1] # 0
    BY <1>1, <1>3 DEF Picked
<1> QED
    BY <1>1, <1>2, <1>3

\* What Pick sets going.
LEMMA PickStep ==
    ASSUME WakeInv, Pick
    PROVE  \/ \E c : /\ work' = [NoWork EXCEPT !.at = "merge", !.kind = "merge", !.comp = c]
                     /\ DOMAIN c = DOMAIN NoCompaction
                     /\ c.version = vs.version /\ c.outputs = {}
           \/ \E edit : /\ work' = LogAndApply(NoWork, "move", edit)
                        /\ DOMAIN edit = DOMAIN NoEdit
                        /\ \E l \in Level : \E S \in SUBSET vs.version[l] :
                                edit.add = {<<l + 1, f>> : f \in S}
<1>1. PICK p \in IF due # {} THEN due \X UNION {vs.version[l] : l \in due} ELSE hot :
        \E inputs \in SetupOtherInputs(vs.version, p[1], Picked(vs.version, p[1], p[2])) :
            \/ \E c : /\ work' = [NoWork EXCEPT !.at = "merge", !.kind = "merge", !.comp = c]
                      /\ DOMAIN c = DOMAIN NoCompaction
                      /\ c.version = vs.version /\ c.outputs = {}
            \/ work' = LogAndApply(NoWork, "move",
                                [del |-> {<<p[1], f>> : f \in inputs[1]},
                                 add |-> {<<p[1] + 1, f>> : f \in inputs[1]}])
    <2> DEFINE comp(l, inputs, kept) ==
                    [level |-> l, inputs |-> inputs, version |-> vs.version,
                     rest |-> kept, outputs |-> {}]
    <2>1. \A l, inputs, kept : LET c == comp(l, inputs, kept)
                               IN  /\ DOMAIN c = DOMAIN NoCompaction
                                   /\ c.version = vs.version /\ c.outputs = {}
        BY DEF NoCompaction
    <2>2. PICK p \in IF due # {} THEN due \X UNION {vs.version[l] : l \in due} ELSE hot :
            \E inputs \in SetupOtherInputs(vs.version, p[1], Picked(vs.version, p[1], p[2])) :
                \/ \E kept : work' = [NoWork EXCEPT
                            !.at = "merge", !.kind = "merge", !.comp = comp(p[1], inputs, kept)]
                \/ work' = LogAndApply(NoWork, "move",
                                [del |-> {<<p[1], f>> : f \in inputs[1]},
                                 add |-> {<<p[1] + 1, f>> : f \in inputs[1]}])
        BY DEF Pick
    <2>3. PICK inputs \in SetupOtherInputs(vs.version, p[1], Picked(vs.version, p[1], p[2])) :
            \/ \E kept : work' = [NoWork EXCEPT
                        !.at = "merge", !.kind = "merge", !.comp = comp(p[1], inputs, kept)]
            \/ work' = LogAndApply(NoWork, "move",
                            [del |-> {<<p[1], f>> : f \in inputs[1]},
                             add |-> {<<p[1] + 1, f>> : f \in inputs[1]}])
        BY <2>2
    <2>4. CASE \E kept : work' = [NoWork EXCEPT
                        !.at = "merge", !.kind = "merge", !.comp = comp(p[1], inputs, kept)]
        <3>1. PICK kept : work' = [NoWork EXCEPT
                        !.at = "merge", !.kind = "merge", !.comp = comp(p[1], inputs, kept)]
            BY <2>4
        <3> DEFINE c == comp(p[1], inputs, kept)
        <3>2. /\ DOMAIN c = DOMAIN NoCompaction
              /\ c.version = vs.version /\ c.outputs = {}
            BY <2>1
        <3>3. work' = [NoWork EXCEPT !.at = "merge", !.kind = "merge", !.comp = c]
            BY <3>1
        <3> HIDE DEF c
        <3> QED
            BY <3>2, <3>3
    <2> QED
        BY <2>3, <2>4
<1>2. PICK inputs \in SetupOtherInputs(vs.version, p[1], Picked(vs.version, p[1], p[2])) :
        \/ \E c : /\ work' = [NoWork EXCEPT !.at = "merge", !.kind = "merge", !.comp = c]
                  /\ DOMAIN c = DOMAIN NoCompaction
                  /\ c.version = vs.version /\ c.outputs = {}
        \/ work' = LogAndApply(NoWork, "move",
                            [del |-> {<<p[1], f>> : f \in inputs[1]},
                             add |-> {<<p[1] + 1, f>> : f \in inputs[1]}])
    BY <1>1
<1>3. p[1] \in Level /\ inputs[1] \subseteq vs.version[p[1]]
    BY PickedFound, InputsFound
<1>4. CASE work' = LogAndApply(NoWork, "move",
                            [del |-> {<<p[1], f>> : f \in inputs[1]},
                             add |-> {<<p[1] + 1, f>> : f \in inputs[1]}])
    <2> DEFINE edit == [del |-> {<<p[1], f>> : f \in inputs[1]},
                        add |-> {<<p[1] + 1, f>> : f \in inputs[1]}]
    <2>1. DOMAIN edit = DOMAIN NoEdit /\ edit.add = {<<p[1] + 1, f>> : f \in inputs[1]}
        BY DEF NoEdit
    <2>2. work' = LogAndApply(NoWork, "move", edit)
        BY <1>4
    <2> HIDE DEF edit
    <2> QED
        BY <1>3, <2>1, <2>2
<1> QED
    BY <1>2, <1>4

LEMMA PairsFinite ==
    ASSUME NEW S, IsFiniteSet(S), NEW l
    PROVE  IsFiniteSet({<<l, f>> : f \in S})
<1> DEFINE T == {<<l, f>> : f \in S}
           g == [f \in S |-> <<l, f>>]
<1>1. g \in Surjection(S, T)
    BY DEF Surjection
<1> QED
    BY <1>1, FS_Surjection

LEMMA PickWakes ==
    ASSUME WakeInv, Pick
    PROVE  WakeInv'
<1>1. UNCHANGED <<up, queue, group, reading, vs, disk, pending, imm, call, scheduled, due,
                  hot, bgError>>
    BY Unworked DEF Pick, fileVars, memVars, pickVars
<1>2. up = "up" /\ scheduled
    BY DEF Pick, WakeInv, Closed, Shape
<1>3. /\ DOMAIN work' = DOMAIN NoWork
      /\ work'.at \in {"merge", "manifest"} /\ work'.kind \in {"merge", "move"}
      /\ DOMAIN work'.edit = DOMAIN NoEdit /\ DOMAIN work'.comp = DOMAIN NoCompaction
      /\ IsFiniteSet(work'.edit.add) /\ IsFiniteSet(work'.comp.outputs)
      /\ work'.next \in Nat
    <2>1. CASE \E c : /\ work' = [NoWork EXCEPT !.at = "merge", !.kind = "merge", !.comp = c]
                      /\ DOMAIN c = DOMAIN NoCompaction
                      /\ c.version = vs.version /\ c.outputs = {}
        <3>1. /\ DOMAIN work' = DOMAIN NoWork
              /\ work'.at = "merge" /\ work'.kind = "merge"
              /\ work'.edit = NoEdit /\ work'.next = 0
              /\ DOMAIN work'.comp = DOMAIN NoCompaction /\ work'.comp.outputs = {}
            BY <2>1, NoWorkShape
        <3> QED
            BY <3>1, NoWorkShape, FS_EmptySet
    <2>2. CASE \E edit : /\ work' = LogAndApply(NoWork, "move", edit)
                         /\ DOMAIN edit = DOMAIN NoEdit
                         /\ \E l \in Level : \E S \in SUBSET vs.version[l] :
                                edit.add = {<<l + 1, f>> : f \in S}
        <3>1. PICK edit : /\ work' = LogAndApply(NoWork, "move", edit)
                          /\ DOMAIN edit = DOMAIN NoEdit
                          /\ \E l \in Level : \E S \in SUBSET vs.version[l] :
                                edit.add = {<<l + 1, f>> : f \in S}
            BY <2>2
        <3>2. /\ DOMAIN work' = DOMAIN NoWork
              /\ work'.at = "manifest" /\ work'.kind = "move"
              /\ work'.edit = edit /\ work'.next \in Nat
              /\ work'.comp = NoCompaction
            BY <3>1, LogAndApplyShape, NoWorkShape DEF WakeInv, Shape
        <3>3. PICK l \in Level :
                \E S \in SUBSET vs.version[l] : edit.add = {<<l + 1, f>> : f \in S}
            BY <3>1
        <3>6. PICK S \in SUBSET vs.version[l] : edit.add = {<<l + 1, f>> : f \in S}
            BY <3>3
        <3>4. IsFiniteSet(S)
            BY FS_Subset DEF WakeInv, Finite, FilesFinite
        <3>5. IsFiniteSet(edit.add)
            <4>1. \A k : IsFiniteSet({<<k, f>> : f \in S})
                BY <3>4, PairsFinite
            <4> QED
                BY <3>6, <4>1
        <3> QED
            BY <3>1, <3>2, <3>5, NoWorkShape, FS_EmptySet
    <2> QED
        BY <2>1, <2>2, PickStep
<1>4. Shape'
    BY <1>1, <1>3, NoWorkShape DEF WakeInv, Shape
<1>5. Finite' /\ Numbered' /\ Picks' /\ WorkIsScheduled' /\ NoLostWakeup'
    BY <1>1, <1>2, <1>3
       DEF WakeInv, Shape, Finite, Numbered, Picks, WorkIsScheduled, NoLostWakeup
<1>6. Closed'
    BY <1>1, <1>2, <1>3 DEF WakeInv, Closed
<1> QED
    BY <1>4, <1>5, <1>6 DEF WakeInv

\* The next output of a merge is written, and pending_outputs_ has it.
Writes(out) ==
    /\ work' = [work EXCEPT !.comp.rest = @ \ out,
                            !.comp.outputs = @ \cup {[num |-> vs.next, ents |-> out]}]
    /\ pending' = pending \cup {vs.next}
    /\ disk' = [disk EXCEPT !.tables = @ \cup {vs.next}]
    /\ vs' = [vs EXCEPT !.next = @ + 1]
    /\ UNCHANGED <<call, scheduled, bgError>>

LEMMA WritesStep ==
    ASSUME Shape, NEW out, Writes(out)
    PROVE  /\ DOMAIN work' = DOMAIN work
           /\ work'.at = work.at /\ work'.kind = work.kind /\ work'.edit = work.edit
           /\ work'.next = work.next
           /\ DOMAIN work'.comp = DOMAIN work.comp
           /\ work'.comp.version = work.comp.version
           /\ work'.comp.outputs = work.comp.outputs \cup {[num |-> vs.next, ents |-> out]}
           /\ DOMAIN disk' = DOMAIN disk
           /\ disk'.logs = disk.logs /\ disk'.manifest = disk.manifest
           /\ disk'.tables = disk.tables \cup {vs.next}
           /\ DOMAIN vs' = DOMAIN vs /\ vs'.version = vs.version /\ vs'.next = vs.next + 1
BY DEF Writes, Shape, Versions

LEMMA WriteOutputStep ==
    ASSUME WriteOutput
    PROVE  /\ work.at = "merge"
           /\ UNCHANGED <<up, queue, group, reading, mem, imm, due, hot>>
           /\ \/ \E out : Writes(out)
              \/ /\ bgError' = TRUE
                 /\ vs' = [vs EXCEPT !.next = @ + 1]
                 /\ CleanupCompaction(disk, vs, TRUE, due, hot)
BY Unworked DEF WriteOutput, Writes, memVars, pickVars

LEMMA WriteOutputWakes ==
    ASSUME WakeInv, WriteOutput
    PROVE  WakeInv'
<1>1. work.at = "merge" /\ UNCHANGED <<up, queue, group, reading, mem, imm, due, hot>>
    BY WriteOutputStep
<1>2. up = "up"
    BY <1>1 DEF WakeInv, Closed, Shape
<1>3. CASE \E out : Writes(out)
    <2>1. PICK out : Writes(out)
        BY <1>3
    <2>2. /\ DOMAIN work' = DOMAIN work
          /\ work'.at = work.at /\ work'.kind = work.kind /\ work'.edit = work.edit
          /\ work'.next = work.next
          /\ DOMAIN work'.comp = DOMAIN work.comp
          /\ work'.comp.outputs = work.comp.outputs \cup {[num |-> vs.next, ents |-> out]}
          /\ DOMAIN disk' = DOMAIN disk
          /\ disk'.logs = disk.logs /\ disk'.manifest = disk.manifest
          /\ DOMAIN vs' = DOMAIN vs /\ vs'.version = vs.version /\ vs'.next = vs.next + 1
        BY <2>1, WritesStep DEF WakeInv
    <2>3. UNCHANGED <<call, scheduled, bgError>>
        BY <2>1 DEF Writes
    <2>4. IsFiniteSet(work'.comp.outputs)
        <3>1. \A x : IsFiniteSet(work.comp.outputs \cup {x})
            BY FS_AddElement DEF WakeInv, Finite
        <3> QED
            BY <2>2, <3>1
    <2>5. Shape'
        BY <1>1, <2>2, <2>3 DEF WakeInv, Shape
    <2>6. Finite' /\ Numbered' /\ Picks' /\ WorkIsScheduled' /\ NoLostWakeup'
        BY <1>1, <2>2, <2>3, <2>4 DEF WakeInv, Finite, Numbered, Picks, WorkIsScheduled, NoLostWakeup
    <2>7. Closed'
        BY <1>1, <1>2, <2>2 DEF WakeInv, Closed
    <2> QED
        BY <2>5, <2>6, <2>7 DEF WakeInv
<1>4. CASE /\ bgError' = TRUE
           /\ vs' = [vs EXCEPT !.next = @ + 1]
           /\ CleanupCompaction(disk, vs, TRUE, due, hot)
    <2>1. /\ call' \in [Writer -> Asking]
          /\ \A w \in Writer : call'[w].asleep # "bg"
          /\ scheduled' \in BOOLEAN
          /\ work' = NoWork /\ disk' = disk
        BY <1>4, CleanupStep DEF WakeInv, Shape, Finite
    <2>2. DOMAIN vs' = DOMAIN vs /\ vs'.version = vs.version /\ vs'.next \in Nat
        BY <1>4 DEF WakeInv, Shape, Versions
    <2>3. Shape'
        BY <1>1, <1>4, <2>1, <2>2, NoWorkShape DEF WakeInv, Shape
    <2>4. Finite' /\ Numbered' /\ Picks' /\ WorkIsScheduled' /\ NoLostWakeup'
        BY <1>1, <1>4, <2>1, <2>2, NoWorkShape, FS_EmptySet
           DEF WakeInv, Finite, Numbered, Picks, WorkIsScheduled, NoLostWakeup
    <2>5. Closed'
        BY <1>1, <1>2, <2>1, NoWorkShape DEF WakeInv, Closed
    <2> QED
        BY <2>3, <2>4, <2>5 DEF WakeInv
<1> QED
    BY <1>3, <1>4, WriteOutputStep

LEMMA InstallStep ==
    ASSUME WakeInv, InstallCompactionResults
    PROVE  /\ UNCHANGED <<up, queue, group, reading, vs, disk, pending, imm, call, scheduled,
                          due, hot, bgError>>
           /\ work.at = "merge"
           /\ DOMAIN work' = DOMAIN work
           /\ work'.at = "manifest" /\ work'.kind = "merge"
           /\ work'.comp = work.comp /\ work'.next = vs.next
           /\ DOMAIN work'.edit = DOMAIN NoEdit
           /\ work'.edit.add = {<<work.comp.level + 1, f>> : f \in work.comp.outputs}
<1> DEFINE c == work.comp
           edit == [del |-> UNION {{<<c.level + i - 1, f>> : f \in c.inputs[i]} : i \in 1 .. 2},
                    add |-> {<<c.level + 1, f>> : f \in c.outputs}]
<1>1. work.at = "merge" /\ work' = LogAndApply(work, "merge", edit)
    BY DEF InstallCompactionResults
<1>2. DOMAIN edit = DOMAIN NoEdit /\ edit.add = {<<work.comp.level + 1, f>> : f \in work.comp.outputs}
    BY DEF NoEdit
<1>3. UNCHANGED <<up, queue, group, reading, vs, disk, pending, imm, call, scheduled, due,
                  hot, bgError>>
    BY Unworked DEF InstallCompactionResults, fileVars, memVars, pickVars
<1> HIDE DEF edit
<1>4. /\ DOMAIN work' = DOMAIN work
      /\ work'.at = "manifest" /\ work'.kind = "merge"
      /\ work'.comp = work.comp /\ work'.edit = edit /\ work'.next = vs.next
    BY <1>1, LogAndApplyShape DEF WakeInv, Shape
<1> QED
    BY <1>1, <1>2, <1>3, <1>4

LEMMA InstallWakes ==
    ASSUME WakeInv, InstallCompactionResults
    PROVE  WakeInv'
<1>1. /\ UNCHANGED <<up, queue, group, reading, vs, disk, pending, imm, call, scheduled,
                     due, hot, bgError>>
      /\ work.at = "merge"
      /\ DOMAIN work' = DOMAIN work
      /\ work'.at = "manifest" /\ work'.kind = "merge"
      /\ work'.comp = work.comp /\ work'.next = vs.next
      /\ DOMAIN work'.edit = DOMAIN NoEdit
      /\ work'.edit.add = {<<work.comp.level + 1, f>> : f \in work.comp.outputs}
    BY InstallStep
<1>2. up = "up"
    BY <1>1 DEF WakeInv, Closed, Shape
<1>3. IsFiniteSet(work'.edit.add)
    <2>1. \A k : IsFiniteSet({<<k, f>> : f \in work.comp.outputs})
        BY PairsFinite DEF WakeInv, Finite
    <2> QED
        BY <1>1, <2>1
<1>4. Shape'
    BY <1>1, NoWorkShape DEF WakeInv, Shape
<1>5. Finite' /\ Numbered' /\ Picks' /\ WorkIsScheduled' /\ NoLostWakeup'
    BY <1>1, <1>2, <1>3
       DEF WakeInv, Shape, Finite, Numbered, Picks, WorkIsScheduled, NoLostWakeup
<1>6. Closed'
    BY <1>1, <1>2 DEF WakeInv, Closed
<1> QED
    BY <1>4, <1>5, <1>6 DEF WakeInv

\* A version that is installed: what is due follows from it.
LEMMA FinalizeStep ==
    ASSUME NEW v, NEW d \in Finalize(v)
    PROVE  /\ d = {} \/ \E l \in Level : d = {l}
           /\ Cardinality(v[0]) >= CompactionTrigger => d # {}
BY VersionSetAssumption DEF Finalize, Level

\* The current version with the edit, and the manifest.
Installed == [vs EXCEPT !.version = Apply(vs.version, work.edit), !.log = EditLog]
Recorded == [disk EXCEPT !.manifest = Appended]

LEMMA InstalledShape ==
    ASSUME WakeInv
    PROVE  /\ DOMAIN Installed = Versions
           /\ Installed.version = Apply(vs.version, work.edit)
           /\ Installed.next = vs.next
           /\ FilesFinite(Installed.version)
           /\ DOMAIN Recorded = DOMAIN disk
           /\ DOMAIN Recorded.manifest = Versions
           /\ Recorded.manifest.version = Apply(disk.manifest.version, work.edit)
           /\ FilesFinite(Recorded.manifest.version)
           /\ Recorded.manifest.next = work.next
           /\ Recorded.logs = disk.logs /\ Recorded.tables = disk.tables
<1>1. DOMAIN Installed = Versions /\ Installed.version = Apply(vs.version, work.edit)
      /\ Installed.next = vs.next
    BY DEF WakeInv, Shape, Installed, Versions
<1>2. /\ DOMAIN Recorded = DOMAIN disk /\ Recorded.manifest = Appended
      /\ Recorded.logs = disk.logs /\ Recorded.tables = disk.tables
    BY DEF WakeInv, Shape, Recorded
<1>3. /\ DOMAIN Appended = Versions /\ Appended.next = work.next
      /\ Appended.version = Apply(disk.manifest.version, work.edit)
    BY DEF Appended, Versions
<1> QED
    BY <1>1, <1>2, <1>3, ApplyFinite DEF WakeInv, Finite

LEMMA ManifestWrittenStep ==
    ASSUME ManifestWritten
    PROVE  /\ work.at = "manifest"
           /\ UNCHANGED <<up, queue, group, reading, mem, bgError>>
           /\ vs' = Installed /\ due' \in Finalize(Installed.version) /\ hot' = {}
           /\ \/ /\ work.kind = "flush" /\ imm' = 0
                 /\ disk' = Collected(Recorded, Installed, work.comp, pending, bgError)
                 /\ GoOn(bgError, 0, due', {})
                 /\ UNCHANGED pending
              \/ /\ work.kind = "merge" /\ imm' = imm
                 /\ CleanupCompaction(Recorded, Installed, bgError, due', {})
              \/ /\ work.kind = "move" /\ imm' = imm
                 /\ disk' = Recorded
                 /\ EndOfCall(bgError, imm, due', {}, call)
                 /\ UNCHANGED pending
BY Unworked DEF ManifestWritten, Installed, Recorded, memVars

LEMMA ManifestWrittenWakes ==
    ASSUME WakeInv, ManifestWritten
    PROVE  WakeInv'
<1>1. /\ work.at = "manifest"
      /\ UNCHANGED <<up, queue, group, reading, bgError>>
      /\ vs' = Installed /\ due' \in Finalize(Installed.version) /\ hot' = {}
    BY ManifestWrittenStep
<1>2. up = "up" /\ scheduled
    BY <1>1 DEF WakeInv, Closed, Shape, WorkIsScheduled
<1>3. /\ DOMAIN vs' = Versions /\ FilesFinite(vs'.version) /\ vs'.next \in Nat
    BY <1>1, InstalledShape DEF WakeInv, Shape
<1>4. Picks' /\ (Cardinality(vs'.version[0]) >= CompactionTrigger => due' # {})
    BY <1>1, FinalizeStep DEF Picks
<1>5. /\ call' \in [Writer -> Asking]
      /\ \A w \in Writer : call'[w].asleep # "bg"
      /\ scheduled' \in BOOLEAN
      /\ \/ work' = NoWork
         \/ /\ work' = [NoWork EXCEPT !.at = "merge", !.kind = "merge", !.comp = work.comp]
            /\ scheduled'
      /\ ~bgError /\ (imm' # 0 \/ due' # {}) => scheduled'
      /\ DOMAIN disk' = DOMAIN disk
      /\ disk'.manifest = Recorded.manifest
      /\ IsFiniteSet(DOMAIN disk'.logs) /\ DOMAIN disk'.logs \subseteq Nat
    <2>1. bgError \in BOOLEAN
        BY DEF WakeInv, Shape
    <2>2. /\ DOMAIN Recorded = {"logs", "tables", "manifest"}
          /\ IsFiniteSet(DOMAIN Recorded.logs) /\ DOMAIN Recorded.logs \subseteq Nat
        BY InstalledShape DEF WakeInv, Shape, Finite, Numbered
    <2>3. CASE /\ work.kind = "flush" /\ imm' = 0
               /\ disk' = Collected(Recorded, Installed, work.comp, pending, bgError)
               /\ GoOn(bgError, 0, due', {})
        <3>1. /\ DOMAIN disk' = DOMAIN Recorded
              /\ disk'.manifest = Recorded.manifest
              /\ IsFiniteSet(DOMAIN disk'.logs) /\ DOMAIN disk'.logs \subseteq DOMAIN Recorded.logs
            BY <2>2, <2>3, CollectedShape
        <3>2. /\ call' \in [Writer -> Asking]
              /\ \A w \in Writer : call'[w].asleep # "bg"
              /\ scheduled' \in BOOLEAN
              /\ \/ /\ work' = [NoWork EXCEPT !.at = "merge", !.kind = "merge",
                                              !.comp = work.comp]
                    /\ scheduled' = scheduled
                 \/ work' = NoWork /\ (~bgError /\ due' # {} => scheduled')
            BY <2>1, <2>3, GoOnStep DEF WakeInv
        <3> QED
            BY <1>2, <2>2, <2>3, <3>1, <3>2 DEF WakeInv, Shape
    <2>4. CASE /\ work.kind = "merge" /\ imm' = imm
               /\ CleanupCompaction(Recorded, Installed, bgError, due', {})
        <3>1. /\ call' \in [Writer -> Asking]
              /\ \A w \in Writer : call'[w].asleep # "bg"
              /\ scheduled' \in BOOLEAN
              /\ ~bgError /\ (imm # 0 \/ due' # {} \/ {} # {}) => scheduled'
              /\ work' = NoWork
              /\ DOMAIN disk' = DOMAIN Recorded
              /\ disk'.manifest = Recorded.manifest
              /\ IsFiniteSet(DOMAIN disk'.logs) /\ DOMAIN disk'.logs \subseteq Nat
            <4>1. CleanupCompaction(Recorded, Installed, bgError, due', {})
                BY <2>4
            <4>2. Shape
                BY DEF WakeInv
            <4> QED
                BY ONLY <2>1, <2>2, <4>1, <4>2, CleanupStep
        <3> QED
            BY <2>2, <2>4, <3>1 DEF WakeInv, Shape
    <2>5. CASE /\ work.kind = "move" /\ imm' = imm
               /\ disk' = Recorded
               /\ EndOfCall(bgError, imm, due', {}, call)
        BY <2>1, <2>2, <2>5, EndOfCallStep DEF WakeInv, Shape
    <2> QED
        BY <2>3, <2>4, <2>5, ManifestWrittenStep
<1>6. /\ DOMAIN work' = DOMAIN work /\ work'.at \in {"none", "merge"}
      /\ work'.kind \in {"none", "merge"}
      /\ work'.edit = NoEdit /\ work'.comp \in {NoCompaction, work.comp}
      /\ work'.at = "merge" => scheduled'
      /\ work'.next = 0
    BY ZenonT(30), <1>5, NoWorkShape DEF WakeInv, Shape
<1>7. /\ FilesFinite(disk'.manifest.version) /\ DOMAIN disk'.manifest = Versions
      /\ disk'.manifest.next \in Nat
    BY <1>5, InstalledShape DEF WakeInv, Numbered
<1>8. Shape'
    BY <1>1, <1>3, <1>5, <1>6, <1>7, NoWorkShape DEF WakeInv, Shape
<1>9. Finite'
    BY <1>3, <1>5, <1>6, <1>7, NoWorkShape, FS_EmptySet DEF WakeInv, Finite
<1>10. WorkIsScheduled' /\ NoLostWakeup'
    BY <1>1, <1>4, <1>5, <1>6 DEF WorkIsScheduled, NoLostWakeup
<1>11. Closed' /\ Numbered'
    BY <1>1, <1>2, <1>5, <1>6, <1>7 DEF WakeInv, Closed, Numbered
<1> QED
    BY <1>4, <1>8, <1>9, <1>10, <1>11 DEF WakeInv

LEMMA ManifestFailsStep ==
    ASSUME ManifestFails
    PROVE  /\ work.at = "manifest"
           /\ UNCHANGED <<up, queue, group, reading, vs, mem, imm, due, hot>>
           /\ bgError' = TRUE
           /\ \E d \in {disk, Recorded} :
                \/ disk' = d /\ GoOn(TRUE, imm, due, hot) /\ UNCHANGED pending
                \/ work.kind = "merge" /\ CleanupCompaction(d, vs, TRUE, due, hot)
                \/ disk' = d /\ EndOfCall(TRUE, imm, due, hot, call) /\ UNCHANGED pending
BY Unworked DEF ManifestFails, Recorded, memVars, pickVars

LEMMA ManifestFailsWakes ==
    ASSUME WakeInv, ManifestFails
    PROVE  WakeInv'
<1>1. /\ work.at = "manifest"
      /\ UNCHANGED <<up, queue, group, reading, vs, mem, imm, due, hot>>
      /\ bgError' = TRUE
    BY ManifestFailsStep
<1>2. up = "up" /\ scheduled
    BY <1>1 DEF WakeInv, Closed, Shape, WorkIsScheduled
<1>3. PICK d \in {disk, Recorded} :
        \/ disk' = d /\ GoOn(TRUE, imm, due, hot)
        \/ work.kind = "merge" /\ CleanupCompaction(d, vs, TRUE, due, hot)
        \/ disk' = d /\ EndOfCall(TRUE, imm, due, hot, call)
    BY ManifestFailsStep
<1>4. /\ DOMAIN d = {"logs", "tables", "manifest"}
      /\ IsFiniteSet(DOMAIN d.logs)
      /\ DOMAIN d.manifest = Versions /\ FilesFinite(d.manifest.version)
      /\ DOMAIN d.logs \subseteq Nat /\ d.manifest.next \in Nat
    BY InstalledShape DEF WakeInv, Shape, Finite, Numbered
<1>5. /\ call' \in [Writer -> Asking]
      /\ \A w \in Writer : call'[w].asleep # "bg"
      /\ scheduled' \in BOOLEAN
      /\ \/ work' = NoWork
         \/ /\ work' = [NoWork EXCEPT !.at = "merge", !.kind = "merge", !.comp = work.comp]
            /\ scheduled'
      /\ disk' = d
    <2>1. CASE disk' = d /\ GoOn(TRUE, imm, due, hot)
        BY <1>2, <2>1, GoOnStep DEF WakeInv
    <2>2. CASE CleanupCompaction(d, vs, TRUE, due, hot)
        BY <1>4, <2>2, CleanupStep DEF WakeInv
    <2>3. CASE disk' = d /\ EndOfCall(TRUE, imm, due, hot, call)
        BY <2>3, EndOfCallStep DEF WakeInv
    <2> QED
        BY <1>3, <2>1, <2>2, <2>3
<1>6. /\ DOMAIN work' = DOMAIN work /\ work'.at \in {"none", "merge"}
      /\ work'.kind \in {"none", "merge"}
      /\ work'.edit = NoEdit /\ work'.comp \in {NoCompaction, work.comp}
      /\ work'.at = "merge" => scheduled'
      /\ work'.next = 0
    BY ZenonT(30), <1>5, NoWorkShape DEF WakeInv, Shape
<1>7. Shape'
    BY <1>1, <1>4, <1>5, <1>6, NoWorkShape DEF WakeInv, Shape
<1>8. Finite'
    BY <1>1, <1>4, <1>5, <1>6, NoWorkShape, FS_EmptySet DEF WakeInv, Finite
<1>9. Picks' /\ WorkIsScheduled' /\ NoLostWakeup'
    BY <1>1, <1>5, <1>6 DEF WakeInv, Picks, WorkIsScheduled, NoLostWakeup
<1>10. Closed' /\ Numbered'
    BY <1>1, <1>2, <1>4, <1>5, <1>6 DEF WakeInv, Closed, Numbered
<1> QED
    BY <1>7, <1>8, <1>9, <1>10 DEF WakeInv

LEMMA SnapshotWakes ==
    ASSUME WakeInv, GetSnapshot \/ ReleaseSnapshot
    PROVE  WakeInv' /\ UNCHANGED <<up, vs, disk, pending, work, bgError, reading>>
<1>1. UNCHANGED <<up, vs, disk, pending, imm, queue, call, group, work, bgError, scheduled,
                  due, hot, reading>>
    BY DEF GetSnapshot, ReleaseSnapshot, readRest, fileVars, writeVars, pickVars
<1>2. Shape' /\ Finite' /\ Numbered' /\ Closed' /\ Picks' /\ WorkIsScheduled' /\ NoLostWakeup'
    BY <1>1 DEF WakeInv, Shape, Finite, Numbered, Closed, Picks, WorkIsScheduled, NoLostWakeup
<1> QED
    BY <1>1, <1>2 DEF WakeInv

LEMMA BeginReadWakes ==
    ASSUME WakeInv, NEW r \in Reader, BeginRead(r)
    PROVE  /\ WakeInv'
           /\ UNCHANGED <<up, vs, disk, pending, work, bgError>>
           /\ \A u \in Reader : reading'[u].version \in {vs.version, reading[u].version}
<1>1. UNCHANGED <<up, vs, disk, pending, imm, queue, call, group, work, bgError, scheduled,
                  due, hot>>
    BY DEF BeginRead, readRest, fileVars, writeVars, pickVars
<1>2. PICK s : reading' = [reading EXCEPT ![r] =
                [seq |-> s, mem |-> mem, imm |-> imm, version |-> vs.version,
                 saw |-> Current(s)]]
    BY DEF BeginRead
<1>3. DOMAIN reading' = Reader
    BY <1>2 DEF WakeInv, Shape
<1>4. up = "up"
    BY DEF BeginRead
<1>5. Shape' /\ Finite' /\ Numbered' /\ Closed' /\ Picks' /\ WorkIsScheduled' /\ NoLostWakeup'
    BY <1>1, <1>3, <1>4 DEF WakeInv, Shape, Finite, Numbered, Closed, Picks, WorkIsScheduled, NoLostWakeup
<1>6. \A u \in Reader : reading'[u].version \in {vs.version, reading[u].version}
    BY <1>2 DEF WakeInv, Shape
<1> QED
    BY <1>1, <1>5, <1>6 DEF WakeInv

LEMMA EndReadWakes ==
    ASSUME WakeInv, NEW r \in Reader, EndRead(r)
    PROVE  /\ WakeInv'
           /\ UNCHANGED <<up, vs, disk, pending, work, bgError>>
           /\ \A u \in Reader : reading'[u] \in {NoRead, reading[u]}
<1>1. UNCHANGED <<up, vs, disk, pending, imm, queue, call, group, work, bgError>>
    BY DEF EndRead, readRest, fileVars, writeVars
<1>2. reading' = [reading EXCEPT ![r] = NoRead] /\ reading[r] # NoRead
    BY DEF EndRead
<1>3. DOMAIN reading' = Reader /\ \A u \in Reader : reading'[u] \in {NoRead, reading[u]}
    BY <1>2 DEF WakeInv, Shape
<1>4. up = "up"
    BY <1>2 DEF WakeInv, Closed
<1>5. UNCHANGED due
    BY DEF EndRead, pickVars
<1>6. /\ scheduled' \in BOOLEAN /\ (scheduled => scheduled')
      /\ \/ UNCHANGED <<hot, scheduled>>
         \/ scheduled' = Scheduled(scheduled, bgError, imm, due, hot')
    BY ScheduledType DEF EndRead, pickVars, WakeInv, Shape
<1>7. \A p \in hot' : p[1] \in Level /\ p[2] \in vs.version[p[1]]
    <2>1. CASE UNCHANGED hot
        BY <2>1 DEF WakeInv, Picks
    <2>2. CASE \E p \in ReadInVain(vs.version) : hot' = {p}
        <3>1. \A l \in 0 .. NumLevels - 2 : l \in Level
            BY VersionSetAssumption DEF Level
        <3>2. \A p \in ReadInVain(vs.version) : p[1] \in Level /\ p[2] \in vs.version[p[1]]
            BY <3>1 DEF ReadInVain
        <3> QED
            BY <2>2, <3>2
    <2> QED
        BY <2>1, <2>2 DEF EndRead, pickVars
<1>8. Shape' /\ Finite' /\ Numbered' /\ Closed' /\ Picks'
    BY <1>1, <1>3, <1>4, <1>5, <1>6, <1>7 DEF WakeInv, Shape, Finite, Numbered, Closed, Picks
<1>9. WorkIsScheduled'
    BY <1>1, <1>5, <1>6, ScheduledType DEF WakeInv, Shape, WorkIsScheduled
<1>10. NoLostWakeup'
    BY <1>1, <1>6 DEF WakeInv, NoLostWakeup
<1> QED
    BY <1>1, <1>3, <1>8, <1>9, <1>10 DEF WakeInv

LEMMA NoFilesFinite == FilesFinite(NoFiles)
BY FS_EmptySet DEF FilesFinite, NoFiles

LEMMA CrashStep ==
    ASSUME WakeInv, Crash
    PROVE  /\ DOMAIN disk' = DOMAIN disk
           /\ disk'.tables = disk.tables /\ disk'.manifest = disk.manifest
           /\ DOMAIN disk'.logs = DOMAIN disk.logs
<1>1. CASE UNCHANGED disk
    BY <1>1
<1>2. CASE \E cut \in [DOMAIN disk.logs -> UNION {Cuts(disk.logs[n]) : n \in DOMAIN disk.logs}] :
                disk' = [disk EXCEPT !.logs = cut]
    <2>1. PICK cut \in [DOMAIN disk.logs -> UNION {Cuts(disk.logs[n]) : n \in DOMAIN disk.logs}] :
                disk' = [disk EXCEPT !.logs = cut]
        BY <1>2
    <2> QED
        BY <2>1 DEF WakeInv, Shape
<1> QED
    BY <1>1, <1>2 DEF Crash

LEMMA CrashWakes ==
    ASSUME WakeInv, Crash
    PROVE  WakeInv'
<1>1. /\ up' = "down"
      /\ vs' = [version |-> NoFiles, seq |-> 0, next |-> 0, log |-> 0]
      /\ imm' = 0 /\ queue' = <<>> /\ call' = [w \in Writer |-> NoCall] /\ group' = NoGroup
      /\ scheduled' = FALSE /\ work' = NoWork /\ pending' = {} /\ due' = {} /\ hot' = {}
      /\ bgError' = FALSE /\ reading' = [r \in Reader |-> NoRead]
    BY DEF Crash
<1>2. Shape'
    BY <1>1, CrashStep, NoWorkShape, NoCallAsks DEF WakeInv, Shape, Versions, NoGroup
<1>3. Finite' /\ Numbered'
    BY <1>1, CrashStep, NoWorkShape, NoFilesFinite, FS_EmptySet DEF WakeInv, Finite, Numbered
<1>4. Closed' /\ Picks' /\ WorkIsScheduled' /\ NoLostWakeup'
    BY <1>1, NoWorkShape, NoCallAsks DEF Closed, Picks, WorkIsScheduled, NoLostWakeup, NoGroup
<1> QED
    BY <1>2, <1>3, <1>4 DEF WakeInv

\* A finite set of numbers has a greatest one: the one that the fewest are above.
LEMMA FiniteMax ==
    ASSUME NEW S \in SUBSET Nat, S # {}, IsFiniteSet(S)
    PROVE  \E n \in S : \A o \in S : o <= n
<1> DEFINE above(n) == {o \in S : o > n}
           sizes == {Cardinality(above(n)) : n \in S}
<1>1. \A n \in S : IsFiniteSet(above(n)) /\ Cardinality(above(n)) \in Nat
    BY FS_Subset, FS_CardinalityType
<1>2. sizes \subseteq Nat /\ sizes # {}
    BY <1>1
<1>3. \E c \in sizes : \A d \in sizes : ~(<<d, c>> \in OpToRel(<, Nat))
    <2> HIDE DEF sizes
    <2> QED
        BY <1>2, NatLessThanWellFounded, WFMin
<1>4. PICK n \in S : \A d \in sizes : ~(d < Cardinality(above(n)))
    BY <1>2, <1>3 DEF OpToRel
<1>5. SUFFICES ASSUME NEW o \in S, o > n
               PROVE  FALSE
    BY <1>4
<1>6. above(o) \subseteq above(n) /\ o \in above(n) \ above(o)
    <2>1. n \in Nat /\ o \in Nat /\ \A p \in S : p \in Nat
        OBVIOUS
    <2>2. \A p \in Nat : p > o => p > n
        BY <1>5, <2>1
    <2>3. ~(o > o)
        BY <2>1
    <2> QED
        BY <1>5, <2>1, <2>2, <2>3
<1>7. Cardinality(above(o)) < Cardinality(above(n))
    <2>1. above(o) \in SUBSET above(n) /\ above(o) # above(n)
        BY <1>6
    <2> HIDE DEF above
    <2>2. /\ Cardinality(above(o)) <= Cardinality(above(n))
          /\ Cardinality(above(n)) = Cardinality(above(o)) => above(n) = above(o)
        BY <1>1, <2>1, FS_Subset
    <2> QED
        BY <1>1, <2>1, <2>2
<1> QED
    BY <1>4, <1>7

\* What recovery makes of the logs that it reads.
LEMMA RecoverStep ==
    ASSUME WakeInv, Recover
    PROVE  /\ up = "down" /\ up' = "opening"
           /\ UNCHANGED <<imm, queue, call, group, scheduled, pending, due, hot, bgError, reading>>
           /\ DOMAIN vs' = Versions /\ vs'.version = disk.manifest.version
           /\ vs'.next \in Nat /\ work'.next \in Nat /\ DOMAIN disk'.logs \subseteq Nat
           /\ DOMAIN disk' = DOMAIN disk /\ disk'.manifest = disk.manifest
           /\ IsFiniteSet(DOMAIN disk'.logs)
           /\ \E tables :
                /\ IsFiniteSet(tables)
                /\ disk'.tables = disk.tables \cup Nums(tables)
                /\ work'.edit.add = {0} \X tables
           /\ work'.at = "open" /\ work'.kind = "none" /\ work'.comp = NoCompaction
           /\ DOMAIN work' = DOMAIN NoWork /\ DOMAIN work'.edit = DOMAIN NoEdit
<1> DEFINE m == disk.manifest
           logs == {n \in LiveLogs(disk) : Readable(disk.logs[n]) # {}}
           num(n) == m.next + Cardinality({o \in logs : o <= n})
           tables == {[num |-> num(n), ents |-> Readable(disk.logs[n])] : n \in logs}
           used == {m.next + Cardinality(logs)} \cup LiveLogs(disk)
           last == CHOOSE n \in used : \A o \in used : o <= n
           new == last + 1
<1>1. /\ up = "down" /\ up' = "opening"
      /\ vs' = [version |-> m.version, seq |-> NewestSeq(AllEntries(tables), m.seq),
                next |-> new + 1, log |-> m.log]
      /\ disk' = [disk EXCEPT
                    !.tables = @ \cup {f.num : f \in tables},
                    !.logs = [n \in DOMAIN @ \cup {new} |->
                                IF n = new THEN NoLog ELSE @[n]]]
      /\ work' = [NoWork EXCEPT !.at = "open", !.seq = vs'.seq, !.next = new + 1,
                                !.edit = [NoEdit EXCEPT !.add = {0} \X tables]]
      /\ UNCHANGED <<imm, queue, call, group, scheduled, pending, due, hot, bgError, reading>>
    BY DEF Recover, writeVars, pickVars, readVars
<1>2. IsFiniteSet(logs)
    BY FS_Subset DEF LiveLogs, WakeInv, Finite
<1>3. IsFiniteSet(tables)
    <2> DEFINE table(n) == [num |-> num(n), ents |-> Readable(disk.logs[n])]
               f == [n \in logs |-> table(n)]
    <2> HIDE DEF table, logs
    <2>1. f \in Surjection(logs, {table(n) : n \in logs})
        BY DEF Surjection
    <2>2. IsFiniteSet({table(n) : n \in logs})
        BY <1>2, <2>1, FS_Surjection
    <2> QED
        BY <2>2 DEF table
<1>9. last \in Nat
    <2>1. Cardinality(logs) \in Nat
        BY <1>2, FS_CardinalityType
    <2>2. used \subseteq Nat /\ used # {}
        <3>1. LiveLogs(disk) \subseteq Nat /\ m.next \in Nat
            BY DEF LiveLogs, WakeInv, Numbered
        <3> HIDE DEF logs, m
        <3> QED
            BY <2>1, <3>1
    <2>3. IsFiniteSet(used)
        <3>1. IsFiniteSet(LiveLogs(disk))
            BY FS_Subset DEF LiveLogs, WakeInv, Finite
        <3> HIDE DEF logs
        <3> QED
            BY <3>1, FS_AddElement, FS_Singleton, FS_Union
    <2> HIDE DEF used
    <2>4. \E n \in used : \A o \in used : o <= n
        BY <2>2, <2>3, FiniteMax
    <2> QED
        BY <2>2, <2>4
<1> HIDE DEF tables, last, logs
<1>4. /\ DOMAIN disk' = DOMAIN disk /\ disk'.manifest = disk.manifest
      /\ disk'.tables = disk.tables \cup Nums(tables)
      /\ DOMAIN disk'.logs = DOMAIN disk.logs \cup {new}
    BY <1>1 DEF WakeInv, Shape, Nums
<1>5. IsFiniteSet(DOMAIN disk.logs \cup {new})
    BY FS_AddElement DEF WakeInv, Finite
<1>6. DOMAIN vs' = Versions /\ vs'.version = disk.manifest.version
    BY <1>1 DEF Versions
<1>10. vs'.next \in Nat /\ work'.next \in Nat /\ DOMAIN disk'.logs \subseteq Nat
    BY <1>1, <1>4, <1>9, NoWorkShape DEF WakeInv, Numbered
<1>7. /\ work'.at = "open" /\ work'.kind = "none" /\ work'.comp = NoCompaction
      /\ DOMAIN work' = DOMAIN NoWork
      /\ work'.edit = [NoEdit EXCEPT !.add = {0} \X tables]
    BY <1>1, NoWorkShape
<1>8. DOMAIN work'.edit = DOMAIN NoEdit /\ work'.edit.add = {0} \X tables
    BY <1>7, NoWorkShape
<1> QED
    BY <1>1, <1>3, <1>4, <1>5, <1>6, <1>7, <1>8, <1>10

LEMMA RecoverWakes ==
    ASSUME WakeInv, Recover
    PROVE  WakeInv'
<1>1. /\ up = "down" /\ up' = "opening"
      /\ UNCHANGED <<imm, queue, call, group, scheduled, pending, due, hot, bgError, reading>>
      /\ DOMAIN vs' = Versions /\ vs'.version = disk.manifest.version
      /\ vs'.next \in Nat /\ work'.next \in Nat /\ DOMAIN disk'.logs \subseteq Nat
      /\ DOMAIN disk' = DOMAIN disk /\ disk'.manifest = disk.manifest
      /\ IsFiniteSet(DOMAIN disk'.logs)
      /\ work'.at = "open" /\ work'.kind = "none" /\ work'.comp = NoCompaction
      /\ DOMAIN work' = DOMAIN NoWork /\ DOMAIN work'.edit = DOMAIN NoEdit
    BY RecoverStep
<1>2. IsFiniteSet(work'.edit.add)
    <2>1. PICK tables : IsFiniteSet(tables) /\ work'.edit.add = {0} \X tables
        BY RecoverStep
    <2>2. work'.edit.add = {<<0, f>> : f \in tables}
        BY <2>1
    <2>3. \A k : IsFiniteSet({<<k, f>> : f \in tables})
        BY <2>1, PairsFinite
    <2> QED
        BY <2>2, <2>3
<1>3. Shape'
    BY <1>1, NoWorkShape DEF WakeInv, Shape
<1>4. Finite'
    BY <1>1, <1>2, NoWorkShape, FS_EmptySet DEF WakeInv, Finite
<1>5. Numbered'
    BY <1>1 DEF WakeInv, Numbered
<1>6. Closed' /\ Picks' /\ WorkIsScheduled' /\ NoLostWakeup'
    <2>1. \A w \in Writer : call[w].asleep = "no"
        BY <1>1 DEF WakeInv, Closed
    <2>2. hot = {}
        BY <1>1 DEF WakeInv, Closed
    <2> QED
        BY <1>1, <2>1, <2>2 DEF WakeInv, Closed, Picks, WorkIsScheduled, NoLostWakeup
<1> QED
    BY <1>3, <1>4, <1>5, <1>6 DEF WakeInv

\* The current version with what was recovered, and the new manifest.
Reopened == [vs EXCEPT !.version = Apply(vs.version, work.edit), !.log = mem]
Renewed == [disk EXCEPT !.manifest = Reopened]

LEMMA OpenedStep ==
    ASSUME WakeInv, Opened
    PROVE  /\ up = "opening" /\ up' = "up"
           /\ UNCHANGED <<imm, queue, call, group, pending, bgError, reading>>
           /\ vs' = Reopened
           /\ DOMAIN Reopened = Versions /\ Reopened.next = vs.next
           /\ Reopened.version = Apply(vs.version, work.edit)
           /\ FilesFinite(Reopened.version)
           /\ DOMAIN Renewed = DOMAIN disk /\ Renewed.manifest = Reopened
           /\ Renewed.logs = disk.logs /\ Renewed.tables = disk.tables
           /\ disk' = Collected(Renewed, Reopened, NoCompaction, {}, FALSE)
           /\ due' \in Finalize(Reopened.version) /\ hot' = {}
           /\ work' = NoWork
           /\ scheduled' = Scheduled(FALSE, FALSE, 0, due', {})
<1>1. /\ up = "opening" /\ up' = "up"
      /\ UNCHANGED <<imm, queue, call, group, pending, bgError, reading>>
      /\ vs' = Reopened
      /\ disk' = Collected(Renewed, Reopened, NoCompaction, {}, FALSE)
      /\ due' \in Finalize(Reopened.version) /\ hot' = {}
      /\ work' = NoWork
      /\ scheduled' = Scheduled(FALSE, FALSE, 0, due', {})
    BY DEF Opened, Reopened, Renewed, memVars, writeVars, readVars
<1>2. /\ DOMAIN Reopened = Versions /\ Reopened.next = vs.next
      /\ Reopened.version = Apply(vs.version, work.edit)
    BY DEF Reopened, WakeInv, Shape, Versions
<1>3. /\ DOMAIN Renewed = DOMAIN disk /\ Renewed.manifest = Reopened
      /\ Renewed.logs = disk.logs /\ Renewed.tables = disk.tables
    BY DEF Renewed, WakeInv, Shape
<1>4. FilesFinite(Apply(vs.version, work.edit))
    BY ApplyFinite DEF WakeInv, Finite
<1> QED
    BY <1>1, <1>2, <1>3, <1>4

LEMMA OpenedWakes ==
    ASSUME WakeInv, Opened
    PROVE  WakeInv'
<1>1. /\ up = "opening" /\ up' = "up"
      /\ UNCHANGED <<imm, queue, call, group, pending, bgError, reading>>
      /\ vs' = Reopened
      /\ DOMAIN Reopened = Versions /\ Reopened.next = vs.next
      /\ FilesFinite(Reopened.version)
      /\ DOMAIN Renewed = DOMAIN disk /\ Renewed.manifest = Reopened
      /\ Renewed.logs = disk.logs
      /\ disk' = Collected(Renewed, Reopened, NoCompaction, {}, FALSE)
      /\ due' \in Finalize(Reopened.version) /\ hot' = {}
      /\ work' = NoWork
      /\ scheduled' = Scheduled(FALSE, FALSE, 0, due', {})
    BY OpenedStep
<1>2. /\ DOMAIN disk' = DOMAIN disk /\ disk'.manifest = Reopened
      /\ IsFiniteSet(DOMAIN disk'.logs) /\ DOMAIN disk'.logs \subseteq Nat
    <2>1. /\ DOMAIN Renewed = {"logs", "tables", "manifest"}
          /\ IsFiniteSet(DOMAIN Renewed.logs) /\ DOMAIN Renewed.logs \subseteq Nat
        BY <1>1 DEF WakeInv, Shape, Finite, Numbered
    <2>2. /\ DOMAIN disk' = DOMAIN Renewed /\ disk'.manifest = Renewed.manifest
          /\ IsFiniteSet(DOMAIN disk'.logs) /\ DOMAIN disk'.logs \subseteq DOMAIN Renewed.logs
        <3>1. \E none, err : disk' = Collected(Renewed, Reopened, NoCompaction, none, err)
            BY <1>1
        <3> QED
            BY ONLY <2>1, <3>1, CollectedShape
    <2> QED
        BY <1>1, <2>1, <2>2
<1>3. /\ due' = {} \/ \E l \in Level : due' = {l}
      /\ Cardinality(vs'.version[0]) >= CompactionTrigger => due' # {}
    BY <1>1, FinalizeStep
<1>4. imm = 0 /\ bgError = FALSE /\ \A w \in Writer : call[w].asleep = "no"
    BY <1>1 DEF WakeInv, Closed
<1>5. scheduled' \in BOOLEAN /\ (due' # {} => scheduled')
    BY <1>1 DEF Scheduled
<1>6. Shape'
    BY <1>1, <1>2, <1>5, NoWorkShape DEF WakeInv, Shape
<1>7. Finite'
    BY <1>1, <1>2, NoWorkShape, FS_EmptySet DEF Finite
<1>8. Numbered'
    <2>1. Reopened.next \in Nat
        BY <1>1 DEF WakeInv, Shape
    <2>2. work'.next = 0
        BY <1>1, NoWorkShape
    <2> QED
        BY <1>2, <2>1, <2>2 DEF Numbered
<1>9. Closed' /\ Picks' /\ WorkIsScheduled' /\ NoLostWakeup'
    BY <1>1, <1>3, <1>4, <1>5, NoWorkShape DEF Closed, Picks, WorkIsScheduled, NoLostWakeup
<1> QED
    BY <1>6, <1>7, <1>8, <1>9 DEF WakeInv

LEMMA InitWakes ==
    ASSUME Init
    PROVE  WakeInv
<1>1. /\ up = "up" /\ vs = [version |-> NoFiles, seq |-> 0, next |-> 4, log |-> 3]
      /\ imm = 0 /\ call = [w \in Writer |-> NoCall] /\ group = NoGroup
      /\ scheduled = FALSE /\ work = NoWork /\ due = {} /\ hot = {} /\ bgError = FALSE
      /\ reading = [r \in Reader |-> NoRead]
      /\ disk = [logs |-> [n \in {3} |-> NoLog], tables |-> {}, manifest |-> vs]
    BY DEF Init
<1>2. Shape
    BY <1>1, NoWorkShape, NoCallAsks DEF Shape, Versions, NoGroup
<1>3. disk.manifest = vs /\ DOMAIN disk.logs = {3}
    BY <1>1
<1>4. Finite
    BY <1>1, <1>3, NoFilesFinite, NoWorkShape, FS_EmptySet, FS_Singleton DEF Finite
<1>5. Numbered
    BY <1>1, <1>3, NoWorkShape DEF Numbered
<1>6. Closed /\ Picks /\ NoLostWakeup
    BY <1>1, NoWorkShape, NoCallAsks DEF Closed, Picks, NoLostWakeup
<1>7. WorkIsScheduled
    <2>1. vs.version[0] = {}
        BY <1>1, VersionSetAssumption DEF NoFiles, Level
    <2>2. ~(Cardinality(vs.version[0]) >= CompactionTrigger)
        BY <2>1, FS_EmptySet, VersionSetAssumption
    <2> QED
        BY <1>1, <2>2, NoWorkShape DEF WorkIsScheduled
<1> QED
    BY <1>2, <1>4, <1>5, <1>6, <1>7 DEF WakeInv

LEMMA NextWakes ==
    ASSUME WakeInv, [Next]_vars
    PROVE  WakeInv'
<1>1. CASE Next
    BY <1>1, WriteWakes, ProceedWakes, ReturnWakes, UnlockedWakes, FinishWakes,
       NothingToDoWakes, BeginFlushWakes, EndOfTableWakes, PickWakes, WriteOutputWakes,
       InstallWakes, ManifestWrittenWakes, ManifestFailsWakes, SnapshotWakes,
       BeginReadWakes, EndReadWakes, CrashWakes, RecoverWakes, OpenedWakes
       DEF Next, Writing, Background, Reading
<1>2. CASE UNCHANGED vars
    <2>1. UNCHANGED <<up, vs, disk, pending, imm, queue, call, group, scheduled, work, due,
                      hot, bgError, reading>>
        BY <1>2 DEF vars, fileVars, memVars, writeVars, workVars, pickVars, readVars
    <2> QED
        BY <2>1 DEF WakeInv, Shape, Closed, Finite, Numbered, Picks, WorkIsScheduled,
                    NoLostWakeup
<1> QED
    BY <1>1, <1>2

\* A writer that waits for the background thread is woken: it waits only while a call of
\* the background thread is scheduled (MakeRoomForWrite, MaybeScheduleCompaction).
THEOREM NobodyWaitsInVain == Spec => []NoLostWakeup
<1>1. Init => WakeInv
    BY InitWakes
<1>2. WakeInv /\ [Next]_vars => WakeInv'
    BY NextWakes
<1>3. WakeInv => NoLostWakeup
    BY DEF WakeInv
<1> QED
    BY <1>1, <1>2, <1>3, PTL DEF Spec

-----------------------------------------------------------------------------
(* No file that is needed is deleted: FilesInv is kept by every step. *)

LEMMA NoFileNumbers ==
    /\ Numbers(NoFiles) = {} /\ NoCompaction.version = NoFiles /\ NoRead.version = NoFiles
    /\ Nums({}) = {}
BY DEF Numbers, NoFiles, NoCompaction, NoRead, Nums

\* The files that somebody refers to, version by version.
PinnedApart(v, comp, rd, tables) ==
    /\ Numbers(v) \subseteq tables
    /\ Numbers(comp.version) \subseteq tables
    /\ \A r \in Reader : Numbers(rd[r].version) \subseteq tables

LEMMA PinnedEach ==
    ASSUME NEW v, NEW comp, NEW tables
    PROVE  (\A u \in Pinned(v, comp) : Numbers(u) \subseteq tables)
                <=> PinnedApart(v, comp, reading, tables)
BY DEF Pinned, PinnedApart

LEMMA PinnedThere == PinnedAreThere <=> PinnedApart(vs.version, work.comp, reading, disk.tables)
BY PinnedEach DEF PinnedAreThere

\* The same of the next state.
LEMMA PinnedThereNext ==
    PinnedApart(vs'.version, work'.comp, reading', disk'.tables) => PinnedAreThere'
BY DEF PinnedAreThere, Pinned, PinnedApart

\* A step that neither installs a version nor deletes anything.
LEMMA FilesKept ==
    ASSUME FilesInv, WakeInv',
           UNCHANGED <<up, work, pending>>,
           vs'.version = vs.version, vs'.next >= vs.next,
           disk'.tables = disk.tables, disk'.manifest = disk.manifest,
           bgError => bgError',
           \A r \in Reader : reading'[r].version \in {NoFiles, vs.version, reading[r].version}
    PROVE  FilesInv'
<1>1. ManifestIsCurrent'
    BY DEF FilesInv, ManifestIsCurrent, WakeInv, Shape
<1>2. PinnedAreThere'
    BY PinnedThere, PinnedThereNext, NoFileNumbers DEF FilesInv, PinnedApart
<1>3. OutputsAreThere'
    BY DEF FilesInv, OutputsAreThere, WakeInv, Shape
<1>4. Recoverable'
    BY DEF FilesInv, Recoverable
<1> QED
    BY <1>1, <1>2, <1>3, <1>4 DEF FilesInv

\* A step of a writer with the lock.
LEMMA FrontFiles ==
    ASSUME FilesInv, WakeInv', NEW w \in Writer, NEW q, q[1] = w,
           NEW calls \in [Writer -> Asking], AtFront(q, calls), UNCHANGED frontRest
    PROVE  FilesInv'
<1>1. /\ vs'.version = vs.version /\ vs'.next >= vs.next
      /\ disk'.tables = disk.tables /\ disk'.manifest = disk.manifest
      /\ pending' = pending
    BY FrontStep DEF FilesInv, WakeInv
<1>2. UNCHANGED <<up, work, bgError, reading>>
    BY DEF frontRest, readVars
<1> QED
    BY <1>1, <1>2, FilesKept

LEMMA WriterFiles ==
    ASSUME FilesInv, WakeInv',
           \/ \E w \in Writer, b \in Batch, sync \in SyncOption : Write(w, b, sync)
           \/ Writing
    PROVE  FilesInv'
<1>1. ASSUME NEW w \in Writer, NEW b \in Batch, NEW sync \in SyncOption, Write(w, b, sync)
      PROVE  FilesInv'
    <2> DEFINE asked == [NoCall EXCEPT !.batch = b, !.sync = sync]
               calls == [call EXCEPT ![w] = asked]
    <2>1. UNCHANGED frontRest
        BY <1>1 DEF Write
    <2>2. CASE AtFront(<<w>>, calls)
        <3>1. asked \in Asking
            BY LevelDBAssumption DEF NoCall, Asking
        <3>2. calls \in [Writer -> Asking]
            BY <3>1 DEF FilesInv, WakeInv, Shape
        <3>3. <<w>>[1] = w
            OBVIOUS
        <3> HIDE DEF calls
        <3> QED
            BY <2>1, <2>2, <3>2, <3>3, FrontFiles
    <2>3. CASE UNCHANGED <<fileVars, memVars>>
        <3>1. UNCHANGED <<up, work, pending, vs, disk, bgError, reading>>
            BY <2>1, <2>3 DEF frontRest, readVars, fileVars
        <3> QED
            BY <3>1, FilesKept DEF FilesInv, WakeInv, Shape
    <2> QED
        BY <1>1, <2>2, <2>3 DEF Write
<1>2. ASSUME NEW w \in Writer, Proceed(w)
      PROVE  FilesInv'
    BY <1>2, FrontFiles DEF Proceed, FilesInv, WakeInv, Shape
<1>3. ASSUME NEW w \in Writer, Return(w)
      PROVE  FilesInv'
    <2>1. UNCHANGED <<up, work, pending, vs, disk, bgError, reading>>
        BY <1>3 DEF Return, frontRest, readVars, fileVars
    <2> QED
        BY <2>1, FilesKept DEF FilesInv, WakeInv, Shape
<1>4. CASE AddRecord \/ Sync \/ Insert
    <2>1. /\ UNCHANGED <<up, work, pending, vs, bgError, reading>>
          /\ disk'.tables = disk.tables
        BY <1>4, UnlockedWakes DEF FilesInv
    <2>2. disk'.manifest = disk.manifest
        BY <1>4 DEF AddRecord, Sync, Insert, LogRec, FilesInv, WakeInv, Shape
    <2> QED
        BY <2>1, <2>2, FilesKept DEF FilesInv, WakeInv, Shape
<1>5. CASE Finish
    <2>1. /\ vs'.version = vs.version /\ vs'.next = vs.next
          /\ bgError => bgError'
          /\ UNCHANGED <<up, disk, pending, work, reading>>
        BY <1>5, FinishWakes DEF FilesInv
    <2> QED
        BY <2>1, FilesKept DEF FilesInv, WakeInv, Shape
<1> QED
    BY <1>1, <1>2, <1>3, <1>4, <1>5 DEF Writing

LEMMA ReadingFiles ==
    ASSUME FilesInv, WakeInv', Reading
    PROVE  FilesInv'
<1>1. CASE GetSnapshot \/ ReleaseSnapshot
    <2>1. UNCHANGED <<up, vs, disk, pending, work, bgError, reading>>
        BY <1>1, SnapshotWakes DEF FilesInv
    <2> QED
        BY <2>1, FilesKept DEF FilesInv, WakeInv, Shape
<1>2. ASSUME NEW r \in Reader, BeginRead(r)
      PROVE  FilesInv'
    <2>1. /\ UNCHANGED <<up, vs, disk, pending, work, bgError>>
          /\ \A u \in Reader : reading'[u].version \in {vs.version, reading[u].version}
        BY <1>2, BeginReadWakes DEF FilesInv
    <2> QED
        BY <2>1, FilesKept DEF FilesInv, WakeInv, Shape
<1>3. ASSUME NEW r \in Reader, EndRead(r)
      PROVE  FilesInv'
    <2>1. /\ UNCHANGED <<up, vs, disk, pending, work, bgError>>
          /\ \A u \in Reader : reading'[u] \in {NoRead, reading[u]}
        BY <1>3, EndReadWakes DEF FilesInv
    <2> QED
        BY <2>1, FilesKept, NoFileNumbers DEF FilesInv, WakeInv, Shape
<1> QED
    BY <1>1, <1>2, <1>3 DEF Reading

\* A call of the background thread that leaves the versions and the files alone.
LEMMA BeginFlushFiles ==
    ASSUME FilesInv, WakeInv', BeginFlush
    PROVE  FilesInv'
<1>1. /\ work' = [work EXCEPT !.at = "table", !.kind = "flush", !.num = vs.next]
      /\ vs' = [vs EXCEPT !.next = @ + 1]
      /\ pending' = pending \cup {vs.next}
      /\ UNCHANGED <<up, disk, bgError, reading>>
    BY Unworked DEF BeginFlush
<1>2. /\ work'.at = "table" /\ work'.num = vs.next /\ work'.comp = work.comp
      /\ vs'.version = vs.version /\ vs'.next = vs.next + 1 /\ vs.next \in Nat
    BY <1>1 DEF FilesInv, WakeInv, Shape, Versions
<1>3. ManifestIsCurrent' /\ Recoverable'
    BY <1>1, <1>2 DEF FilesInv, ManifestIsCurrent, Recoverable
<1>4. PinnedAreThere'
    BY <1>1, <1>2, PinnedThere, PinnedThereNext DEF FilesInv, PinnedApart
<1>5. OutputsAreThere'
    BY <1>1, <1>2 DEF FilesInv, OutputsAreThere
<1> QED
    BY <1>3, <1>4, <1>5 DEF FilesInv

LEMMA NothingToDoFiles ==
    ASSUME FilesInv, WakeInv', NothingToDo
    PROVE  FilesInv'
<1>1. work = NoWork /\ UNCHANGED <<up, vs, disk, pending, bgError, reading>>
    BY Unworked DEF NothingToDo, fileVars
<1>2. work' = NoWork
    BY DEF NothingToDo, EndOfCall
<1> QED
    BY <1>1, <1>2, FilesKept DEF FilesInv, WakeInv, Shape

\* What GoOn leaves of the work.
LEMMA GoOnFiles ==
    ASSUME Shape, NEW err \in BOOLEAN, NEW i, NEW d, NEW h, GoOn(err, i, d, h)
    PROVE  work'.at \in {"none", "merge"} /\ work'.comp = work.comp
BY GoOnStep, NoWorkShape

LEMMA EndOfTableFiles ==
    ASSUME FilesInv, WakeInv', EndOfTable
    PROVE  FilesInv'
<1> DEFINE table == [num |-> work.num, ents |-> memtable[imm]]
<1>1. /\ work.at = "table" /\ pending' = pending \ {work.num}
      /\ UNCHANGED <<up, vs, reading>>
    BY Unworked DEF EndOfTable
<1>2. Shape /\ work.num \notin Nums(work.comp.outputs)
    BY <1>1 DEF FilesInv, WakeInv, OutputsAreThere
<1>3. /\ disk.tables \subseteq disk'.tables /\ disk'.manifest = disk.manifest
      /\ bgError => bgError'
      /\ work'.comp = work.comp /\ work'.at # "table"
      /\ work'.at \in {"manifest", "open"} => Added(work'.edit) \subseteq disk'.tables
    <2>1. CASE /\ \E l : work' = LogAndApply(work, "flush", [NoEdit EXCEPT !.add = {<<l, table>>}])
               /\ disk' = [disk EXCEPT !.tables = @ \cup {work.num}]
               /\ UNCHANGED <<bgError, call, scheduled>>
        <3>1. PICK l : work' = LogAndApply(work, "flush", [NoEdit EXCEPT !.add = {<<l, table>>}])
            BY <2>1
        <3>2. /\ work'.at = "manifest" /\ work'.comp = work.comp
              /\ work'.edit = [NoEdit EXCEPT !.add = {<<l, table>>}]
            BY <1>2, <3>1, LogAndApplyShape DEF Shape
        <3>3. work'.edit.add = {<<l, table>>}
            BY <3>2 DEF NoEdit
        <3>4. Added(work'.edit) = {table.num}
            BY <3>3 DEF Added, Nums
        <3>5. disk'.manifest = disk.manifest /\ disk'.tables = disk.tables \cup {work.num}
            BY <1>2, <2>1 DEF Shape
        <3> QED
            BY <2>1, <3>2, <3>4, <3>5
    <2>2. CASE bgError' = TRUE /\ GoOn(TRUE, imm, due, hot) /\ UNCHANGED disk
        BY <1>2, <2>2, GoOnFiles
    <2> HIDE DEF table
    <2> QED
        BY <2>1, <2>2 DEF EndOfTable, table
<1>4. ManifestIsCurrent' /\ Recoverable'
    BY <1>1, <1>3 DEF FilesInv, WakeInv, Shape, ManifestIsCurrent, Recoverable
<1>5. PinnedAreThere'
    BY <1>1, <1>3, PinnedThere, PinnedThereNext DEF FilesInv, PinnedApart
<1>6. OutputsAreThere'
    BY <1>1, <1>2, <1>3 DEF FilesInv, OutputsAreThere
<1> QED
    BY <1>4, <1>5, <1>6 DEF FilesInv

LEMMA PickFiles ==
    ASSUME FilesInv, WakeInv', Pick
    PROVE  FilesInv'
<1>1. UNCHANGED <<up, vs, disk, pending, bgError, reading>>
    BY Unworked DEF Pick, fileVars
<1>2. /\ work'.comp.version \in {vs.version, NoFiles} /\ work'.comp.outputs = {}
      /\ work'.at # "table"
      /\ work'.at \in {"manifest", "open"} => Added(work'.edit) \subseteq disk.tables
    <2>1. CASE \E c : /\ work' = [NoWork EXCEPT !.at = "merge", !.kind = "merge", !.comp = c]
                      /\ DOMAIN c = DOMAIN NoCompaction
                      /\ c.version = vs.version /\ c.outputs = {}
        BY <2>1, NoWorkShape
    <2>2. CASE \E edit : /\ work' = LogAndApply(NoWork, "move", edit)
                         /\ DOMAIN edit = DOMAIN NoEdit
                         /\ \E l \in Level : \E S \in SUBSET vs.version[l] :
                                edit.add = {<<l + 1, f>> : f \in S}
        <3>1. PICK edit : /\ work' = LogAndApply(NoWork, "move", edit)
                          /\ \E l \in Level : \E S \in SUBSET vs.version[l] :
                                edit.add = {<<l + 1, f>> : f \in S}
            BY <2>2
        <3>2. PICK l \in Level : \E S \in SUBSET vs.version[l] :
                                    edit.add = {<<l + 1, f>> : f \in S}
            BY <3>1
        <3>3. PICK S \in SUBSET vs.version[l] : edit.add = {<<l + 1, f>> : f \in S}
            BY <3>2
        <3>4. Added(edit) \subseteq Nums(S)
            BY <3>3 DEF Added, Nums
        <3>5. Nums(S) \subseteq Numbers(vs.version)
            BY DEF Nums, Numbers
        <3>6. Numbers(vs.version) \subseteq disk.tables
            BY PinnedThere DEF FilesInv, PinnedApart
        <3>7. work'.at = "manifest" /\ work'.comp = NoCompaction /\ work'.edit = edit
            BY <3>1, LogAndApplyShape, NoWorkShape
        <3> QED
            BY <3>4, <3>5, <3>6, <3>7, NoWorkShape
    <2> QED
        BY <2>1, <2>2, PickStep DEF FilesInv
<1>3. ManifestIsCurrent' /\ Recoverable'
    BY <1>1 DEF FilesInv, ManifestIsCurrent, Recoverable
<1>4. PinnedAreThere'
    BY <1>1, <1>2, PinnedThere, PinnedThereNext, NoFileNumbers DEF FilesInv, PinnedApart
<1>5. OutputsAreThere'
    BY <1>1, <1>2, NoFileNumbers DEF OutputsAreThere
<1> QED
    BY <1>3, <1>4, <1>5 DEF FilesInv

LEMMA InstallFiles ==
    ASSUME FilesInv, WakeInv', InstallCompactionResults
    PROVE  FilesInv'
<1>1. /\ UNCHANGED <<up, vs, disk, pending, bgError, reading>>
      /\ work'.at = "manifest" /\ work'.comp = work.comp
      /\ work'.edit.add = {<<work.comp.level + 1, f>> : f \in work.comp.outputs}
    BY InstallStep DEF FilesInv
<1>2. Added(work'.edit) \subseteq Nums(work.comp.outputs)
    BY <1>1 DEF Added, Nums
<1>3. ManifestIsCurrent' /\ Recoverable'
    BY <1>1 DEF FilesInv, ManifestIsCurrent, Recoverable
<1>4. PinnedAreThere'
    BY <1>1, PinnedThere, PinnedThereNext DEF FilesInv, PinnedApart
<1>5. OutputsAreThere'
    BY <1>1, <1>2 DEF FilesInv, OutputsAreThere
<1> QED
    BY <1>3, <1>4, <1>5 DEF FilesInv

LEMMA NumsWith ==
    ASSUME NEW S, NEW n, NEW e
    PROVE  Nums(S \cup {[num |-> n, ents |-> e]}) = Nums(S) \cup {n}
<1> DEFINE f == [num |-> n, ents |-> e]
<1>1. f.num = n
    OBVIOUS
<1> HIDE DEF f
<1>2. Nums(S \cup {f}) = Nums(S) \cup {f.num}
    BY DEF Nums
<1> QED
    BY <1>1, <1>2 DEF f

LEMMA WriteOutputFiles ==
    ASSUME FilesInv, WakeInv', WriteOutput
    PROVE  FilesInv'
<1>1. work.at = "merge" /\ UNCHANGED <<up, reading>>
    BY WriteOutputStep
<1>2. CASE \E out : Writes(out)
    <2>1. PICK out : Writes(out)
        BY <1>2
    <2>2. /\ work'.at = work.at
          /\ work'.comp.version = work.comp.version
          /\ work'.comp.outputs = work.comp.outputs \cup {[num |-> vs.next, ents |-> out]}
          /\ disk'.manifest = disk.manifest /\ disk'.tables = disk.tables \cup {vs.next}
          /\ vs'.version = vs.version /\ vs'.next = vs.next + 1
        BY <2>1, WritesStep DEF FilesInv, WakeInv
    <2>3. pending' = pending \cup {vs.next} /\ bgError' = bgError
        BY <2>1 DEF Writes
    <2>4. Nums(work'.comp.outputs) = Nums(work.comp.outputs) \cup {vs.next}
        <3>1. Nums(work.comp.outputs \cup {[num |-> vs.next, ents |-> out]})
                = Nums(work.comp.outputs) \cup {vs.next}
            BY ONLY NumsWith, Zenon
        <3> QED
            BY ONLY <2>2, <3>1, Zenon
    <2>5. vs.next \in Nat
        BY DEF FilesInv, WakeInv, Shape
    <2>6. ManifestIsCurrent' /\ Recoverable'
        BY <1>1, <2>2, <2>3 DEF FilesInv, ManifestIsCurrent, Recoverable
    <2>7. PinnedAreThere'
        BY <1>1, <2>2, PinnedThere, PinnedThereNext DEF FilesInv, PinnedApart
    <2>8. OutputsAreThere'
        <3>1. Nums(work'.comp.outputs) \subseteq pending' \cap disk'.tables
            BY <2>2, <2>3, <2>4 DEF FilesInv, OutputsAreThere
        <3>2. \A n \in Nums(work'.comp.outputs) : n \in Nat /\ n < vs'.next
            BY <2>2, <2>4, <2>5 DEF FilesInv, OutputsAreThere
        <3> QED
            BY <1>1, <2>2, <3>1, <3>2 DEF OutputsAreThere
    <2> QED
        BY <2>6, <2>7, <2>8 DEF FilesInv
<1>3. CASE /\ bgError' = TRUE
           /\ vs' = [vs EXCEPT !.next = @ + 1]
           /\ CleanupCompaction(disk, vs, TRUE, due, hot)
    <2>1. work' = NoWork /\ disk' = disk
        BY <1>3, CleanupStep DEF FilesInv, WakeInv, Shape, Finite
    <2>2. vs'.version = vs.version
        BY <1>3 DEF FilesInv, WakeInv, Shape, Versions
    <2>3. ManifestIsCurrent' /\ Recoverable'
        BY <1>3, <2>1 DEF FilesInv, ManifestIsCurrent, Recoverable
    <2>4. PinnedAreThere'
        BY <1>1, <2>1, <2>2, PinnedThere, PinnedThereNext, NoFileNumbers, NoWorkShape
           DEF FilesInv, PinnedApart
    <2>5. OutputsAreThere'
        BY <2>1, NoFileNumbers, NoWorkShape DEF OutputsAreThere
    <2> QED
        BY <2>3, <2>4, <2>5 DEF FilesInv
<1> QED
    BY <1>2, <1>3, WriteOutputStep

\* The deletion of obsolete files keeps the files of the versions that somebody refers
\* to, and those of pending_outputs_.
LEMMA CollectedKeeps ==
    ASSUME NEW d, DOMAIN d = {"logs", "tables", "manifest"}, IsFiniteSet(DOMAIN d.logs),
           NEW v, NEW comp, NEW pend, NEW err,
           PinnedApart(v.version, comp, reading, d.tables)
    PROVE  LET c == Collected(d, v, comp, pend, err)
           IN  /\ PinnedApart(v.version, comp, reading, c.tables)
               /\ pend \cap d.tables \subseteq c.tables
<1> DEFINE c == Collected(d, v, comp, pend, err)
<1>1. d.tables \cap LiveTables(v.version, comp, pend) \subseteq c.tables
    BY CollectedShape
<1> HIDE DEF c
<1>2. \A u \in Pinned(v.version, comp) : Numbers(u) \subseteq d.tables
    BY PinnedEach
<1>3. \A u \in Pinned(v.version, comp) : Numbers(u) \subseteq LiveTables(v.version, comp, pend)
    BY DEF LiveTables
<1>4. \A u \in Pinned(v.version, comp) : Numbers(u) \subseteq c.tables
    BY <1>1, <1>2, <1>3
<1>5. PinnedApart(v.version, comp, reading, c.tables)
    BY <1>4, PinnedEach
<1>6. pend \cap d.tables \subseteq c.tables
    <2>1. pend \subseteq LiveTables(v.version, comp, pend)
        BY DEF LiveTables
    <2> QED
        BY <1>1, <2>1
<1> QED
    BY <1>5, <1>6 DEF c

\* The version that an edit makes, and the manifest with it, name files that are there.
LEMMA InstalledThere ==
    ASSUME FilesInv, work.at = "manifest"
    PROVE  /\ PinnedApart(Installed.version, work.comp, reading, Recorded.tables)
           /\ PinnedApart(Installed.version, NoCompaction, reading, Recorded.tables)
           /\ Numbers(Recorded.manifest.version) \subseteq Recorded.tables
           /\ up = "up"
           /\ ~bgError => Recorded.manifest.version = Installed.version
<1>1. /\ Installed.version = Apply(vs.version, work.edit)
      /\ Recorded.manifest.version = Apply(disk.manifest.version, work.edit)
      /\ Recorded.tables = disk.tables
    BY InstalledShape DEF FilesInv
<1>2. Added(work.edit) \subseteq disk.tables
    BY DEF FilesInv, OutputsAreThere
<1>3. PinnedApart(vs.version, work.comp, reading, disk.tables)
    BY PinnedThere DEF FilesInv
<1>4. Numbers(Apply(vs.version, work.edit)) \subseteq disk.tables
    BY <1>2, <1>3, ApplyNumbers DEF PinnedApart
<1>5. Numbers(Apply(disk.manifest.version, work.edit)) \subseteq disk.tables
    BY <1>2, ApplyNumbers DEF FilesInv, Recoverable
<1>6. up = "up"
    BY DEF FilesInv, WakeInv, Closed, Shape
<1>7. ~bgError => disk.manifest.version = vs.version
    BY <1>6 DEF FilesInv, ManifestIsCurrent
<1> QED
    BY <1>1, <1>3, <1>4, <1>5, <1>6, <1>7, NoFileNumbers DEF PinnedApart

LEMMA ManifestWrittenFiles ==
    ASSUME FilesInv, WakeInv', ManifestWritten
    PROVE  FilesInv'
<1>1. /\ work.at = "manifest"
      /\ UNCHANGED <<up, reading, bgError>>
      /\ vs' = Installed
    BY ManifestWrittenStep
<1>2. /\ PinnedApart(Installed.version, work.comp, reading, Recorded.tables)
      /\ PinnedApart(Installed.version, NoCompaction, reading, Recorded.tables)
      /\ Numbers(Recorded.manifest.version) \subseteq Recorded.tables
      /\ ~bgError => Recorded.manifest.version = Installed.version
    BY <1>1, InstalledThere
<1>3. /\ DOMAIN Recorded = {"logs", "tables", "manifest"}
      /\ IsFiniteSet(DOMAIN Recorded.logs)
      /\ Recorded.tables = disk.tables
      /\ Installed.next = vs.next
    BY InstalledShape DEF FilesInv, WakeInv, Shape, Finite
<1>4. Shape /\ bgError \in BOOLEAN
    BY DEF FilesInv, WakeInv, Shape
<1>5. /\ PinnedApart(Installed.version, work'.comp, reading, disk'.tables)
      /\ disk'.manifest = Recorded.manifest
      /\ bgError => disk'.tables = Recorded.tables
      /\ work'.at \in {"none", "merge"}
      /\ \/ Nums(work'.comp.outputs) = {}
         \/ /\ work'.comp = work.comp /\ pending' = pending
            /\ pending \cap disk.tables \subseteq disk'.tables
    <2>1. CASE /\ disk' = Collected(Recorded, Installed, work.comp, pending, bgError)
               /\ GoOn(bgError, 0, due', {})
               /\ UNCHANGED pending
        <3>1. work'.at \in {"none", "merge"} /\ work'.comp = work.comp
            BY <1>4, <2>1, GoOnFiles
        <3>2. PinnedApart(Installed.version, work.comp, reading, disk'.tables)
              /\ pending \cap disk.tables \subseteq disk'.tables
            BY <1>2, <1>3, <2>1, CollectedKeeps
        <3>3. disk'.manifest = Recorded.manifest /\ (bgError => disk' = Recorded)
            BY <1>3, <2>1, CollectedShape
        <3> QED
            BY <2>1, <3>1, <3>2, <3>3
    <2>2. CASE CleanupCompaction(Recorded, Installed, bgError, due', {})
        <3>1. /\ work' = NoWork /\ disk'.manifest = Recorded.manifest
              /\ bgError => disk' = Recorded
              /\ Recorded.tables \cap UNION {Numbers(u) : u \in Pinned(Installed.version, NoCompaction)}
                    \subseteq disk'.tables
            BY ONLY <1>3, <1>4, <2>2, CleanupStep
        <3>2. \A u \in Pinned(Installed.version, NoCompaction) : Numbers(u) \subseteq Recorded.tables
            BY <1>2, PinnedEach
        <3>3. \A u \in Pinned(Installed.version, NoCompaction) : Numbers(u) \subseteq disk'.tables
            BY <3>1, <3>2
        <3>4. PinnedApart(Installed.version, NoCompaction, reading, disk'.tables)
            BY <3>3, PinnedEach
        <3> QED
            BY <3>1, <3>4, NoWorkShape, NoFileNumbers
    <2>3. CASE disk' = Recorded /\ EndOfCall(bgError, imm, due', {}, call)
        <3>1. work' = NoWork
            BY <2>3 DEF EndOfCall
        <3> QED
            BY <1>2, <2>3, <3>1, NoWorkShape, NoFileNumbers
    <2> QED
        BY <2>1, <2>2, <2>3, ManifestWrittenStep
<1>6. ManifestIsCurrent'
    BY <1>1, <1>2, <1>5 DEF ManifestIsCurrent
<1>7. PinnedAreThere'
    <2>1. PinnedApart(vs'.version, work'.comp, reading', disk'.tables)
        BY <1>1, <1>5
    <2> QED
        BY <2>1, PinnedThereNext
<1>8. Recoverable'
    BY <1>2, <1>5 DEF Recoverable, PinnedApart
<1>9. OutputsAreThere'
    BY <1>1, <1>3, <1>5 DEF FilesInv, OutputsAreThere
<1> QED
    BY <1>6, <1>7, <1>8, <1>9 DEF FilesInv

LEMMA ManifestFailsFiles ==
    ASSUME FilesInv, WakeInv', ManifestFails
    PROVE  FilesInv'
<1>1. /\ work.at = "manifest"
      /\ UNCHANGED <<up, reading, vs>>
      /\ bgError' = TRUE
    BY ManifestFailsStep
<1>2. PICK d \in {disk, Recorded} :
        \/ disk' = d /\ GoOn(TRUE, imm, due, hot) /\ UNCHANGED pending
        \/ CleanupCompaction(d, vs, TRUE, due, hot)
        \/ disk' = d /\ EndOfCall(TRUE, imm, due, hot, call) /\ UNCHANGED pending
    BY ManifestFailsStep
<1>3. /\ DOMAIN d = {"logs", "tables", "manifest"} /\ IsFiniteSet(DOMAIN d.logs)
      /\ d.tables = disk.tables
      /\ Numbers(d.manifest.version) \subseteq d.tables
    BY <1>1, InstalledShape, InstalledThere DEF FilesInv, WakeInv, Shape, Finite, Recoverable
<1>4. Shape
    BY DEF FilesInv, WakeInv
<1>5. /\ disk' = d /\ work'.at \in {"none", "merge"}
      /\ work'.comp \in {NoCompaction, work.comp}
      /\ work'.comp = NoCompaction \/ pending' = pending
    <2>1. CASE disk' = d /\ GoOn(TRUE, imm, due, hot) /\ UNCHANGED pending
        BY <1>4, <2>1, GoOnFiles
    <2>2. CASE CleanupCompaction(d, vs, TRUE, due, hot)
        <3>1. work' = NoWork /\ disk' = d
            BY <1>3, <1>4, <2>2, CleanupStep
        <3> QED
            BY <3>1, NoWorkShape
    <2>3. CASE disk' = d /\ EndOfCall(TRUE, imm, due, hot, call)
        BY <2>3, NoWorkShape DEF EndOfCall
    <2> QED
        BY <1>2, <2>1, <2>2, <2>3
<1>6. ManifestIsCurrent' /\ Recoverable'
    BY <1>1, <1>3, <1>5 DEF ManifestIsCurrent, Recoverable
<1>7. PinnedAreThere'
    BY <1>1, <1>3, <1>5, PinnedThere, PinnedThereNext, NoFileNumbers DEF FilesInv, PinnedApart
<1>8. OutputsAreThere'
    BY <1>1, <1>3, <1>5, NoFileNumbers, NoWorkShape DEF FilesInv, OutputsAreThere
<1> QED
    BY <1>6, <1>7, <1>8 DEF FilesInv

LEMMA CrashFiles ==
    ASSUME FilesInv, WakeInv', Crash
    PROVE  FilesInv'
<1>1. /\ up' = "down" /\ vs'.version = NoFiles /\ work' = NoWork
      /\ \A r \in Reader : reading'[r] = NoRead
    BY DEF Crash
<1>2. disk'.tables = disk.tables /\ disk'.manifest = disk.manifest
    BY CrashStep DEF FilesInv
<1>3. ManifestIsCurrent' /\ Recoverable'
    BY <1>1, <1>2 DEF FilesInv, ManifestIsCurrent, Recoverable
<1>4. PinnedAreThere'
    BY <1>1, PinnedThereNext, NoFileNumbers, NoWorkShape DEF PinnedApart
<1>5. OutputsAreThere'
    BY <1>1, NoFileNumbers, NoWorkShape DEF OutputsAreThere
<1> QED
    BY <1>3, <1>4, <1>5 DEF FilesInv

LEMMA RecoverFiles ==
    ASSUME FilesInv, WakeInv', Recover
    PROVE  FilesInv'
<1>1. /\ up = "down" /\ up' = "opening" /\ reading' = reading
      /\ vs'.version = disk.manifest.version
      /\ disk'.manifest = disk.manifest
      /\ work'.at = "open" /\ work'.comp = NoCompaction
    BY RecoverStep DEF FilesInv
<1>2. PICK tables : /\ disk'.tables = disk.tables \cup Nums(tables)
                    /\ work'.edit.add = {0} \X tables
    BY RecoverStep DEF FilesInv
<1>3. Added(work'.edit) \subseteq Nums(tables)
    BY <1>2 DEF Added, Nums
<1>4. ManifestIsCurrent' /\ Recoverable'
    BY <1>1, <1>2 DEF FilesInv, ManifestIsCurrent, Recoverable
<1>5. PinnedAreThere'
    <2>1. \A r \in Reader : reading[r] = NoRead
        BY <1>1 DEF FilesInv, WakeInv, Closed
    <2> QED
        BY <1>1, <1>2, <2>1, PinnedThereNext, NoFileNumbers
           DEF FilesInv, Recoverable, PinnedApart
<1>6. OutputsAreThere'
    BY <1>1, <1>2, <1>3, NoFileNumbers, NoWorkShape DEF OutputsAreThere
<1> QED
    BY <1>4, <1>5, <1>6 DEF FilesInv

LEMMA OpenedFiles ==
    ASSUME FilesInv, WakeInv', Opened
    PROVE  FilesInv'
<1>1. /\ up = "opening" /\ reading' = reading
      /\ vs' = Reopened
      /\ Reopened.version = Apply(vs.version, work.edit)
      /\ DOMAIN Renewed = {"logs", "tables", "manifest"} /\ Renewed.manifest = Reopened
      /\ IsFiniteSet(DOMAIN Renewed.logs) /\ Renewed.tables = disk.tables
      /\ \E none, err : disk' = Collected(Renewed, Reopened, NoCompaction, none, err)
      /\ work' = NoWork
    <2>1. /\ up = "opening" /\ reading' = reading /\ vs' = Reopened
          /\ Reopened.version = Apply(vs.version, work.edit)
          /\ DOMAIN Renewed = DOMAIN disk /\ Renewed.manifest = Reopened
          /\ Renewed.logs = disk.logs /\ Renewed.tables = disk.tables
          /\ disk' = Collected(Renewed, Reopened, NoCompaction, {}, FALSE)
          /\ work' = NoWork
        BY OpenedStep DEF FilesInv
    <2>2. \E none, err : disk' = Collected(Renewed, Reopened, NoCompaction, none, err)
        BY <2>1
    <2>3. DOMAIN disk = {"logs", "tables", "manifest"} /\ IsFiniteSet(DOMAIN disk.logs)
        BY DEF FilesInv, WakeInv, Shape, Finite
    <2> QED
        BY <2>1, <2>2, <2>3
<1>2. work.at = "open" /\ \A r \in Reader : reading[r] = NoRead
    BY <1>1 DEF FilesInv, WakeInv, Closed
<1>3. Numbers(vs.version) \subseteq disk.tables
    BY PinnedThere DEF FilesInv, PinnedApart
<1>4. Numbers(Reopened.version) \subseteq disk.tables
    BY <1>1, <1>2, <1>3, ApplyNumbers DEF FilesInv, OutputsAreThere
<1>5. PinnedApart(Reopened.version, NoCompaction, reading, Renewed.tables)
    BY <1>1, <1>2, <1>4, NoFileNumbers DEF PinnedApart
<1>6. PICK none, err : disk' = Collected(Renewed, Reopened, NoCompaction, none, err)
    BY <1>1
<1>7. PinnedApart(Reopened.version, NoCompaction, reading, disk'.tables)
    BY <1>1, <1>5, <1>6, CollectedKeeps
<1>8. disk'.manifest = Reopened
    <2>1. /\ DOMAIN Renewed = {"logs", "tables", "manifest"}
          /\ IsFiniteSet(DOMAIN Renewed.logs)
        BY <1>1
    <2>2. disk'.manifest = Renewed.manifest
        BY ONLY <1>6, <2>1, CollectedShape
    <2> QED
        BY <1>1, <2>2
<1>9. ManifestIsCurrent' /\ Recoverable'
    BY <1>1, <1>7, <1>8 DEF ManifestIsCurrent, Recoverable, PinnedApart
<1>10. PinnedAreThere'
    <2>1. PinnedApart(vs'.version, work'.comp, reading', disk'.tables)
        BY <1>1, <1>7, NoWorkShape
    <2> QED
        BY <2>1, PinnedThereNext
<1>11. OutputsAreThere'
    BY <1>1, NoFileNumbers, NoWorkShape DEF OutputsAreThere
<1> QED
    BY <1>9, <1>10, <1>11 DEF FilesInv

LEMMA InitFiles ==
    ASSUME Init
    PROVE  FilesInv
<1>1. /\ vs.version = NoFiles /\ disk.manifest = vs /\ disk.tables = {}
      /\ work = NoWork /\ reading = [r \in Reader |-> NoRead]
    BY DEF Init
<1>2. ManifestIsCurrent /\ Recoverable
    BY <1>1, NoFileNumbers DEF ManifestIsCurrent, Recoverable
<1>3. PinnedAreThere
    BY <1>1, PinnedThere, NoFileNumbers, NoWorkShape DEF PinnedApart
<1>4. OutputsAreThere
    BY <1>1, NoFileNumbers, NoWorkShape DEF OutputsAreThere
<1> QED
    BY <1>2, <1>3, <1>4, InitWakes DEF FilesInv

LEMMA NextFiles ==
    ASSUME FilesInv, [Next]_vars
    PROVE  FilesInv'
<1>1. WakeInv'
    BY NextWakes DEF FilesInv
<1>2. CASE Next
    BY <1>1, <1>2, WriterFiles, ReadingFiles, NothingToDoFiles, BeginFlushFiles,
       EndOfTableFiles, PickFiles, WriteOutputFiles, InstallFiles, ManifestWrittenFiles,
       ManifestFailsFiles, CrashFiles, RecoverFiles, OpenedFiles
       DEF Next, Background
<1>3. CASE UNCHANGED vars
    <2>1. UNCHANGED <<up, vs, disk, pending, work, bgError, reading>>
        BY <1>3 DEF vars, fileVars, workVars, readVars
    <2> QED
        BY <1>1, <2>1, FilesKept DEF FilesInv, WakeInv, Shape
<1> QED
    BY <1>2, <1>3

\* The database can be opened again after a crash at any point: no table that the
\* manifest names is ever deleted, nor named before it is written (DeleteObsoleteFiles,
\* pending_outputs_, LogAndApply).
THEOREM NoNamedFileIsDeleted == Spec => []Recoverable
<1>1. Init => FilesInv
    BY InitFiles
<1>2. FilesInv /\ [Next]_vars => FilesInv'
    BY NextFiles
<1>3. FilesInv => Recoverable
    BY DEF FilesInv
<1> QED
    BY <1>1, <1>2, <1>3, PTL DEF Spec

-----------------------------------------------------------------------------
(* What the state is made of. *)

\* An entry with a number that was given out, files and logs of such entries.
Written == [key : Key, seq : 0 .. MaxSeq, del : BOOLEAN]
File == [num : Nat, ents : SUBSET Written]
Log == [recs : Seq(SUBSET Written), synced : Nat]
Lower == 0 .. NumLevels - 2

\* The writers that wait are in line once, with what they have asked for; a group is of
\* some of them.
Lined(q, calls) ==
    /\ q \in Seq(Writer)
    /\ \A i, j \in 1 .. Len(q) : q[i] = q[j] => i = j
    /\ \A i \in 1 .. Len(q) : calls[q[i]].batch \in Batch /\ calls[q[i]].done = FALSE

InLine == Lined(queue, call) /\ (group.at # "none" => group.n \in 1 .. Len(queue))

\* What writers ask for, and how many operations that is.
Asked(q, calls) == [i \in 1 .. Len(q) |-> calls[q[i]].batch]
Size(q, calls) == Len(FlattenSeq(Asked(q, calls)))

\* There are numbers for all that was asked for.
Room == vs.seq \in Nat /\ vs.seq + Size(queue, call) <= MaxSeq

\* Entries, tables and logs are what they should be, wherever they are.
TypedVersion(v) == v \in [Level -> SUBSET File]
TypedMemory(mt) == \A n \in DOMAIN mt : mt[n] \subseteq Written
TypedLogs(logs) == \A n \in DOMAIN logs : logs[n] \in Log
TypedMerge(c) == c.outputs \subseteq File /\ c.rest \subseteq Written /\ c.level \in Lower
TypedWork(w) ==
    /\ w.edit.add \subseteq Level \X File /\ w.seq \in 0 .. MaxSeq /\ w.num \in Nat
    /\ TypedMerge(w.comp)

Contents ==
    /\ TypedVersion(vs.version)
    /\ TypedVersion(disk.manifest.version) /\ disk.manifest.seq \in 0 .. MaxSeq
    /\ TypedMemory(memtable) /\ TypedLogs(disk.logs)
    /\ TypedWork(work)
    /\ due \subseteq Lower /\ \A p \in hot : p[1] \in Lower

\* The memtables in use have their logs, none of which is obsolete.
Places ==
    /\ mem \in Nat /\ mem <= vs.next
    /\ up # "down" => mem \in DOMAIN memtable \cap DOMAIN disk.logs /\ mem < vs.next
    /\ up = "up" => vs.log \in DOMAIN disk.logs /\ vs.log <= mem
    /\ imm # 0 => imm \in DOMAIN memtable \cap DOMAIN disk.logs /\ imm < mem /\ vs.log <= imm
    /\ work.at = "table" \/ (work.at = "manifest" /\ work.kind = "flush") => imm # 0
    /\ pending \subseteq 0 .. vs.next

TypesInv == WakeInv /\ InLine /\ Room /\ Contents /\ Places

-----------------------------------------------------------------------------
(* One sequence after the other. *)

LEMMA First ==
    ASSUME NEW S \in SUBSET Nat, S # {}
    PROVE  \E i \in S : \A j \in S : i <= j
<1>1. PICK i \in S : \A j \in S : ~(<<j, i>> \in OpToRel(<, Nat))
    BY NatLessThanWellFounded, WFMin
<1>2. \A j \in S : ~(j < i)
    BY <1>1 DEF OpToRel
<1> QED
    BY <1>2

\* What is there after each of some sequences.
Flattens(f, ss) ==
    f = [i \in 1 .. Len(ss) |-> IF i = 1 THEN ss[i] ELSE f[i - 1] \o ss[i]]

Upto(f, n, ss) == \A i \in 1 .. n : f[i] = IF i = 1 THEN ss[i] ELSE f[i - 1] \o ss[i]

LEMMA FlattensExists ==
    ASSUME NEW T, NEW ss \in Seq(Seq(T))
    PROVE  \E f : Flattens(f, ss)
<1> DEFINE N == Len(ss)
           Bad == {n \in 0 .. N : ~\E f : f = [i \in 1 .. n |-> f[i]] /\ Upto(f, n, ss)}
<1>0. N \in Nat
    OBVIOUS
<1> HIDE DEF N
<1>1. Bad = {}
    <2> SUFFICES ASSUME Bad # {} PROVE FALSE
        OBVIOUS
    <2>1. PICK n \in Bad : \A m \in Bad : n <= m
        <3>1. Bad \in SUBSET Nat
            BY <1>0
        <3> HIDE DEF Bad
        <3> QED
            BY <3>1, First
    <2>2. n \in 0 .. N /\ ~\E f : f = [i \in 1 .. n |-> f[i]] /\ Upto(f, n, ss)
        OBVIOUS
    <2>3. CASE n = 0
        <3> DEFINE f == [i \in 1 .. 0 |-> <<>>]
        <3>1. f = [i \in 1 .. n |-> f[i]] /\ Upto(f, n, ss)
            BY <2>3 DEF Upto
        <3> QED
            BY <2>2, <3>1
    <2>4. CASE n # 0
        <3>1. n - 1 \in 0 .. N /\ ~(n <= n - 1) /\ n \in Nat /\ n >= 1
            BY <1>0, <2>2, <2>4
        <3>2. n - 1 \notin Bad
            BY <2>1, <3>1
        <3>3. PICK f : f = [i \in 1 .. (n - 1) |-> f[i]] /\ Upto(f, n - 1, ss)
            BY <3>1, <3>2
        <3> DEFINE last == IF n = 1 THEN ss[n] ELSE f[n - 1] \o ss[n]
                   g == [i \in 1 .. n |-> IF i = n THEN last ELSE f[i]]
        <3>4. g = [i \in 1 .. n |-> g[i]]
            OBVIOUS
        <3>8. n \in 1 .. n /\ \A i \in 1 .. (n - 1) : i \in 1 .. n /\ i # n
            BY <3>1
        <3>5. g[n] = last /\ \A i \in 1 .. (n - 1) : g[i] = f[i]
            <4> HIDE DEF last
            <4> QED
                BY <3>8
        <3> HIDE DEF g
        <3>6. ASSUME NEW i \in 1 .. n
              PROVE  g[i] = IF i = 1 THEN ss[i] ELSE g[i - 1] \o ss[i]
            <4>1. CASE i = n
                <5>1. i # 1 => i - 1 \in 1 .. (n - 1)
                    BY <3>1, <4>1
                <5> QED
                    BY <3>5, <4>1, <5>1
            <4>2. CASE i # n
                <5>1. i \in 1 .. (n - 1) /\ (i # 1 => i - 1 \in 1 .. (n - 1))
                    BY <3>1, <3>6, <4>2
                <5>2. f[i] = IF i = 1 THEN ss[i] ELSE f[i - 1] \o ss[i]
                    BY <3>3, <5>1 DEF Upto
                <5> QED
                    BY <3>5, <5>1, <5>2
            <4> QED
                BY <4>1, <4>2
        <3>7. Upto(g, n, ss)
            BY <3>6 DEF Upto
        <3> QED
            BY <2>2, <3>4, <3>7
    <2> QED
        BY <2>3, <2>4
<1>2. N \in 0 .. N
    BY <1>0
<1>3. PICK f : f = [i \in 1 .. N |-> f[i]] /\ Upto(f, N, ss)
    BY <1>1, <1>2
<1>4. f = [i \in 1 .. N |-> IF i = 1 THEN ss[i] ELSE f[i - 1] \o ss[i]]
    BY <1>3 DEF Upto
<1> QED
    BY <1>4 DEF Flattens, N

\* They are sequences, and each is as long as the one before and what it adds.
Grows(f, ss, T) ==
    \A n \in 1 .. Len(ss) : /\ f[n] \in Seq(T)
                            /\ Len(f[n]) = (IF n = 1 THEN 0 ELSE Len(f[n - 1])) + Len(ss[n])

LEMMA FlattensType ==
    ASSUME NEW T, NEW ss \in Seq(Seq(T)), NEW f, Flattens(f, ss)
    PROVE  Grows(f, ss, T)
<1> DEFINE Bad == {n \in 1 .. Len(ss) : f[n] \notin Seq(T)}
<1>0. Len(ss) \in Nat /\ \A n \in 1 .. Len(ss) : ss[n] \in Seq(T)
    OBVIOUS
<1>1. \A n \in 1 .. Len(ss) : f[n] = IF n = 1 THEN ss[n] ELSE f[n - 1] \o ss[n]
    BY DEF Flattens
<1>2. Bad = {}
    <2> SUFFICES ASSUME Bad # {} PROVE FALSE
        OBVIOUS
    <2>1. PICK n \in Bad : \A m \in Bad : n <= m
        <3>1. Bad \in SUBSET Nat
            BY <1>0
        <3> HIDE DEF Bad
        <3> QED
            BY <3>1, First
    <2>2. n \in 1 .. Len(ss) /\ f[n] \notin Seq(T)
        OBVIOUS
    <2>6. n # 1
        <3>1. n = 1 => f[n] = ss[n] /\ ss[n] \in Seq(T)
            BY <1>0, <1>1, <2>2
        <3> QED
            BY <2>2, <3>1
    <2>3. n # 1 /\ n - 1 \in 1 .. Len(ss) /\ ~(n <= n - 1)
        BY <1>0, <2>2, <2>6
    <2>4. f[n - 1] \in Seq(T)
        BY <2>1, <2>3
    <2>5. f[n] = f[n - 1] \o ss[n] /\ ss[n] \in Seq(T)
        BY <1>0, <1>1, <2>2, <2>3
    <2> QED
        BY <2>2, <2>4, <2>5
<1>3. \A n \in 1 .. Len(ss) : f[n] \in Seq(T)
    BY <1>2
<1> SUFFICES ASSUME NEW n \in 1 .. Len(ss)
             PROVE  Len(f[n]) = (IF n = 1 THEN 0 ELSE Len(f[n - 1])) + Len(ss[n])
    BY <1>3 DEF Grows
<1>4. CASE n = 1
    BY <1>0, <1>1, <1>4
<1>5. CASE n # 1
    <2>1. n - 1 \in 1 .. Len(ss)
        BY <1>0, <1>5
    <2>2. f[n - 1] \in Seq(T) /\ ss[n] \in Seq(T) /\ f[n] = f[n - 1] \o ss[n]
        BY <1>0, <1>1, <1>3, <1>5, <2>1
    <2> QED
        BY <1>5, <2>2
<1> QED
    BY <1>4, <1>5

Begins(tt, ss) ==
    /\ Len(ss) \in Nat /\ Len(tt) \in Nat /\ Len(tt) <= Len(ss)
    /\ \A i \in 1 .. Len(tt) : tt[i] = ss[i]

\* They are the only ones, also for the beginning of the same sequences.
LEMMA FlattensOnly ==
    ASSUME NEW ss, NEW tt, Begins(tt, ss), NEW f, Flattens(f, ss), NEW g, Flattens(g, tt)
    PROVE  \A n \in 1 .. Len(tt) : g[n] = f[n]
<1> DEFINE Bad == {n \in 1 .. Len(tt) : g[n] # f[n]}
<1>0. /\ Len(ss) \in Nat /\ Len(tt) \in Nat /\ Len(tt) <= Len(ss)
      /\ \A i \in 1 .. Len(tt) : tt[i] = ss[i]
    BY DEF Begins
<1>1. \A n \in 1 .. Len(ss) : f[n] = IF n = 1 THEN ss[n] ELSE f[n - 1] \o ss[n]
    BY DEF Flattens
<1>2. \A n \in 1 .. Len(tt) : g[n] = IF n = 1 THEN tt[n] ELSE g[n - 1] \o tt[n]
    BY DEF Flattens
<1> SUFFICES ASSUME Bad # {} PROVE FALSE
    OBVIOUS
<1>3. PICK n \in Bad : \A m \in Bad : n <= m
    <2>1. Bad \in SUBSET Nat
        BY <1>0
    <2> HIDE DEF Bad
    <2> QED
        BY <2>1, First
<1>4. n \in 1 .. Len(tt) /\ n \in 1 .. Len(ss) /\ g[n] # f[n]
    BY <1>0
<1>5. CASE n = 1
    BY <1>0, <1>1, <1>2, <1>4, <1>5
<1>6. CASE n # 1
    <2>1. n - 1 \in 1 .. Len(tt) /\ ~(n <= n - 1)
        BY <1>0, <1>4, <1>6
    <2>2. g[n - 1] = f[n - 1]
        BY <1>3, <2>1
    <2> QED
        BY <1>0, <1>1, <1>2, <1>4, <1>6, <2>2
<1> QED
    BY <1>5, <1>6

\* FlattenSeq is the last of them.
LEMMA FlattenIs ==
    ASSUME NEW T, NEW ss \in Seq(Seq(T)), NEW f, Flattens(f, ss)
    PROVE  FlattenSeq(ss) = IF ss = <<>> THEN <<>> ELSE f[Len(ss)]
<1>1. CASE ss = <<>>
    BY <1>1 DEF FlattenSeq
<1>2. CASE ss # <<>>
    <2> DEFINE g == CHOOSE g : Flattens(g, ss)
    <2>1. Flattens(g, ss)
        BY FlattensExists
    <2>2. Len(ss) \in Nat /\ Len(ss) # 0 /\ Len(ss) \in 1 .. Len(ss)
        BY <1>2
    <2>3. FlattenSeq(ss) = g[Len(ss)]
        BY <2>2 DEF FlattenSeq, Flattens
    <2> HIDE DEF g
    <2>4. \A n \in 1 .. Len(ss) : g[n] = f[n]
        <3>1. Begins(ss, ss)
            BY <2>2 DEF Begins
        <3>2. Flattens(f, ss)
            OBVIOUS
        <3> QED
            BY ONLY <2>1, <3>1, <3>2, FlattensOnly
    <2> QED
        BY <1>2, <2>2, <2>3, <2>4
<1> QED
    BY <1>1, <1>2


\* The beginning and the rest are as long as all of it.
LEMMA FlattenSplit ==
    ASSUME NEW T, NEW ss \in Seq(Seq(T)), NEW n \in 0 .. Len(ss)
    PROVE  LET head == FlattenSeq(SubSeq(ss, 1, n))
               last == FlattenSeq(SubSeq(ss, n + 1, Len(ss)))
           IN  /\ FlattenSeq(ss) \in Seq(T) /\ head \in Seq(T) /\ last \in Seq(T)
               /\ Len(FlattenSeq(ss)) = Len(head) + Len(last)
<1> DEFINE N == Len(ss)
           hh == SubSeq(ss, 1, n)
           ll == SubSeq(ss, n + 1, N)
<1>0. N \in Nat /\ n \in Nat /\ n <= N
    OBVIOUS
<1>1. /\ hh \in Seq(Seq(T)) /\ Len(hh) = n /\ \A i \in 1 .. n : hh[i] = ss[i]
      /\ ll \in Seq(Seq(T)) /\ Len(ll) = N - n /\ \A i \in 1 .. N - n : ll[i] = ss[n + i]
    OBVIOUS
<1>2. PICK f : Flattens(f, ss)
    BY FlattensExists
<1>3. PICK g : Flattens(g, hh)
    BY <1>1, FlattensExists
<1>4. PICK h : Flattens(h, ll)
    BY <1>1, FlattensExists
<1> HIDE DEF hh, ll
<1>5. \A i \in 1 .. N : f[i] \in Seq(T) /\ Len(f[i]) = (IF i = 1 THEN 0 ELSE Len(f[i - 1])) + Len(ss[i])
    BY <1>2, FlattensType DEF Grows
<1>6. \A i \in 1 .. n : g[i] = f[i]
    <2>1. Begins(hh, ss)
        BY <1>0, <1>1 DEF Begins
    <2>2. \A i \in 1 .. Len(hh) : g[i] = f[i]
        BY ONLY <1>2, <1>3, <2>1, FlattensOnly
    <2> QED
        BY <1>1, <2>2
<1>7. \A i \in 1 .. N - n : h[i] \in Seq(T) /\ Len(h[i]) = (IF i = 1 THEN 0 ELSE Len(h[i - 1])) + Len(ss[n + i])
    <2>1. \A i \in 1 .. Len(ll) : h[i] \in Seq(T) /\ Len(h[i]) = (IF i = 1 THEN 0 ELSE Len(h[i - 1])) + Len(ll[i])
        <3>1. Grows(h, ll, T)
            BY <1>1, <1>4, FlattensType
        <3> QED
            BY <3>1 DEF Grows
    <2> SUFFICES ASSUME NEW i \in 1 .. N - n
                 PROVE  h[i] \in Seq(T) /\ Len(h[i]) = (IF i = 1 THEN 0 ELSE Len(h[i - 1])) + Len(ss[n + i])
        OBVIOUS
    <2>2. i \in 1 .. Len(ll) /\ ll[i] = ss[n + i]
        BY <1>1
    <2> QED
        BY <2>1, <2>2
<1> DEFINE upto(i) == IF i = 0 THEN 0 ELSE Len(f[i])
           more(i) == IF i = 0 THEN 0 ELSE Len(h[i])
<1>13. upto(0) = 0 /\ more(0) = 0
    OBVIOUS
<1>14. \A i \in 0 .. N : upto(i) \in Nat
    <2>1. \A i \in 1 .. N : Len(f[i]) \in Nat
        BY <1>5
    <2> QED
        BY <1>0, <2>1
<1>15. \A i \in 1 .. N : upto(i) = upto(i - 1) + Len(ss[i])
    <2> SUFFICES ASSUME NEW i \in 1 .. N PROVE upto(i) = upto(i - 1) + Len(ss[i])
        OBVIOUS
    <2>1. Len(f[i]) = (IF i = 1 THEN 0 ELSE Len(f[i - 1])) + Len(ss[i])
        BY <1>5
    <2>2. i # 0 /\ (i - 1 = 0 <=> i = 1)
        BY <1>0
    <2> QED
        BY <2>1, <2>2
<1>16. \A i \in 0 .. N - n : more(i) \in Nat
    <2>1. \A i \in 1 .. N - n : Len(h[i]) \in Nat
        BY <1>7
    <2> QED
        BY <1>0, <2>1
<1>17. \A i \in 1 .. N - n : more(i) = more(i - 1) + Len(ss[n + i])
    <2> SUFFICES ASSUME NEW i \in 1 .. N - n PROVE more(i) = more(i - 1) + Len(ss[n + i])
        OBVIOUS
    <2>1. Len(h[i]) = (IF i = 1 THEN 0 ELSE Len(h[i - 1])) + Len(ss[n + i])
        BY <1>7
    <2>2. i # 0 /\ (i - 1 = 0 <=> i = 1)
        BY <1>0
    <2> QED
        BY <2>1, <2>2
<1>18. /\ N # 0 => upto(N) = Len(f[N])
       /\ n # 0 => upto(n) = Len(f[n])
       /\ N - n # 0 => more(N - n) = Len(h[N - n])
    OBVIOUS
<1>19. \A i \in 1 .. N : Len(ss[i]) \in Nat
    OBVIOUS
<1> HIDE DEF upto, more, N
<1> DEFINE Bad == {i \in 0 .. N - n : upto(n + i) # upto(n) + more(i)}
<1>8. Bad = {}
    <2> SUFFICES ASSUME Bad # {} PROVE FALSE
        OBVIOUS
    <2>1. PICK i \in Bad : \A j \in Bad : i <= j
        <3>1. Bad \in SUBSET Nat
            BY <1>0
        <3> HIDE DEF Bad
        <3> QED
            BY <3>1, First
    <2>2. i \in 0 .. N - n /\ upto(n + i) # upto(n) + more(i)
        OBVIOUS
    <2>4. i # 0
        <3>1. upto(n) \in Nat /\ n + 0 = n
            BY <1>0, <1>14
        <3> QED
            BY <1>13, <2>2, <3>1
    <2>5. i - 1 \in 0 .. N - n /\ ~(i <= i - 1) /\ i \in 1 .. N - n /\ n + i \in 1 .. N
        BY <1>0, <2>2, <2>4
    <2>6. upto(n + (i - 1)) = upto(n) + more(i - 1)
        BY <2>1, <2>5
    <2>7. upto(n + i) = upto((n + i) - 1) + Len(ss[n + i])
        BY <1>15, <2>5
    <2>8. more(i) = more(i - 1) + Len(ss[n + i])
        BY <1>17, <2>5
    <2>9. (n + i) - 1 = n + (i - 1)
        BY <1>0, <2>5
    <2>11. Len(ss[n + i]) \in Nat /\ more(i - 1) \in Nat /\ upto(n) \in Nat
        <3>1. Len(ss[n + i]) \in Nat
            BY ONLY <1>19, <2>5
        <3>2. more(i - 1) \in Nat
            BY ONLY <1>16, <2>5
        <3>3. n \in 0 .. N
            BY <1>0
        <3>4. upto(n) \in Nat
            BY ONLY <1>14, <3>3
        <3> QED
            BY ONLY <3>1, <3>2, <3>4
    <2> QED
        BY <2>2, <2>6, <2>7, <2>8, <2>9, <2>11
<1>9. upto(N) = upto(n) + more(N - n)
    <2>1. N - n \in 0 .. N - n /\ n + (N - n) = N
        BY <1>0
    <2> QED
        BY <1>8, <2>1
<1>10. FlattenSeq(ss) \in Seq(T) /\ Len(FlattenSeq(ss)) = upto(N)
    <2>1. FlattenSeq(ss) = IF ss = <<>> THEN <<>> ELSE f[N]
        BY <1>2, FlattenIs DEF N
    <2>2. ss = <<>> <=> N = 0
        BY DEF N
    <2>3. N # 0 => f[N] \in Seq(T)
        <3>1. N # 0 => N \in 1 .. N
            BY <1>0
        <3> QED
            BY <1>5, <3>1
    <2> QED
        BY <1>13, <1>18, <2>1, <2>2, <2>3
<1>11. FlattenSeq(hh) \in Seq(T) /\ Len(FlattenSeq(hh)) = upto(n)
    <2>1. FlattenSeq(hh) = IF hh = <<>> THEN <<>> ELSE g[n]
        BY <1>1, <1>3, FlattenIs
    <2>2. hh = <<>> <=> n = 0
        BY <1>0, <1>1
    <2>3. n # 0 => g[n] = f[n] /\ f[n] \in Seq(T)
        <3>1. n # 0 => n \in 1 .. n /\ n \in 1 .. N
            BY <1>0
        <3> QED
            BY <1>5, <1>6, <3>1
    <2> QED
        BY <1>13, <1>18, <2>1, <2>2, <2>3
<1>12. FlattenSeq(ll) \in Seq(T) /\ Len(FlattenSeq(ll)) = more(N - n)
    <2>1. FlattenSeq(ll) = IF ll = <<>> THEN <<>> ELSE h[N - n]
        BY <1>1, <1>4, FlattenIs
    <2>2. ll = <<>> <=> N - n = 0
        BY <1>0, <1>1
    <2>3. N - n # 0 => h[N - n] \in Seq(T)
        <3>1. N - n # 0 => N - n \in 1 .. N - n
            BY <1>0
        <3> QED
            BY <1>7, <3>1
    <2> QED
        BY <1>13, <1>18, <2>1, <2>2, <2>3
<1> QED
    BY <1>9, <1>10, <1>11, <1>12 DEF hh, ll, N

\* One more sequence adds its length.
LEMMA FlattenAppend ==
    ASSUME NEW T, NEW ss \in Seq(Seq(T)), NEW s \in Seq(T)
    PROVE  Len(FlattenSeq(Append(ss, s))) = Len(FlattenSeq(ss)) + Len(s)
<1> DEFINE tt == Append(ss, s)
<1>0. /\ tt \in Seq(Seq(T)) /\ Len(tt) = Len(ss) + 1 /\ Len(ss) \in Nat /\ Len(ss) \in 0 .. Len(tt)
      /\ \A i \in 1 .. Len(ss) : tt[i] = ss[i]
      /\ tt[Len(ss) + 1] = s
    OBVIOUS
<1>1. SubSeq(tt, 1, Len(ss)) = ss
    <2> HIDE DEF tt
    <2>1. Len(SubSeq(tt, 1, Len(ss))) = Len(ss)
        BY <1>0
    <2>2. \A i \in 1 .. Len(ss) : SubSeq(tt, 1, Len(ss))[i] = ss[i]
        BY <1>0
    <2>3. SubSeq(tt, 1, Len(ss)) \in Seq(Seq(T))
        <3>1. \A i \in 1 .. Len(ss) : i \in 1 .. Len(tt)
            BY <1>0
        <3> QED
            BY <1>0, <3>1
    <2> QED
        BY <2>1, <2>2, <2>3
<1>2. SubSeq(tt, Len(ss) + 1, Len(tt)) = <<s>>
    <2> DEFINE N == Len(ss) + 1
               x == SubSeq(tt, N, N)
    <2> HIDE DEF tt
    <2>1. N \in 1 .. Len(tt) /\ N = Len(tt) /\ tt[N] = s /\ N \in Nat
        BY <1>0
    <2> HIDE DEF N
    <2>2. x \in Seq(Seq(T)) /\ Len(x) = 1 /\ x[1] = s
        BY <1>0, <2>1
    <2> HIDE DEF x
    <2>3. x = <<s>>
        BY <2>2
    <2> QED
        BY <2>1, <2>3 DEF N, x
<1>3. FlattenSeq(<<s>>) = s
    <2>1. <<s>> \in Seq(Seq(T)) /\ <<s>> # <<>> /\ Len(<<s>>) = 1 /\ <<s>>[1] = s
        OBVIOUS
    <2>2. PICK f : Flattens(f, <<s>>)
        BY <2>1, FlattensExists
    <2>3. f[1] = s
        BY <2>2 DEF Flattens
    <2>4. FlattenSeq(<<s>>) = IF <<s>> = <<>> THEN <<>> ELSE f[Len(<<s>>)]
        BY ONLY <2>1, <2>2, FlattenIs
    <2> QED
        BY <2>1, <2>3, <2>4
<1> HIDE DEF tt
<1>4. Len(FlattenSeq(tt)) = Len(FlattenSeq(SubSeq(tt, 1, Len(ss))))
                            + Len(FlattenSeq(SubSeq(tt, Len(ss) + 1, Len(tt))))
    BY <1>0, FlattenSplit
<1> QED
    BY <1>1, <1>2, <1>3, <1>4 DEF tt

-----------------------------------------------------------------------------
(* The writers in line. *)

Operation == [key : Key, del : BOOLEAN]

LEMMA BatchType == \A b \in Batch \cup {<<>>} : b \in Seq(Operation)
<1> SUFFICES ASSUME NEW b \in Batch \cup {<<>>} PROVE b \in Seq(Operation)
    OBVIOUS
<1>1. CASE b \in Batch
    BY ZenonT(30), <1>1, LevelDBAssumption DEF Operation
<1>2. CASE b = <<>>
    BY <1>2
<1> QED
    BY <1>1, <1>2

LEMMA AskedType ==
    ASSUME NEW calls \in [Writer -> Asking], NEW q \in Seq(Writer)
    PROVE  Asked(q, calls) \in Seq(Seq(Operation)) /\ Len(Asked(q, calls)) = Len(q)
<1>1. \A b \in Batch \cup {<<>>} : b \in Seq(Operation)
    BY BatchType
<1>2. \A i \in 1 .. Len(q) : calls[q[i]].batch \in Seq(Operation)
    BY <1>1 DEF Asking
<1>3. Len(q) \in Nat
    OBVIOUS
<1> QED
    BY <1>2, <1>3 DEF Asked

LEMMA SizeType ==
    ASSUME NEW calls \in [Writer -> Asking], NEW q \in Seq(Writer)
    PROVE  /\ FlattenSeq(Asked(q, calls)) \in Seq(Operation)
           /\ Size(q, calls) \in Nat
<1>1. Asked(q, calls) \in Seq(Seq(Operation))
    BY AskedType
<1>2. 0 \in 0 .. Len(Asked(q, calls))
    BY <1>1
<1>3. FlattenSeq(Asked(q, calls)) \in Seq(Operation)
    BY <1>1, <1>2, FlattenSplit
<1> QED
    BY <1>3 DEF Size

\* The first n writers and the others ask for as much as all.
LEMMA SizeSplit ==
    ASSUME NEW calls \in [Writer -> Asking], NEW q \in Seq(Writer), NEW n \in 0 .. Len(q)
    PROVE  Size(q, calls) = Size(SubSeq(q, 1, n), calls) + Size(SubSeq(q, n + 1, Len(q)), calls)
<1> DEFINE ss == Asked(q, calls)
           N == Len(q)
<1>1. ss \in Seq(Seq(Operation)) /\ Len(ss) = N
    BY AskedType
<1>2. N \in Nat /\ n \in Nat /\ n <= N
    OBVIOUS
<1>3. Asked(SubSeq(q, 1, n), calls) = SubSeq(ss, 1, n)
    <2>1. /\ Len(SubSeq(q, 1, n)) = n /\ Len(SubSeq(ss, 1, n)) = n
          /\ \A i \in 1 .. n : SubSeq(q, 1, n)[i] = q[i] /\ SubSeq(ss, 1, n)[i] = ss[i] /\ i \in 1 .. N
        <3> HIDE DEF ss
        <3> QED
            BY <1>1, <1>2
    <2>2. \A i \in 1 .. n : ss[i] = calls[q[i]].batch
        BY <2>1 DEF Asked
    <2>3. SubSeq(ss, 1, n) = [i \in 1 .. n |-> SubSeq(ss, 1, n)[i]]
        <3> HIDE DEF ss
        <3> QED
            BY <1>1, <1>2, <2>1
    <2> HIDE DEF ss
    <2> QED
        BY <2>1, <2>2, <2>3 DEF Asked
<1>4. Asked(SubSeq(q, n + 1, N), calls) = SubSeq(ss, n + 1, N)
    <2>1. /\ Len(SubSeq(q, n + 1, N)) = N - n /\ Len(SubSeq(ss, n + 1, N)) = N - n
          /\ \A i \in 1 .. N - n : /\ SubSeq(q, n + 1, N)[i] = q[n + i]
                                   /\ SubSeq(ss, n + 1, N)[i] = ss[n + i] /\ n + i \in 1 .. N
        <3> HIDE DEF ss
        <3> QED
            BY <1>1, <1>2
    <2>2. \A i \in 1 .. N - n : ss[n + i] = calls[q[n + i]].batch
        BY <2>1 DEF Asked
    <2>3. SubSeq(ss, n + 1, N) = [i \in 1 .. N - n |-> SubSeq(ss, n + 1, N)[i]]
        <3> HIDE DEF ss
        <3> QED
            BY <1>1, <1>2, <2>1
    <2> HIDE DEF ss
    <2> QED
        BY <2>1, <2>2, <2>3 DEF Asked
<1> HIDE DEF ss
<1>5. Len(FlattenSeq(ss)) = Len(FlattenSeq(SubSeq(ss, 1, n))) + Len(FlattenSeq(SubSeq(ss, n + 1, Len(ss))))
    BY <1>1, FlattenSplit
<1> QED
    BY <1>1, <1>3, <1>4, <1>5 DEF Size, ss

\* Who comes last asks for the rest.
LEMMA SizeAppend ==
    ASSUME NEW calls \in [Writer -> Asking], NEW q \in Seq(Writer), NEW w \in Writer
    PROVE  Size(Append(q, w), calls) = Size(q, calls) + Len(calls[w].batch)
<1>1. Asked(q, calls) \in Seq(Seq(Operation)) /\ Len(Asked(q, calls)) = Len(q)
    BY AskedType
<1>2. calls[w].batch \in Seq(Operation)
    <2>1. calls[w].batch \in Batch \cup {<<>>}
        BY DEF Asking
    <2> QED
        BY <2>1, BatchType
<1>3. Asked(Append(q, w), calls) = Append(Asked(q, calls), calls[w].batch)
    <2> DEFINE l == Asked(Append(q, w), calls)
               r == Append(Asked(q, calls), calls[w].batch)
               N == Len(q) + 1
    <2>1. Append(q, w) \in Seq(Writer) /\ Len(Append(q, w)) = N /\ Len(q) \in Nat
          /\ Append(q, w)[N] = w /\ \A i \in 1 .. Len(q) : Append(q, w)[i] = q[i]
        OBVIOUS
    <2>2. l \in Seq(Seq(Operation)) /\ Len(l) = N
        BY <2>1, AskedType
    <2>3. r \in Seq(Seq(Operation)) /\ Len(r) = N /\ r[N] = calls[w].batch
          /\ \A i \in 1 .. Len(q) : r[i] = Asked(q, calls)[i]
        BY <1>1, <1>2
    <2>4. \A i \in 1 .. Len(q) : Asked(q, calls)[i] = calls[q[i]].batch
        BY DEF Asked
    <2>5. \A i \in 1 .. N : l[i] = calls[Append(q, w)[i]].batch
        BY <2>1 DEF Asked
    <2> HIDE DEF l, r
    <2>6. \A i \in 1 .. N : l[i] = r[i]
        <3> SUFFICES ASSUME NEW i \in 1 .. N PROVE l[i] = r[i]
            OBVIOUS
        <3>1. i = N \/ i \in 1 .. Len(q)
            BY <2>1
        <3> QED
            BY <2>1, <2>3, <2>4, <2>5, <3>1
    <2>7. l = r
        BY <2>2, <2>3, <2>6
    <2> QED
        BY <2>7 DEF l, r
<1> QED
    BY <1>1, <1>2, <1>3, FlattenAppend DEF Size

\* Who waits for what does not matter.
Alike(q, calls, now) ==
    \A i \in 1 .. Len(q) : /\ now[q[i]].batch = calls[q[i]].batch
                           /\ now[q[i]].done = calls[q[i]].done

LEMMA LinedSame ==
    ASSUME NEW calls, NEW now, NEW q, Lined(q, calls), Alike(q, calls, now)
    PROVE  Lined(q, now) /\ Size(q, now) = Size(q, calls)
<1>1. Lined(q, now) /\ Asked(q, now) = Asked(q, calls)
    BY DEF Lined, Asked, Alike
<1> QED
    BY <1>1 DEF Size

LEMMA EmptyLine == ASSUME NEW calls PROVE Lined(<<>>, calls) /\ Size(<<>>, calls) = 0
<1>1. Asked(<<>>, calls) = <<>>
    BY DEF Asked
<1>2. Size(<<>>, calls) = 0
    BY <1>1 DEF Size, FlattenSeq
<1> QED
    BY <1>2 DEF Lined

LEMMA SignalAllSame ==
    ASSUME NEW calls \in [Writer -> Asking]
    PROVE  \A w \in Writer : /\ SignalAll(calls)[w].batch = calls[w].batch
                             /\ SignalAll(calls)[w].done = calls[w].done
BY DEF SignalAll, Asking

\* Those who are left when the first n are done with.
LEMMA PoppedLined ==
    ASSUME NEW calls \in [Writer -> Asking], NEW q, Lined(q, calls), NEW n \in 1 .. Len(q)
    PROVE  LET rest == SubSeq(q, n + 1, Len(q))
               now == Popped(q, n, calls)
           IN  Lined(rest, now) /\ Size(rest, now) = Size(rest, calls)
<1> DEFINE N == Len(q)
           rest == SubSeq(q, n + 1, N)
           now == Popped(q, n, calls)
<1>1. q \in Seq(Writer) /\ N \in Nat /\ n \in Nat /\ 1 <= n /\ n <= N
    BY DEF Lined
<1>2. rest \in Seq(Writer) /\ Len(rest) = N - n
      /\ \A i \in 1 .. N - n : rest[i] = q[n + i] /\ n + i \in 1 .. N
    BY <1>1
<1>3. \A i \in 1 .. N - n : /\ rest[i] \in Writer
                            /\ rest[i] # q[1] /\ rest[i] \notin {q[j] : j \in 2 .. n}
    <2> SUFFICES ASSUME NEW i \in 1 .. N - n
                 PROVE  /\ rest[i] \in Writer
                        /\ rest[i] # q[1] /\ \A j \in 2 .. n : rest[i] # q[j]
        OBVIOUS
    <2>1. n + i \in 1 .. N /\ rest[i] = q[n + i] /\ 1 \in 1 .. N /\ n + i # 1
        BY <1>1, <1>2
    <2>2. \A j \in 2 .. n : j \in 1 .. N /\ n + i # j
        BY <1>1
    <2> HIDE DEF rest
    <2> QED
        BY <1>1, <2>1, <2>2 DEF Lined
<1> HIDE DEF rest
<1>4. \A w \in Writer : w # q[1] /\ w \notin {q[j] : j \in 2 .. n} =>
            now[w].batch = calls[w].batch /\ now[w].done = calls[w].done
    <2> SUFFICES ASSUME NEW w \in Writer, w # q[1], w \notin {q[j] : j \in 2 .. n}
                 PROVE  now[w].batch = calls[w].batch /\ now[w].done = calls[w].done
        OBVIOUS
    <2>1. now[w] = [calls[w] EXCEPT !.asleep = "no"] \/ now[w] = calls[w]
        BY DEF Popped
    <2> QED
        BY <2>1 DEF Asking
<1> HIDE DEF now
<1>5. \A i \in 1 .. Len(rest) : /\ now[rest[i]].batch = calls[rest[i]].batch
                                /\ now[rest[i]].done = calls[rest[i]].done
    BY <1>2, <1>3, <1>4
<1>6. Lined(rest, now)
    <2>1. \A i, j \in 1 .. Len(rest) : rest[i] = rest[j] => i = j
        <3> SUFFICES ASSUME NEW i \in 1 .. N - n, NEW j \in 1 .. N - n, q[n + i] = q[n + j]
                     PROVE  i = j
            <4>1. \A i \in 1 .. N - n : rest[i] = q[n + i]
                BY <1>2
            <4>2. 1 .. Len(rest) = 1 .. N - n
                BY <1>2
            <4> QED
                BY <4>1, <4>2
        <3>1. n + i \in 1 .. N /\ n + j \in 1 .. N
            BY <1>2
        <3>2. \A k, l \in 1 .. N : q[k] = q[l] => k = l
            BY DEF Lined
        <3>3. n + i = n + j
            BY <3>1, <3>2
        <3> QED
            BY <1>1, <3>3
    <2>2. \A i \in 1 .. Len(rest) : calls[rest[i]].batch \in Batch /\ calls[rest[i]].done = FALSE
        BY <1>2 DEF Lined
    <2> QED
        BY <1>2, <1>5, <2>1, <2>2 DEF Lined
<1>7. Asked(rest, now) = Asked(rest, calls)
    BY <1>5 DEF Asked
<1>8. Size(rest, now) = Size(rest, calls)
    BY <1>7 DEF Size
<1> QED
    BY <1>6, <1>8 DEF rest, now

LEMMA PoppedRoom ==
    ASSUME NEW calls \in [Writer -> Asking], NEW q, Lined(q, calls), q # <<>>
    PROVE  /\ Lined(Tail(q), Popped(q, 1, calls))
           /\ Size(Tail(q), Popped(q, 1, calls)) <= Size(q, calls)
<1> DEFINE rest == SubSeq(q, 1 + 1, Len(q))
<1>1. q \in Seq(Writer) /\ 1 \in 1 .. Len(q) /\ 1 \in 0 .. Len(q) /\ Tail(q) = rest
    BY DEF Lined
<1>2. Lined(rest, Popped(q, 1, calls)) /\ Size(rest, Popped(q, 1, calls)) = Size(rest, calls)
    BY <1>1, PoppedLined
<1>3. Size(q, calls) = Size(SubSeq(q, 1, 1), calls) + Size(rest, calls)
    BY <1>1, SizeSplit
<1>4. Size(SubSeq(q, 1, 1), calls) \in Nat /\ Size(rest, calls) \in Nat
    <2>1. SubSeq(q, 1, 1) \in Seq(Writer) /\ rest \in Seq(Writer)
        BY <1>1
    <2> QED
        BY <2>1, SizeType
<1> HIDE DEF rest
<1>5. Size(rest, calls) <= Size(q, calls)
    BY <1>3, <1>4
<1> QED
    BY <1>1, <1>2, <1>5

\* What the writer in front does keeps the line.
LEMMA FrontLine ==
    ASSUME WakeInv, NEW calls \in [Writer -> Asking], NEW q, NEW w \in Writer, Lined(q, calls),
           q # <<>>, q[1] = w, group.at = "none",
           vs.seq \in Nat, vs.seq + Size(q, calls) <= MaxSeq, AtFront(q, calls)
    PROVE  InLine' /\ Room'
<1>0. vs'.seq = vs.seq
    BY DEF AtFront, fileVars, SwitchMemTable, WakeInv, Shape, Versions
<1>1. CASE queue' = Tail(q) /\ call' = Popped(q, 1, calls) /\ group' = group
    <2>1. Lined(queue', call') /\ Size(queue', call') <= Size(q, calls)
        BY <1>1, PoppedRoom
    <2>2. Size(queue', call') \in Nat /\ Size(q, calls) \in Nat
        <3>1. call' \in [Writer -> Asking]
            BY <1>1, PoppedSleeps
        <3> QED
            BY <2>1, <3>1, SizeType DEF Lined
    <2>3. vs.seq + Size(queue', call') <= MaxSeq
        BY <2>1, <2>2, LevelDBAssumption
    <2> QED
        BY <1>0, <1>1, <2>1, <2>3 DEF InLine, Room
<1>2. CASE /\ queue' = q /\ group' = group
           /\ \/ call' = [calls EXCEPT ![w].delayed = TRUE]
              \/ call' = [calls EXCEPT ![w].asleep = "bg"]
    <2>1. \A u \in Writer : call'[u].batch = calls[u].batch /\ call'[u].done = calls[u].done
        BY <1>2 DEF Asking
    <2>2. Alike(q, calls, call')
        BY <2>1 DEF Alike, Lined
    <2>3. Lined(q, call') /\ Size(q, call') = Size(q, calls)
        BY <2>2, LinedSame
    <2> QED
        BY <1>0, <1>2, <2>3 DEF InLine, Room
<1>3. CASE /\ \E n \in GroupSizes(q, calls) : group' = [NoGroup EXCEPT !.at = "append", !.n = n]
           /\ queue' = q /\ call' = calls
    <2>1. group'.n \in 1 .. Len(q)
        BY <1>3 DEF GroupSizes, NoGroup
    <2> QED
        BY <1>0, <1>3, <2>1 DEF InLine, Room
<1> QED
    BY <1>1, <1>2, <1>3 DEF AtFront

LEMMA SameLine ==
    ASSUME InLine, Room, queue' = queue, group'.n = group.n, group'.at = "none" \/ group.at # "none",
           Alike(queue, call, call'), vs'.seq = vs.seq
    PROVE  InLine' /\ Room'
<1>1. Lined(queue, call') /\ Size(queue, call') = Size(queue, call)
    BY LinedSame DEF InLine
<1> QED
    BY <1>1 DEF InLine, Room

LEMMA WriteLine ==
    ASSUME WakeInv, InLine, Room, NEW w \in Writer, NEW b \in Batch, NEW sync \in SyncOption,
           Write(w, b, sync)
    PROVE  InLine' /\ Room'
<1> DEFINE asked == [NoCall EXCEPT !.batch = b, !.sync = sync]
           waits == [asked EXCEPT !.asleep = "cv"]
<1>1. /\ asked \in Asking /\ asked.batch = b /\ asked.done = FALSE
      /\ waits \in Asking /\ waits.batch = b /\ waits.done = FALSE
    BY LevelDBAssumption DEF NoCall, Asking
<1> HIDE DEF waits
<1>2. call \in [Writer -> Asking]
    BY DEF WakeInv, Shape
<1>3. vs.seq \in Nat /\ vs.seq + Size(queue, call) + Len(b) <= MaxSeq
    BY DEF Write, Ops, Asked, Size, Room
<1>4. Size(queue, call) \in Nat /\ Len(b) \in Nat
    <2>1. b \in Seq(Operation)
        BY BatchType
    <2> QED
        BY <1>2, <2>1, SizeType DEF InLine, Lined
<1>5. CASE queue = <<>> /\ AtFront(<<w>>, [call EXCEPT ![w] = asked])
    <2> DEFINE calls == [call EXCEPT ![w] = asked]
    <2>1. calls \in [Writer -> Asking] /\ calls[w].batch = b /\ calls[w].done = FALSE
        BY <1>1, <1>2
    <2>2. AtFront(<<w>>, calls)
        BY <1>5
    <2> HIDE DEF calls
    <2>3. <<w>> # <<>> /\ <<w>>[1] = w /\ Lined(<<w>>, calls)
        BY <2>1 DEF Lined
    <2>4. Size(<<w>>, calls) = Len(b)
        <3>3. <<>> \in Seq(Writer)
            OBVIOUS
        <3>1. Size(Append(<<>>, w), calls) = Size(<<>>, calls) + Len(calls[w].batch)
            BY <2>1, <3>3, SizeAppend
        <3>2. Size(<<>>, calls) = 0 /\ Append(<<>>, w) = <<w>>
            BY EmptyLine
        <3> QED
            BY <1>4, <2>1, <3>1, <3>2
    <2>5. group.at = "none"
        BY <1>5 DEF InLine
    <2>6. vs.seq + Size(<<w>>, calls) <= MaxSeq
        BY <1>3, <1>4, <2>4, LevelDBAssumption
    <2> QED
        BY <1>3, <2>1, <2>2, <2>3, <2>5, <2>6, FrontLine
<1>6. CASE queue' = Append(queue, w) /\ call' = [call EXCEPT ![w] = waits]
           /\ UNCHANGED <<group, fileVars, memVars, scheduled>>
    <2>1. call' \in [Writer -> Asking] /\ call'[w].batch = b /\ call'[w].done = FALSE
          /\ \A u \in Writer : u # w => call'[u] = call[u]
        BY <1>1, <1>2, <1>6
    <2>2. call[w] = NoCall
        BY DEF Write
    <2>3. queue \in Seq(Writer)
        BY DEF InLine, Lined
    <2>4. \A i \in 1 .. Len(queue) : queue[i] \in Writer /\ queue[i] # w
        <3>1. <<>> \notin Batch
            BY LevelDBAssumption
        <3>2. NoCall.batch = <<>>
            BY DEF NoCall
        <3> QED
            BY <2>2, <2>3, <3>1, <3>2 DEF InLine, Lined
    <2>5. Alike(queue, call, call')
        BY <2>1, <2>4 DEF Alike
    <2>6. Lined(queue, call') /\ Size(queue, call') = Size(queue, call)
        BY <2>5, LinedSame DEF InLine
    <2>7. Size(queue', call') = Size(queue, call) + Len(b)
        BY <1>6, <2>1, <2>3, <2>6, SizeAppend
    <2>8. /\ queue' \in Seq(Writer) /\ Len(queue') = Len(queue) + 1 /\ Len(queue) \in Nat
          /\ queue'[Len(queue) + 1] = w
          /\ \A i \in 1 .. Len(queue) : queue'[i] = queue[i]
        BY <1>6, <2>3
    <2>9. \A i \in 1 .. Len(queue') : i \in 1 .. Len(queue) \/ i = Len(queue) + 1
        BY <2>8
    <2>10. Lined(queue', call')
        <3>1. \A i, j \in 1 .. Len(queue') : queue'[i] = queue'[j] => i = j
            BY <2>4, <2>6, <2>8, <2>9 DEF Lined
        <3>2. \A i \in 1 .. Len(queue') : call'[queue'[i]].batch \in Batch /\ call'[queue'[i]].done = FALSE
            BY <2>1, <2>6, <2>8, <2>9 DEF Lined
        <3> QED
            BY <2>8, <3>1, <3>2 DEF Lined
    <2>11. group' = group /\ vs' = vs
        BY <1>6 DEF fileVars
    <2>12. group.at # "none" => group'.n \in 1 .. Len(queue')
        BY <2>8, <2>11 DEF InLine
    <2>13. vs.seq + Size(queue', call') <= MaxSeq
        BY <1>3, <1>4, <2>7, LevelDBAssumption
    <2> QED
        BY <1>3, <2>10, <2>11, <2>12, <2>13 DEF InLine, Room
<1> QED
    BY <1>5, <1>6 DEF Write, waits

LEMMA ProceedLine ==
    ASSUME WakeInv, InLine, Room, NEW w \in Writer, Proceed(w)
    PROVE  InLine' /\ Room'
<1>1. queue # <<>> /\ queue[1] = w /\ group.at = "none" /\ AtFront(queue, call)
    BY DEF Proceed, NoGroup
<1>2. call \in [Writer -> Asking]
    BY DEF WakeInv, Shape
<1>3. Lined(queue, call) /\ vs.seq \in Nat /\ vs.seq + Size(queue, call) <= MaxSeq
    BY DEF InLine, Room
<1> QED
    BY <1>1, <1>2, <1>3, FrontLine

LEMMA ReturnLine ==
    ASSUME WakeInv, InLine, Room, NEW w \in Writer, Return(w)
    PROVE  InLine' /\ Room'
<1>1. call[w].done /\ call' = [call EXCEPT ![w] = NoCall]
      /\ UNCHANGED <<queue, group, vs>>
    BY DEF Return, fileVars
<1>2. call \in [Writer -> Asking]
    BY DEF WakeInv, Shape
<1>3. Alike(queue, call, call')
    BY <1>1, <1>2 DEF Alike, InLine, Lined
<1> QED
    BY <1>1, <1>3, SameLine

LEMMA UnlockedLine ==
    ASSUME WakeInv, InLine, Room, AddRecord \/ Sync \/ Insert
    PROVE  InLine' /\ Room'
<1>1. UNCHANGED <<queue, call, vs>>
    BY DEF AddRecord, Sync, Insert, groupRest
<1>2. group.at # "none"
    BY DEF AddRecord, Sync, Insert
<1>3. group'.n = group.n
    BY DEF AddRecord, Sync, Insert, WakeInv, Shape
<1>4. Alike(queue, call, call')
    BY <1>1 DEF Alike
<1> QED
    BY <1>1, <1>2, <1>3, <1>4, SameLine

\* The numbers that the group gets: as many as it has operations.
LEMMA GroupNumbered ==
    ASSUME WakeInv, InLine, Room, group.at # "none"
    PROVE  /\ GroupEntries \subseteq Written
           /\ Cardinality(GroupEntries) = Size(SubSeq(queue, 1, group.n), call)
           /\ \A e \in GroupEntries : /\ e.seq > vs.seq
                                      /\ e.seq <= vs.seq + Size(SubSeq(queue, 1, group.n), call)
           /\ \A d, e \in GroupEntries : d.seq = e.seq => d = e
<1> DEFINE q == SubSeq(queue, 1, group.n)
           ops == FlattenSeq(Asked(q, call))
           N == Len(ops)
           entry(i) == [key |-> ops[i].key, seq |-> vs.seq + i, del |-> ops[i].del]
<1>1. call \in [Writer -> Asking] /\ queue \in Seq(Writer) /\ group.n \in 1 .. Len(queue)
    BY DEF WakeInv, Shape, InLine, Lined
<1>2. q \in Seq(Writer) /\ group.n \in 0 .. Len(queue)
    BY <1>1
<1>3. ops \in Seq(Operation) /\ N \in Nat
    BY <1>1, <1>2, SizeType DEF Size
<1>4. N = Size(q, call)
    BY DEF Size
<1>5. vs.seq \in Nat /\ vs.seq + N <= MaxSeq /\ MaxSeq \in Nat
    <2>1. Size(queue, call) = Size(q, call) + Size(SubSeq(queue, group.n + 1, Len(queue)), call)
        BY <1>1, <1>2, SizeSplit
    <2>2. Size(SubSeq(queue, group.n + 1, Len(queue)), call) \in Nat
        <3>1. SubSeq(queue, group.n + 1, Len(queue)) \in Seq(Writer)
            BY <1>1
        <3> QED
            BY <1>1, <3>1, SizeType
    <2> QED
        BY <1>3, <1>4, <2>1, <2>2, LevelDBAssumption DEF Room
<1>6. GroupEntries = {entry(i) : i \in 1 .. N}
    BY DEF GroupEntries, Ops, Asked
<1> HIDE DEF N, ops
<1>7. \A i \in 1 .. N : ops[i] \in Operation
    BY <1>3 DEF N
<1>8. \A i \in 1 .. N : /\ entry(i) \in Written /\ entry(i).seq = vs.seq + i
    BY <1>3, <1>5, <1>7 DEF Written, Operation
<1>9. \A i, j \in 1 .. N : entry(i).seq = entry(j).seq => i = j
    BY <1>3, <1>5, <1>8
<1> HIDE DEF entry
<1>10. Cardinality({entry(i) : i \in 1 .. N}) = N
    <2> DEFINE f == [i \in 1 .. N |-> entry(i)]
    <2>1. f \in Bijection(1 .. N, {entry(i) : i \in 1 .. N})
        BY <1>9 DEF Bijection, Injection, Surjection, IsInjective
    <2>2. IsFiniteSet(1 .. N) /\ Cardinality(1 .. N) = N
        BY <1>3, FS_Interval
    <2>3. ExistsBijection(1 .. N, {entry(i) : i \in 1 .. N})
        BY <2>1 DEF ExistsBijection
    <2> HIDE DEF f
    <2> QED
        BY <2>2, <2>3, FS_Bijection
<1>11. \A e \in GroupEntries : e.seq > vs.seq /\ e.seq <= vs.seq + N
    BY <1>3, <1>5, <1>6, <1>8
<1> QED
    BY <1>4, <1>6, <1>8, <1>9, <1>10, <1>11

LEMMA FinishLine ==
    ASSUME WakeInv, InLine, Room, Finish
    PROVE  InLine' /\ Room'
<1> DEFINE n == group.n
           rest == SubSeq(queue, n + 1, Len(queue))
<1>1. /\ group.at # "none"
      /\ vs' = [vs EXCEPT !.seq = @ + Cardinality(GroupEntries)]
      /\ queue' = rest /\ call' = Popped(queue, n, call) /\ group' = NoGroup
    BY DEF Finish
<1>2. call \in [Writer -> Asking] /\ Lined(queue, call) /\ n \in 1 .. Len(queue)
    BY <1>1 DEF WakeInv, Shape, InLine
<1>3. Lined(rest, call') /\ Size(rest, call') = Size(rest, call)
    BY <1>1, <1>2, PoppedLined
<1>4. vs'.seq = vs.seq + Size(SubSeq(queue, 1, n), call)
    BY <1>1, GroupNumbered DEF WakeInv, Shape, Versions
<1>5. queue \in Seq(Writer) /\ n \in 0 .. Len(queue)
      /\ SubSeq(queue, 1, n) \in Seq(Writer) /\ rest \in Seq(Writer)
    BY <1>2 DEF Lined
<1>6. Size(queue, call) = Size(SubSeq(queue, 1, n), call) + Size(rest, call)
    BY <1>2, <1>5, SizeSplit
<1>7. Size(SubSeq(queue, 1, n), call) \in Nat /\ Size(rest, call) \in Nat
    BY <1>2, <1>5, SizeType
<1>8. vs'.seq \in Nat /\ vs'.seq + Size(rest, call') <= MaxSeq
    BY <1>3, <1>4, <1>6, <1>7, LevelDBAssumption DEF Room
<1>9. group'.at = "none"
    BY <1>1 DEF NoGroup
<1> QED
    BY <1>1, <1>3, <1>8, <1>9 DEF InLine, Room

\* The background thread only wakes writers.
LEMMA BackgroundSame ==
    ASSUME WakeInv, Background
    PROVE  /\ UNCHANGED <<up, queue, group, reading, snapshots>>
           /\ call' = call \/ call' = SignalAll(call)
           /\ vs'.seq = vs.seq
<1>1. \A err, i, d, h : EndOfCall(err, i, d, h, call) => call' = SignalAll(call)
    BY DEF EndOfCall
<1>2. \A err, i, d, h : GoOn(err, i, d, h) => call' = SignalAll(call)
    BY <1>1 DEF GoOn
<1>3. \A d, v, err, dd, h : CleanupCompaction(d, v, err, dd, h) => call' = SignalAll(call)
    BY <1>1 DEF CleanupCompaction
<1>4. DOMAIN vs = Versions
    BY DEF WakeInv, Shape
<1>5. CASE NothingToDo
    BY <1>1, <1>5 DEF NothingToDo, workRest, readVars, fileVars
<1>6. CASE BeginFlush
    BY <1>4, <1>6 DEF BeginFlush, workRest, readVars, fileVars
<1>7. CASE EndOfTable
    BY <1>2, <1>7 DEF EndOfTable, workRest, readVars, fileVars
<1>8. CASE Pick
    BY <1>8 DEF Pick, workRest, readVars, fileVars
<1>9. CASE WriteOutput
    <2>1. \A out : Writes(out) => call' = call /\ vs'.seq = vs.seq
        BY <1>4 DEF Writes, Versions
    <2>2. CleanupCompaction(disk, vs, TRUE, due, hot) => call' = SignalAll(call)
        BY <1>3
    <2>3. vs' = [vs EXCEPT !.next = @ + 1] => vs'.seq = vs.seq
        BY <1>4 DEF Versions
    <2>4. UNCHANGED <<up, queue, group, reading, snapshots>>
        BY <1>9 DEF WriteOutput, workRest, readVars
    <2>5. \/ \E out : Writes(out)
          \/ vs' = [vs EXCEPT !.next = @ + 1] /\ CleanupCompaction(disk, vs, TRUE, due, hot)
        BY <1>9, WriteOutputStep
    <2> QED
        BY <2>1, <2>2, <2>3, <2>4, <2>5
<1>10. CASE InstallCompactionResults
    BY <1>10 DEF InstallCompactionResults, workRest, readVars, fileVars
<1>11. CASE ManifestWritten
    BY <1>1, <1>2, <1>3, <1>4, <1>11 DEF ManifestWritten, workRest, readVars, fileVars
<1>12. CASE ManifestFails
    BY <1>1, <1>2, <1>3, <1>12 DEF ManifestFails, workRest, readVars, fileVars
<1> QED
    BY <1>5, <1>6, <1>7, <1>8, <1>9, <1>10, <1>11, <1>12 DEF Background

LEMMA BackgroundLine ==
    ASSUME WakeInv, InLine, Room, Background
    PROVE  InLine' /\ Room'
<1>1. /\ UNCHANGED <<queue, group>> /\ vs'.seq = vs.seq
      /\ call' = call \/ call' = SignalAll(call)
    BY BackgroundSame
<1>2. \A w \in Writer : call'[w].batch = call[w].batch /\ call'[w].done = call[w].done
    BY <1>1, SignalAllSame DEF WakeInv, Shape
<1>3. Alike(queue, call, call')
    BY <1>2 DEF Alike, InLine, Lined
<1> QED
    BY <1>1, <1>3, SameLine

LEMMA ReadingLine ==
    ASSUME InLine, Room, Reading
    PROVE  InLine' /\ Room'
<1>1. UNCHANGED <<queue, group, call, vs>>
    BY DEF Reading, GetSnapshot, ReleaseSnapshot, BeginRead, EndRead, readRest, fileVars, writeVars
<1>2. Alike(queue, call, call')
    BY <1>1 DEF Alike
<1> QED
    BY <1>1, <1>2, SameLine

-----------------------------------------------------------------------------
(* Entries, tables, logs and memtables. *)

LEMMA LevelsTyped ==
    /\ Lower \subseteq Level /\ 0 \in Lower /\ 0 \in Level
    /\ \A l \in Lower : l + 1 \in Level
    /\ \A l \in Level : l # 0 /\ l < NumLevels - 1 => l \in Lower
BY VersionSetAssumption DEF Level, Lower

LEMMA NoWorkTyped == TypedWork(NoWork) /\ TypedMerge(NoCompaction)
<1>1. TypedMerge(NoCompaction)
    BY LevelsTyped DEF TypedMerge, NoCompaction
<1>2. NoWork.seq = 0 /\ NoWork.num = 0 /\ NoWork.comp = NoCompaction /\ NoWork.edit.add = {}
    BY DEF NoWork, NoEdit
<1> QED
    BY <1>1, <1>2, LevelDBAssumption DEF TypedWork

LEMMA MergeTyped ==
    ASSUME NEW c, TypedMerge(c)
    PROVE  TypedWork([NoWork EXCEPT !.at = "merge", !.kind = "merge", !.comp = c])
<1> DEFINE w == [NoWork EXCEPT !.at = "merge", !.kind = "merge", !.comp = c]
<1>1. w.seq = NoWork.seq /\ w.num = NoWork.num /\ w.comp = c /\ w.edit = NoWork.edit
    BY DEF NoWork
<1> HIDE DEF w
<1>2. TypedWork(w)
    BY <1>1, NoWorkTyped DEF TypedWork
<1> QED
    BY <1>2 DEF w

LEMMA GoOnTyped ==
    ASSUME TypedWork(work), NEW err, NEW i, NEW d, NEW h, GoOn(err, i, d, h)
    PROVE  /\ TypedWork(work')
           /\ work'.at \in {"none", "merge"}
           /\ \/ work' = NoWork
              \/ work' = [NoWork EXCEPT !.at = "merge", !.kind = "merge", !.comp = work.comp]
<1>1. TypedMerge(work.comp)
    BY DEF TypedWork
<1> DEFINE w == [NoWork EXCEPT !.at = "merge", !.kind = "merge", !.comp = work.comp]
<1>2. w.at = "merge" /\ NoWork.at = "none" /\ TypedWork(w)
    BY <1>1, MergeTyped DEF NoWork
<1>3. work' = NoWork \/ work' = w
    BY DEF GoOn, EndOfCall
<1> HIDE DEF w
<1>4. TypedWork(work') /\ work'.at \in {"none", "merge"}
    BY <1>2, <1>3, NoWorkTyped
<1> QED
    BY <1>3, <1>4 DEF w

\* An edit that is going to be written.
LEMMA LogAndApplyTyped ==
    ASSUME Room, NEW doing, NEW kind, NEW edit, TypedMerge(doing.comp), doing.num \in Nat,
           edit.add \subseteq Level \X File, vs.seq <= MaxSeq,
           DOMAIN doing = {"at", "kind", "num", "edit", "seq", "next", "comp"}
    PROVE  TypedWork(LogAndApply(doing, kind, edit))
<1> DEFINE w == LogAndApply(doing, kind, edit)
<1>1. w.seq = vs.seq /\ w.num = doing.num /\ w.comp = doing.comp /\ w.edit = edit
    BY DEF LogAndApply
<1> HIDE DEF w
<1>2. TypedWork(w)
    BY <1>1, LevelDBAssumption DEF TypedWork, Room
<1> QED
    BY <1>2 DEF w

LEMMA ApplyTyped ==
    ASSUME NEW v, NEW edit, TypedVersion(v), edit.add \subseteq Level \X File
    PROVE  TypedVersion(Apply(v, edit))
<1>1. \A l \in Level : Apply(v, edit)[l] \subseteq File
    <2> SUFFICES ASSUME NEW l \in Level, NEW f \in Apply(v, edit)[l] PROVE f \in File
        OBVIOUS
    <2>1. f \in v[l] \/ \E p \in edit.add : f = p[2]
        BY DEF Apply
    <2> QED
        BY <2>1 DEF TypedVersion
<1> QED
    BY <1>1 DEF TypedVersion, Apply

LEMMA FinalizeLower ==
    ASSUME NEW v, NEW d \in Finalize(v)
    PROVE  d \subseteq Lower
BY LevelsTyped DEF Finalize, Lower

LEMMA InUseTyped ==
    ASSUME NEW mt, TypedMemory(mt), NEW i, NEW rd
    PROVE  /\ TypedMemory(InUse(mt, i, rd))
           /\ DOMAIN mt \cap {mem, i} \subseteq DOMAIN InUse(mt, i, rd)
           /\ DOMAIN InUse(mt, i, rd) \subseteq DOMAIN mt
           /\ \A n \in DOMAIN InUse(mt, i, rd) : InUse(mt, i, rd)[n] = mt[n]
BY DEF InUse, TypedMemory

\* What the deletion of obsolete files leaves of the logs.
LEMMA CollectedLogs ==
    ASSUME NEW d, DOMAIN d = {"logs", "tables", "manifest"},
           NEW v, NEW comp, NEW pend, NEW err
    PROVE  LET c == Collected(d, v, comp, pend, err)
           IN  /\ c.manifest = d.manifest
               /\ {m \in DOMAIN d.logs : m >= v.log} \subseteq DOMAIN c.logs
               /\ DOMAIN c.logs \subseteq DOMAIN d.logs
               /\ \A n \in DOMAIN c.logs : c.logs[n] = d.logs[n]
               /\ TypedLogs(d.logs) => TypedLogs(c.logs)
<1> DEFINE live == {m \in DOMAIN d.logs : m >= v.log}
           c == Collected(d, v, comp, pend, err)
<1>1. CASE err
    <2>1. c = d
        BY <1>1 DEF Collected
    <2> QED
        BY <2>1
<1>2. CASE ~err
    <2>1. c = [d EXCEPT !.tables = @ \cap LiveTables(v.version, comp, pend),
                        !.logs = [n \in live |-> @[n]]]
        BY <1>2 DEF Collected
    <2>2. c.manifest = d.manifest /\ c.logs = [n \in live |-> d.logs[n]]
        BY <2>1
    <2> QED
        BY <2>2 DEF TypedLogs
<1> QED
    BY <1>1, <1>2

LEMMA SeqBounded == Room /\ call \in [Writer -> Asking] /\ Lined(queue, call) => vs.seq \in 0 .. MaxSeq
<1> SUFFICES ASSUME Room, call \in [Writer -> Asking], Lined(queue, call) PROVE vs.seq \in 0 .. MaxSeq
    OBVIOUS
<1>1. Size(queue, call) \in Nat
    BY SizeType DEF Lined
<1> QED
    BY <1>1, LevelDBAssumption DEF Room

LEMMA FrontShape ==
    ASSUME NEW q, NEW calls, AtFront(q, calls)
    PROVE  \/ UNCHANGED <<vs, disk, pending, mem, imm, memtable>>
           \/ SwitchMemTable /\ imm = 0 /\ pending' = pending
BY DEF AtFront, fileVars, memVars, MustWait

LEMMA SwitchedTyped ==
    ASSUME TypesInv, SwitchMemTable, imm = 0, pending' = pending, up = "up",
           UNCHANGED <<up, work, due, hot>>
    PROVE  Contents' /\ Places'
<1>1. /\ mem' = vs.next /\ imm' = mem
      /\ memtable' = [n \in DOMAIN memtable \cup {vs.next} |->
                        IF n = vs.next THEN {} ELSE memtable[n]]
      /\ vs' = [vs EXCEPT !.next = @ + 1]
      /\ disk' = [disk EXCEPT !.logs = [n \in DOMAIN @ \cup {vs.next} |->
                                        IF n = vs.next THEN NoLog ELSE @[n]]]
    BY DEF SwitchMemTable
<1>2. /\ vs'.version = vs.version /\ vs'.next = vs.next + 1 /\ vs'.log = vs.log
      /\ vs.next \in Nat
    BY <1>1 DEF TypesInv, WakeInv, Shape, Versions
<1>3. /\ disk'.manifest = disk.manifest
      /\ DOMAIN disk'.logs = DOMAIN disk.logs \cup {vs.next}
      /\ \A n \in DOMAIN disk'.logs : disk'.logs[n] = IF n = vs.next THEN NoLog ELSE disk.logs[n]
    BY <1>1 DEF TypesInv, WakeInv, Shape
<1>4. NoLog \in Log
    BY DEF NoLog, Log
<1>5. TypedLogs(disk'.logs)
    BY <1>3, <1>4 DEF TypesInv, Contents, TypedLogs
<1>6. TypedMemory(memtable')
    BY <1>1 DEF TypesInv, Contents, TypedMemory
<1>7. Contents'
    BY <1>2, <1>3, <1>5, <1>6 DEF TypesInv, Contents
<1>8. mem' \in DOMAIN memtable' \cap DOMAIN disk'.logs /\ mem' < vs'.next
      /\ imm' \in DOMAIN memtable' \cap DOMAIN disk'.logs /\ imm' < mem' /\ vs'.log <= imm'
      /\ vs'.log \in DOMAIN disk'.logs
    BY <1>1, <1>2, <1>3 DEF TypesInv, Places
<1>9. pending' \subseteq 0 .. vs'.next
    BY <1>2 DEF TypesInv, Places
<1>10. vs'.log <= mem' /\ mem' \in Nat /\ mem' <= vs'.next
    <2>1. mem \in Nat /\ vs.log \in Nat /\ vs.log <= mem /\ mem < vs.next
        BY DEF TypesInv, Places, WakeInv, Numbered
    <2> QED
        BY <1>1, <1>2, <2>1
<1>11. ~(work.at = "table" \/ (work.at = "manifest" /\ work.kind = "flush"))
    BY DEF TypesInv, Places
<1> QED
    BY <1>7, <1>8, <1>9, <1>10, <1>11 DEF Places

\* Nothing that matters here changes.
LEMMA TypedSame ==
    ASSUME Contents, Places,
           UNCHANGED <<up, vs, disk, pending, mem, imm, memtable, work, due, hot>>
    PROVE  Contents' /\ Places'
BY DEF Contents, Places

LEMMA FrontTyped ==
    ASSUME TypesInv, up = "up", NEW q, NEW calls, AtFront(q, calls), UNCHANGED frontRest
    PROVE  Contents' /\ Places'
<1>1. UNCHANGED <<up, work, due, hot>>
    BY DEF frontRest, pickVars
<1>2. CASE UNCHANGED <<vs, disk, pending, mem, imm, memtable>>
    BY <1>1, <1>2, TypedSame DEF TypesInv
<1>3. CASE SwitchMemTable /\ imm = 0 /\ pending' = pending
    BY <1>1, <1>3, SwitchedTyped
<1> QED
    BY <1>2, <1>3, FrontShape

LEMMA WriterTyped ==
    ASSUME TypesInv, NEW w \in Writer,
           \/ \E b \in Batch, sync \in SyncOption : Write(w, b, sync)
           \/ Proceed(w) \/ Return(w)
    PROVE  Contents' /\ Places'
<1>1. CASE \E b \in Batch, sync \in SyncOption : Write(w, b, sync)
    <2>1. PICK b \in Batch, sync \in SyncOption : Write(w, b, sync)
        BY <1>1
    <2>2. up = "up" /\ UNCHANGED frontRest
        BY <2>1 DEF Write
    <2>3. CASE \E q, calls : AtFront(q, calls)
        BY <2>2, <2>3, FrontTyped
    <2>4. CASE UNCHANGED <<group, fileVars, memVars, scheduled>>
        BY <2>2, <2>4, TypedSame DEF TypesInv, frontRest, pickVars, fileVars, memVars
    <2> QED
        BY <2>1, <2>3, <2>4 DEF Write
<1>2. CASE Proceed(w)
    <2>1. up = "up"
        BY <1>2 DEF Proceed, TypesInv, WakeInv, Closed
    <2> QED
        BY <1>2, <2>1, FrontTyped DEF Proceed
<1>3. CASE Return(w)
    BY <1>3, TypedSame DEF TypesInv, Return, frontRest, pickVars, fileVars, memVars
<1> QED
    BY <1>1, <1>2, <1>3

LEMMA UnlockedTyped ==
    ASSUME TypesInv, AddRecord \/ Sync \/ Insert
    PROVE  Contents' /\ Places'
<1>1. UNCHANGED <<up, vs, mem, imm, pending, work, due, hot>>
    BY DEF AddRecord, Sync, Insert, groupRest, workVars, pickVars
<1>2. GroupEntries \subseteq Written
    BY GroupNumbered DEF TypesInv, AddRecord, Sync, Insert
<1>3. TypedMemory(memtable') /\ DOMAIN memtable' = DOMAIN memtable
    <2>1. CASE memtable' = memtable
        BY <2>1 DEF TypesInv, Contents
    <2>2. CASE memtable' = [memtable EXCEPT ![mem] = @ \cup GroupEntries]
        BY <1>2, <2>2 DEF TypesInv, Contents, TypedMemory
    <2> QED
        BY <2>1, <2>2 DEF AddRecord, Sync, Insert
<1>4. /\ disk'.manifest = disk.manifest /\ DOMAIN disk'.logs = DOMAIN disk.logs
      /\ TypedLogs(disk'.logs)
    <2>1. CASE disk' = disk
        BY <2>1 DEF TypesInv, Contents
    <2>2. CASE \E r \in SUBSET Written : LogRec(r)
        <3>1. PICK r \in SUBSET Written : LogRec(r)
            BY <2>2
        <3>2. /\ disk'.manifest = disk.manifest
              /\ disk'.logs = [disk.logs EXCEPT ![mem] = [@ EXCEPT !.recs = Append(disk.logs[mem].recs, r)]]
            BY <3>1 DEF LogRec, TypesInv, WakeInv, Shape
        <3>3. \A log \in Log : [log EXCEPT !.recs = Append(log.recs, r)] \in Log
            BY DEF Log
        <3> QED
            BY <3>2, <3>3 DEF TypesInv, Contents, TypedLogs
    <2>3. CASE disk' = [disk EXCEPT !.logs[mem].synced = Len(disk.logs[mem].recs)]
        <3>1. /\ disk'.manifest = disk.manifest
              /\ disk'.logs = [disk.logs EXCEPT ![mem] = [@ EXCEPT !.synced = Len(disk.logs[mem].recs)]]
            BY <2>3 DEF TypesInv, WakeInv, Shape
        <3>2. \A log \in Log : [log EXCEPT !.synced = Len(log.recs)] \in Log
            BY DEF Log
        <3> QED
            BY <3>1, <3>2 DEF TypesInv, Contents, TypedLogs
    <2> QED
        BY <1>2, <2>1, <2>2, <2>3 DEF AddRecord, Sync, Insert
<1>5. Contents'
    BY <1>1, <1>3, <1>4 DEF TypesInv, Contents
<1> QED
    BY <1>1, <1>3, <1>4, <1>5 DEF TypesInv, Places

LEMMA FinishTyped ==
    ASSUME TypesInv, Finish
    PROVE  Contents' /\ Places'
<1>1. UNCHANGED <<up, disk, pending, mem, imm, memtable, work, due, hot>>
    BY DEF Finish, memVars, workVars, pickVars
<1>2. vs'.version = vs.version /\ vs'.next = vs.next /\ vs'.log = vs.log
    BY DEF Finish, TypesInv, WakeInv, Shape, Versions
<1> QED
    BY <1>1, <1>2 DEF TypesInv, Contents, Places

LEMMA ReadingTyped ==
    ASSUME TypesInv, Reading
    PROVE  Contents' /\ Places'
<1>1. UNCHANGED <<up, vs, disk, pending, mem, imm, work>>
    BY DEF Reading, GetSnapshot, ReleaseSnapshot, BeginRead, EndRead, readRest, fileVars
<1>2. CASE UNCHANGED <<memtable, due, hot>>
    BY <1>1, <1>2, TypedSame DEF TypesInv
<1>3. CASE \E r \in Reader : EndRead(r)
    <2>1. PICK r \in Reader : EndRead(r)
        BY <1>3
    <2>2. memtable' = InUse(memtable, imm, reading')
        BY <2>1 DEF EndRead
    <2>3. TypedMemory(memtable') /\ DOMAIN memtable \cap {mem, imm} \subseteq DOMAIN memtable'
        BY <2>2, InUseTyped DEF TypesInv, Contents
    <2>4. due' = due /\ (hot' = hot \/ \E p \in ReadInVain(vs.version) : hot' = {p})
        BY <2>1 DEF EndRead, pickVars
    <2>5. \A p \in ReadInVain(vs.version) : p[1] \in Lower
        BY DEF ReadInVain, Lower
    <2>6. Contents'
        BY <1>1, <2>3, <2>4, <2>5 DEF TypesInv, Contents
    <2> QED
        BY <1>1, <2>3, <2>6 DEF TypesInv, Places
<1> QED
    BY <1>2, <1>3 DEF Reading, GetSnapshot, ReleaseSnapshot, BeginRead, readRest, pickVars

\* The background thread goes on; the version and the logs stay.
Going ==
    /\ UNCHANGED <<up, mem, imm, memtable, due, hot>>
    /\ disk'.manifest = disk.manifest /\ disk'.logs = disk.logs
    /\ vs'.version = vs.version /\ vs'.log = vs.log
    /\ vs'.next \in Nat /\ vs'.next >= vs.next
    /\ TypedWork(work')
    /\ work'.at = "table" \/ (work'.at = "manifest" /\ work'.kind = "flush") => imm # 0
    /\ pending' \subseteq 0 .. vs'.next

LEMMA GoingTyped ==
    ASSUME TypesInv, Going
    PROVE  Contents' /\ Places'
<1>1. Contents'
    BY DEF Going, TypesInv, Contents
<1>2. vs.next \in Nat /\ mem \in Nat
    BY DEF TypesInv, WakeInv, Shape, Places
<1>3. Places'
    BY <1>2 DEF Going, TypesInv, Places
<1> QED
    BY <1>1, <1>3

LEMMA NothingToDoTyped ==
    ASSUME TypesInv, NothingToDo
    PROVE  Contents' /\ Places'
<1>1. work' = NoWork /\ UNCHANGED <<up, mem, imm, memtable, due, hot, disk, vs, pending>>
    BY Unworked DEF NothingToDo, EndOfCall, memVars, pickVars, fileVars
<1>2. NoWork.at = "none"
    BY DEF NoWork
<1>3. Going
    BY <1>1, <1>2, NoWorkTyped DEF Going, TypesInv, Places, WakeInv, Shape
<1> QED
    BY <1>3, GoingTyped

LEMMA BeginFlushTyped ==
    ASSUME TypesInv, BeginFlush
    PROVE  Contents' /\ Places'
<1>1. /\ work' = [work EXCEPT !.at = "table", !.kind = "flush", !.num = vs.next]
      /\ vs' = [vs EXCEPT !.next = @ + 1] /\ imm # 0
      /\ pending' = pending \cup {vs.next}
      /\ UNCHANGED <<up, mem, imm, memtable, due, hot, disk>>
    BY Unworked DEF BeginFlush, memVars, pickVars
<1>2. /\ work'.edit = work.edit /\ work'.seq = work.seq /\ work'.num = vs.next
      /\ work'.comp = work.comp
    BY <1>1 DEF TypesInv, WakeInv, Shape
<1>3. vs'.version = vs.version /\ vs'.log = vs.log /\ vs'.next = vs.next + 1 /\ vs.next \in Nat
    BY <1>1 DEF TypesInv, WakeInv, Shape, Versions
<1>4. TypedWork(work')
    BY <1>2, <1>3 DEF TypedWork, TypesInv, Contents
<1>5. pending' \subseteq 0 .. vs'.next
    BY <1>1, <1>3 DEF TypesInv, Places
<1>6. Going
    BY <1>1, <1>3, <1>4, <1>5 DEF Going
<1> QED
    BY <1>6, GoingTyped

LEMMA WorkShaped ==
    ASSUME TypesInv
    PROVE  /\ DOMAIN work = {"at", "kind", "num", "edit", "seq", "next", "comp"}
           /\ TypedMerge(work.comp) /\ work.num \in Nat /\ vs.seq <= MaxSeq
           /\ pending \subseteq 0 .. vs.next /\ vs.next \in Nat
<1>1. vs.seq \in 0 .. MaxSeq
    BY SeqBounded DEF TypesInv, WakeInv, Shape, InLine
<1> QED
    BY <1>1, LevelDBAssumption DEF TypesInv, WakeInv, Shape, Contents, TypedWork, Places

LEMMA EndOfTableTyped ==
    ASSUME TypesInv, EndOfTable
    PROVE  Contents' /\ Places'
<1> DEFINE table == [num |-> work.num, ents |-> memtable[imm]]
           lo == Smallest(table).key
           hi == Largest(table).key
<1>1. /\ work.at = "table" /\ pending' = pending \ {work.num}
      /\ UNCHANGED <<up, mem, imm, memtable, due, hot, vs>>
    BY Unworked DEF EndOfTable, memVars, pickVars
<1>2. imm # 0 /\ imm \in DOMAIN memtable
    BY <1>1 DEF TypesInv, Places
<1>3. table \in File
    BY <1>2, WorkShaped DEF File, TypesInv, Contents, TypedMemory
<1>4. pending' \subseteq 0 .. vs'.next
    BY <1>1, WorkShaped
<1>5. disk'.manifest = disk.manifest /\ disk'.logs = disk.logs
    BY DEF EndOfTable, TypesInv, WakeInv, Shape
<1>6. TypedWork(work')
    <2>1. CASE \E l \in PickLevelForMemTableOutput(vs.version, lo, hi) :
                    work' = LogAndApply(work, "flush", [NoEdit EXCEPT !.add = {<<l, table>>}])
        <3>1. PICK l \in PickLevelForMemTableOutput(vs.version, lo, hi) :
                    work' = LogAndApply(work, "flush", [NoEdit EXCEPT !.add = {<<l, table>>}])
            BY <2>1
        <3> DEFINE edit == [NoEdit EXCEPT !.add = {<<l, table>>}]
        <3>2. l \in Level
            BY VersionSetAssumption DEF PickLevelForMemTableOutput, Level
        <3>3. edit.add = {<<l, table>>}
            BY DEF NoEdit
        <3>4. work' = LogAndApply(work, "flush", edit)
            BY <3>1
        <3> HIDE DEF edit, table
        <3>5. edit.add \subseteq Level \X File
            BY <1>3, <3>2, <3>3
        <3>6. TypedWork(LogAndApply(work, "flush", edit))
            BY <3>5, WorkShaped, LogAndApplyTyped DEF TypesInv
        <3> QED
            BY <3>4, <3>6
    <2>2. CASE GoOn(TRUE, imm, due, hot)
        BY <2>2, GoOnTyped DEF TypesInv, Contents
    <2> QED
        BY <2>1, <2>2 DEF EndOfTable
<1>7. Going
    <2>1. vs.next \in Nat /\ vs.next >= vs.next
        BY WorkShaped
    <2> QED
        BY <1>1, <1>2, <1>4, <1>5, <1>6, <2>1 DEF Going
<1> QED
    BY <1>7, GoingTyped

\* The inputs of a merge are files of the two levels.
LEMMA BothFound ==
    ASSUME NEW v, NEW l \in Level, NEW picked \in SUBSET v[l],
           NEW inputs \in SetupOtherInputs(v, l, picked)
    PROVE  inputs[1] \subseteq v[l] /\ inputs[2] \subseteq v[l + 1]
<1> DEFINE pairs == {<<i, OverlappingInputs(v, l + 1, i)>> :
                        i \in {AddBoundaryInputs(v[l], picked)}}
<1>1. PICK both \in pairs :
        \/ inputs = both
        \/ \E g : inputs = <<g, both[2]>>
    BY DEF SetupOtherInputs
<1>2. inputs[2] = both[2]
    BY <1>1
<1>3. \E i : both[2] = OverlappingInputs(v, l + 1, i)
    BY <1>1
<1>4. inputs[2] \subseteq v[l + 1]
    BY <1>2, <1>3 DEF OverlappingInputs, Overlapping
<1> QED
    BY <1>4, InputsFound

LEMMA PickTyped ==
    ASSUME TypesInv, Pick
    PROVE  Contents' /\ Places'
<1>1. /\ UNCHANGED <<up, mem, imm, memtable, due, hot, disk, vs, pending>>
      /\ work = NoWork
    BY Unworked DEF Pick, memVars, pickVars, fileVars
<1> DEFINE Choice(p, inputs) ==
            \/ \E c : /\ work' = [NoWork EXCEPT !.at = "merge", !.kind = "merge", !.comp = c]
                      /\ c.level = p[1] /\ c.outputs = {}
                      /\ c.rest \subseteq AllEntries(inputs[1] \cup inputs[2])
            \/ work' = LogAndApply(NoWork, "move",
                                [del |-> {<<p[1], f>> : f \in inputs[1]},
                                 add |-> {<<p[1] + 1, f>> : f \in inputs[1]}])
<1>2. PICK p \in IF due # {} THEN due \X UNION {vs.version[l] : l \in due} ELSE hot :
        \E inputs \in SetupOtherInputs(vs.version, p[1], Picked(vs.version, p[1], p[2])) :
            Choice(p, inputs)
    <2> DEFINE merged(inputs) == AllEntries(inputs[1] \cup inputs[2])
               oldest == IF snapshots = {} THEN vs.seq
                         ELSE CHOOSE s \in {h.seq : h \in snapshots} :
                                    \A h \in snapshots : s <= h.seq
               kept(p, inputs) == {e \in merged(inputs) : ~Drops(e, merged(inputs), vs.version, p[1], oldest)}
               comp(p, inputs) == [level |-> p[1], inputs |-> inputs, version |-> vs.version,
                                   rest |-> kept(p, inputs), outputs |-> {}]
    <2>1. \A p, inputs : LET c == comp(p, inputs)
                         IN  /\ c.level = p[1] /\ c.outputs = {}
                             /\ c.rest \subseteq AllEntries(inputs[1] \cup inputs[2])
        OBVIOUS
    <2>2. PICK p \in IF due # {} THEN due \X UNION {vs.version[l] : l \in due} ELSE hot :
            \E inputs \in SetupOtherInputs(vs.version, p[1], Picked(vs.version, p[1], p[2])) :
                \/ work' = [NoWork EXCEPT !.at = "merge", !.kind = "merge", !.comp = comp(p, inputs)]
                \/ work' = LogAndApply(NoWork, "move",
                                [del |-> {<<p[1], f>> : f \in inputs[1]},
                                 add |-> {<<p[1] + 1, f>> : f \in inputs[1]}])
        BY DEF Pick
    <2>3. PICK inputs \in SetupOtherInputs(vs.version, p[1], Picked(vs.version, p[1], p[2])) :
                \/ work' = [NoWork EXCEPT !.at = "merge", !.kind = "merge", !.comp = comp(p, inputs)]
                \/ work' = LogAndApply(NoWork, "move",
                                [del |-> {<<p[1], f>> : f \in inputs[1]},
                                 add |-> {<<p[1] + 1, f>> : f \in inputs[1]}])
        BY <2>2
    <2> DEFINE c == comp(p, inputs)
    <2>4. /\ c.level = p[1] /\ c.outputs = {}
          /\ c.rest \subseteq AllEntries(inputs[1] \cup inputs[2])
        BY <2>1
    <2>5. \/ work' = [NoWork EXCEPT !.at = "merge", !.kind = "merge", !.comp = c]
          \/ work' = LogAndApply(NoWork, "move",
                                [del |-> {<<p[1], f>> : f \in inputs[1]},
                                 add |-> {<<p[1] + 1, f>> : f \in inputs[1]}])
        BY <2>3
    <2> HIDE DEF c
    <2>6. Choice(p, inputs)
        BY <2>4, <2>5
    <2> HIDE DEF Choice
    <2> QED
        BY <2>2, <2>3, <2>6
<1>3. p[1] \in Lower /\ p[1] \in Level /\ Picked(vs.version, p[1], p[2]) \subseteq vs.version[p[1]]
    <2>1. p[1] \in Lower
        BY <1>2 DEF TypesInv, Contents
    <2> QED
        BY <2>1, PickedFound, LevelsTyped DEF TypesInv
<1> HIDE DEF Choice
<1>4. PICK inputs \in SetupOtherInputs(vs.version, p[1], Picked(vs.version, p[1], p[2])) : Choice(p, inputs)
    BY <1>2
<1> USE DEF Choice
<1>5. inputs[1] \subseteq vs.version[p[1]] /\ inputs[2] \subseteq vs.version[p[1] + 1]
    BY <1>3, BothFound
<1>6. inputs[1] \subseteq File /\ inputs[2] \subseteq File
    <2>1. vs.version[p[1]] \subseteq File /\ vs.version[p[1] + 1] \subseteq File
        BY <1>3, LevelsTyped DEF TypesInv, Contents, TypedVersion
    <2> QED
        BY <1>5, <2>1
<1>7. AllEntries(inputs[1] \cup inputs[2]) \subseteq Written
    BY <1>6 DEF AllEntries, File
<1>8. TypedWork(work') /\ work'.at \in {"merge", "manifest"} /\ work'.kind \in {"merge", "move"}
    <2>1. CASE \E c : /\ work' = [NoWork EXCEPT !.at = "merge", !.kind = "merge", !.comp = c]
                      /\ c.level = p[1] /\ c.outputs = {}
                      /\ c.rest \subseteq AllEntries(inputs[1] \cup inputs[2])
        <3>1. PICK c : /\ work' = [NoWork EXCEPT !.at = "merge", !.kind = "merge", !.comp = c]
                       /\ c.level = p[1] /\ c.outputs = {}
                       /\ c.rest \subseteq AllEntries(inputs[1] \cup inputs[2])
            BY <2>1
        <3>2. TypedMerge(c)
            BY <1>3, <1>7, <3>1 DEF TypedMerge
        <3>3. TypedWork([NoWork EXCEPT !.at = "merge", !.kind = "merge", !.comp = c])
            BY <3>2, MergeTyped
        <3>4. work'.at = "merge" /\ work'.kind = "merge"
            BY <3>1 DEF NoWork
        <3> QED
            BY <3>1, <3>3, <3>4
    <2>2. CASE work' = LogAndApply(NoWork, "move",
                                [del |-> {<<p[1], f>> : f \in inputs[1]},
                                 add |-> {<<p[1] + 1, f>> : f \in inputs[1]}])
        <3> DEFINE edit == [del |-> {<<p[1], f>> : f \in inputs[1]},
                            add |-> {<<p[1] + 1, f>> : f \in inputs[1]}]
        <3>1. edit.add = {<<p[1] + 1, f>> : f \in inputs[1]} /\ work' = LogAndApply(NoWork, "move", edit)
            BY <2>2
        <3> HIDE DEF edit
        <3>2. edit.add \subseteq Level \X File
            BY <1>3, <1>6, <3>1, LevelsTyped
        <3>3. NoWork.comp = NoCompaction /\ NoWork.num = 0
              /\ DOMAIN NoWork = {"at", "kind", "num", "edit", "seq", "next", "comp"}
            BY DEF NoWork
        <3>4. TypedWork(LogAndApply(NoWork, "move", edit))
            BY <3>2, <3>3, NoWorkTyped, WorkShaped, LogAndApplyTyped DEF TypesInv
        <3>5. work'.at = "manifest" /\ work'.kind = "move"
            BY <3>1, <3>3 DEF LogAndApply
        <3> QED
            BY <3>1, <3>4, <3>5
    <2> QED
        BY <1>4, <2>1, <2>2
<1>9. Going
    <2>1. vs.next \in Nat /\ vs.next >= vs.next /\ pending \subseteq 0 .. vs.next
        BY WorkShaped
    <2> HIDE DEF Choice
    <2> QED
        BY <1>1, <1>8, <2>1 DEF Going
<1> QED
    BY <1>9, GoingTyped

LEMMA WriteOutputTyped ==
    ASSUME TypesInv, WriteOutput
    PROVE  Contents' /\ Places'
<1>1. /\ work.at = "merge" /\ UNCHANGED <<up, mem, imm, memtable, due, hot>>
      /\ vs.next \in Nat /\ pending \subseteq 0 .. vs.next
    BY WriteOutputStep, WorkShaped DEF WriteOutput, memVars
<1>2. CASE \E out \in SUBSET work.comp.rest : Writes(out)
    <2>1. PICK out \in SUBSET work.comp.rest : Writes(out)
        BY <1>2
    <2>2. /\ work'.at = work.at
          /\ work'.comp.outputs = work.comp.outputs \cup {[num |-> vs.next, ents |-> out]}
          /\ disk'.logs = disk.logs /\ disk'.manifest = disk.manifest
          /\ vs'.version = vs.version /\ vs'.next = vs.next + 1
        BY <2>1, WritesStep DEF TypesInv, WakeInv
    <2>3. /\ work'.edit = work.edit /\ work'.seq = work.seq /\ work'.num = work.num
          /\ work'.comp.rest = work.comp.rest \ out /\ work'.comp.level = work.comp.level
          /\ vs'.log = vs.log /\ pending' = pending \cup {vs.next}
        BY <2>1 DEF Writes, TypesInv, WakeInv, Shape, Versions
    <2>4. [num |-> vs.next, ents |-> out] \in File
        BY <1>1 DEF File, TypesInv, Contents, TypedWork, TypedMerge
    <2>5. TypedWork(work')
        BY <2>2, <2>3, <2>4 DEF TypesInv, Contents, TypedWork, TypedMerge
    <2>6. pending' \subseteq 0 .. vs'.next
        <3> SUFFICES ASSUME NEW n \in pending' PROVE n \in 0 .. vs'.next
            OBVIOUS
        <3>1. n \in pending \/ n = vs.next
            BY <2>3
        <3>2. n \in 0 .. vs.next
            <4>1. vs.next \in Nat /\ pending \subseteq 0 .. vs.next
                BY <1>1
            <4>2. vs.next \in 0 .. vs.next
                BY <4>1
            <4> QED
                BY <3>1, <4>1, <4>2
        <3> QED
            BY <1>1, <2>2, <3>2
    <2>7. Going
        BY <1>1, <2>2, <2>3, <2>5, <2>6 DEF Going
    <2> QED
        BY <2>7, GoingTyped
<1>3. CASE vs' = [vs EXCEPT !.next = @ + 1] /\ CleanupCompaction(disk, vs, TRUE, due, hot)
    <2>1. work' = NoWork /\ disk' = disk /\ pending' \subseteq pending
        BY <1>3 DEF CleanupCompaction, EndOfCall, Collected
    <2>2. NoWork.at = "none"
        BY DEF NoWork
    <2>3. vs'.version = vs.version /\ vs'.log = vs.log /\ vs'.next = vs.next + 1
        BY <1>3 DEF TypesInv, WakeInv, Shape, Versions
    <2>4. pending' \subseteq 0 .. vs'.next
        BY <1>1, <2>1, <2>3
    <2>5. Going
        BY <1>1, <2>1, <2>2, <2>3, <2>4, NoWorkTyped DEF Going
    <2> QED
        BY <2>5, GoingTyped
<1>4. \A out \in NextOutputs(work.comp.rest) : out \in SUBSET work.comp.rest
    BY DEF NextOutputs
<1>5. \/ \E out \in NextOutputs(work.comp.rest) : Writes(out)
      \/ vs' = [vs EXCEPT !.next = @ + 1] /\ CleanupCompaction(disk, vs, TRUE, due, hot)
    BY DEF WriteOutput, Writes
<1> QED
    BY <1>2, <1>3, <1>4, <1>5

LEMMA InstallTyped ==
    ASSUME TypesInv, InstallCompactionResults
    PROVE  Contents' /\ Places'
<1> DEFINE c == work.comp
           edit == [del |-> UNION {{<<c.level + i - 1, f>> : f \in c.inputs[i]} : i \in 1 .. 2},
                    add |-> {<<c.level + 1, f>> : f \in c.outputs}]
<1>1. work' = LogAndApply(work, "merge", edit)
    BY DEF InstallCompactionResults
<1>2. edit.add = {<<work.comp.level + 1, f>> : f \in work.comp.outputs}
    OBVIOUS
<1> HIDE DEF edit
<1>3. edit.add \subseteq Level \X File
    BY <1>2, WorkShaped, LevelsTyped DEF TypedMerge
<1>4. TypedWork(work')
    BY <1>1, <1>3, WorkShaped, LogAndApplyTyped DEF TypesInv
<1>5. UNCHANGED <<up, mem, imm, memtable, due, hot, vs, disk, pending>>
    BY Unworked DEF InstallCompactionResults, memVars, pickVars, fileVars
<1>6. work'.kind = "merge"
    BY InstallStep DEF TypesInv
<1>7. work'.at = "manifest"
    BY InstallStep DEF TypesInv
<1>8. vs.next \in Nat /\ vs.next >= vs.next /\ pending \subseteq 0 .. vs.next
    BY WorkShaped
<1>9. Going
    BY <1>4, <1>5, <1>6, <1>7, <1>8 DEF Going
<1> QED
    BY <1>9, GoingTyped

LEMMA InstalledTyped ==
    ASSUME TypesInv
    PROVE  /\ TypedVersion(Installed.version) /\ Installed.log = EditLog
           /\ TypedVersion(Recorded.manifest.version) /\ Recorded.manifest.seq \in 0 .. MaxSeq
           /\ Recorded.logs = disk.logs
           /\ DOMAIN Recorded = {"logs", "tables", "manifest"}
<1>1. /\ Installed.version = Apply(vs.version, work.edit)
      /\ Recorded.manifest.version = Apply(disk.manifest.version, work.edit)
      /\ Recorded.logs = disk.logs /\ DOMAIN Recorded = DOMAIN disk
    BY InstalledShape DEF TypesInv
<1>2. TypedVersion(Installed.version) /\ TypedVersion(Recorded.manifest.version)
    BY <1>1, ApplyTyped DEF TypesInv, Contents, TypedWork
<1>3. Recorded.manifest.seq = work.seq
    BY DEF Recorded, Appended, TypesInv, WakeInv, Shape
<1>4. Installed.log = EditLog
    BY DEF Installed, TypesInv, WakeInv, Shape, Versions
<1>5. DOMAIN disk = {"logs", "tables", "manifest"}
    BY DEF TypesInv, WakeInv, Shape
<1> QED
    BY <1>1, <1>2, <1>3, <1>4, <1>5 DEF TypesInv, Contents, TypedWork

LEMMA ManifestWrittenTyped ==
    ASSUME TypesInv, ManifestWritten
    PROVE  Contents' /\ Places'
<1>1. /\ work.at = "manifest" /\ UNCHANGED <<up, mem>>
      /\ vs' = Installed /\ due' \in Finalize(Installed.version) /\ hot' = {}
    BY ManifestWrittenStep
<1>2. /\ TypedVersion(vs'.version) /\ vs'.log = EditLog /\ vs'.next = vs.next /\ vs.next \in Nat
    BY <1>1, InstalledTyped, InstalledShape DEF TypesInv, WakeInv, Shape
<1>3. due' \subseteq Lower
    BY <1>1, FinalizeLower
<1>4. up = "up"
    BY <1>1 DEF TypesInv, WakeInv, Closed, Shape
<1>5. /\ mem \in DOMAIN memtable \cap DOMAIN disk.logs /\ mem < vs.next /\ mem \in Nat /\ mem <= vs.next
      /\ vs.log \in DOMAIN disk.logs /\ vs.log <= mem /\ vs.log \in Nat
      /\ imm # 0 => imm \in DOMAIN memtable \cap DOMAIN disk.logs /\ imm < mem /\ vs.log <= imm
      /\ pending \subseteq 0 .. vs.next
    BY <1>4 DEF TypesInv, Places, WakeInv, Numbered
<1> DEFINE Rests == /\ TypedWork(work') /\ work'.at \in {"none", "merge"}
                    /\ disk'.manifest = Recorded.manifest
                    /\ {n \in DOMAIN disk.logs : n >= EditLog} \subseteq DOMAIN disk'.logs
                    /\ TypedLogs(disk'.logs)
                    /\ pending' \subseteq pending
                    /\ \/ work.kind = "flush" /\ imm' = 0 /\ memtable' = InUse(memtable, 0, reading)
                       \/ work.kind # "flush" /\ imm' = imm /\ memtable' = memtable
<1>6. Rests
    <2>1. /\ Recorded.logs = disk.logs /\ TypedLogs(disk.logs)
          /\ DOMAIN Recorded = {"logs", "tables", "manifest"} /\ Installed.log = EditLog
        BY InstalledTyped DEF TypesInv, Contents
    <2>2. \A comp, pend, err :
            LET cc == Collected(Recorded, Installed, comp, pend, err)
            IN  /\ cc.manifest = Recorded.manifest
                /\ {n \in DOMAIN disk.logs : n >= EditLog} \subseteq DOMAIN cc.logs
                /\ TypedLogs(cc.logs)
        <3> SUFFICES ASSUME NEW comp, NEW pend, NEW err
                     PROVE  LET cc == Collected(Recorded, Installed, comp, pend, err)
                            IN  /\ cc.manifest = Recorded.manifest
                                /\ {n \in DOMAIN disk.logs : n >= EditLog} \subseteq DOMAIN cc.logs
                                /\ TypedLogs(cc.logs)
            OBVIOUS
        <3> DEFINE cc == Collected(Recorded, Installed, comp, pend, err)
        <3>1. /\ cc.manifest = Recorded.manifest
              /\ {m \in DOMAIN Recorded.logs : m >= Installed.log} \subseteq DOMAIN cc.logs
              /\ TypedLogs(Recorded.logs) => TypedLogs(cc.logs)
            BY <2>1, CollectedLogs
        <3> HIDE DEF cc
        <3>2. /\ cc.manifest = Recorded.manifest
              /\ {n \in DOMAIN disk.logs : n >= EditLog} \subseteq DOMAIN cc.logs
              /\ TypedLogs(cc.logs)
            BY <2>1, <3>1
        <3> QED
            BY <3>2 DEF cc
    <2>3. NoWork.at = "none"
        BY DEF NoWork
    <2>4. CASE /\ work.kind = "flush" /\ imm' = 0 /\ memtable' = InUse(memtable, 0, reading)
               /\ disk' = Collected(Recorded, Installed, work.comp, pending, bgError)
               /\ GoOn(bgError, 0, due', {}) /\ pending' = pending
        <3>1. TypedWork(work') /\ work'.at \in {"none", "merge"}
            BY <2>4, GoOnTyped DEF TypesInv, Contents
        <3> QED
            BY <2>2, <2>4, <3>1
    <2>5. CASE /\ work.kind = "merge" /\ imm' = imm /\ memtable' = memtable
               /\ CleanupCompaction(Recorded, Installed, bgError, due', {})
        <3>1. /\ work' = NoWork /\ pending' \subseteq pending
              /\ \E pend : disk' = Collected(Recorded, Installed, NoCompaction, pend, bgError)
            BY <2>5 DEF CleanupCompaction, EndOfCall
        <3> QED
            BY <2>2, <2>3, <2>5, <3>1, NoWorkTyped
    <2>6. CASE /\ work.kind = "move" /\ imm' = imm /\ memtable' = memtable
               /\ disk' = Recorded /\ EndOfCall(bgError, imm, due', {}, call) /\ pending' = pending
        <3>1. work' = NoWork
            BY <2>6 DEF EndOfCall
        <3> QED
            BY <2>1, <2>3, <2>6, <3>1, NoWorkTyped
    <2> QED
        BY <2>4, <2>5, <2>6 DEF ManifestWritten, Installed, Recorded, memVars
<1> HIDE DEF Rests
<1>7. TypedMemory(memtable') /\ mem \in DOMAIN memtable' /\ (imm' # 0 => imm \in DOMAIN memtable' /\ imm' = imm)
    <2>1. TypedMemory(memtable)
        BY DEF TypesInv, Contents
    <2>2. /\ TypedMemory(InUse(memtable, 0, reading))
          /\ DOMAIN memtable \cap {mem, 0} \subseteq DOMAIN InUse(memtable, 0, reading)
        BY <2>1, InUseTyped
    <2> QED
        BY <1>5, <1>6, <2>1, <2>2 DEF Rests
<1>8. Contents'
    <2>1. TypedVersion(Recorded.manifest.version) /\ Recorded.manifest.seq \in 0 .. MaxSeq
        BY InstalledTyped
    <2> QED
        BY <1>1, <1>2, <1>3, <1>6, <1>7, <2>1 DEF Contents, Rests
<1>9. /\ vs'.log \in DOMAIN disk'.logs /\ vs'.log <= mem /\ mem \in DOMAIN disk'.logs
      /\ imm' # 0 => imm \in DOMAIN disk'.logs /\ vs'.log <= imm
    <2>1. CASE work.kind = "flush"
        <3>1. EditLog = mem /\ imm' = 0
            BY <1>6, <2>1 DEF EditLog, Rests
        <3> QED
            BY <1>2, <1>5, <1>6, <3>1 DEF Rests
    <2>2. CASE work.kind # "flush"
        <3>1. EditLog = vs.log /\ imm' = imm
            BY <1>6, <2>2 DEF EditLog, Rests
        <3>2. {n \in DOMAIN disk.logs : n >= vs.log} \subseteq DOMAIN disk'.logs
            BY <1>6, <3>1 DEF Rests
        <3> QED
            BY <1>2, <1>5, <3>1, <3>2
    <2> QED
        BY <2>1, <2>2
<1>10. Places'
    BY <1>1, <1>2, <1>4, <1>5, <1>6, <1>7, <1>9 DEF Places, Rests
<1> QED
    BY <1>8, <1>10

LEMMA ManifestFailsTyped ==
    ASSUME TypesInv, ManifestFails
    PROVE  Contents' /\ Places'
<1>1. UNCHANGED <<up, vs, mem, imm, memtable, due, hot>>
    BY Unworked DEF ManifestFails, memVars, pickVars
<1>2. PICK d \in {disk, Recorded} :
        \/ disk' = d /\ GoOn(TRUE, imm, due, hot) /\ UNCHANGED pending
        \/ work.kind = "merge" /\ CleanupCompaction(d, vs, TRUE, due, hot)
        \/ disk' = d /\ EndOfCall(TRUE, imm, due, hot, call) /\ UNCHANGED pending
    BY ManifestFailsStep
<1>3. /\ TypedVersion(d.manifest.version) /\ d.manifest.seq \in 0 .. MaxSeq /\ d.logs = disk.logs
    BY InstalledTyped DEF TypesInv, Contents
<1>4. disk' = d /\ pending' \subseteq pending /\ TypedWork(work') /\ work'.at \in {"none", "merge"}
    <2>1. NoWork.at = "none"
        BY DEF NoWork
    <2>2. CASE disk' = d /\ GoOn(TRUE, imm, due, hot) /\ UNCHANGED pending
        BY <2>2, GoOnTyped DEF TypesInv, Contents
    <2>3. CASE CleanupCompaction(d, vs, TRUE, due, hot)
        BY <2>1, <2>3, NoWorkTyped DEF CleanupCompaction, EndOfCall, Collected
    <2>4. CASE disk' = d /\ EndOfCall(TRUE, imm, due, hot, call) /\ UNCHANGED pending
        BY <2>1, <2>4, NoWorkTyped DEF EndOfCall
    <2> QED
        BY <1>2, <2>2, <2>3, <2>4
<1>5. Contents'
    BY <1>1, <1>3, <1>4 DEF TypesInv, Contents
<1>6. Places'
    BY <1>1, <1>3, <1>4 DEF TypesInv, Places
<1> QED
    BY <1>5, <1>6

LEMMA BackgroundTyped ==
    ASSUME TypesInv, Background
    PROVE  Contents' /\ Places'
BY NothingToDoTyped, BeginFlushTyped, EndOfTableTyped, PickTyped, WriteOutputTyped,
   InstallTyped, ManifestWrittenTyped, ManifestFailsTyped DEF Background


\* The newest number is one of those that were given out.
LEMMA NewestSeqBounded ==
    ASSUME NEW ents \in SUBSET Written, NEW s \in 0 .. MaxSeq
    PROVE  NewestSeq(ents, s) \in 0 .. MaxSeq
<1> DEFINE seqs == {e.seq : e \in ents}
<1>1. CASE \E e \in ents : e.seq > s
    <2>1. seqs \subseteq 0 .. MaxSeq /\ seqs # {}
        BY <1>1 DEF Written
    <2>2. IsFiniteSet(0 .. MaxSeq)
        BY LevelDBAssumption, FS_Interval
    <2>3. IsFiniteSet(seqs) /\ seqs \in SUBSET Nat
        <3>1. seqs \in SUBSET (0 .. MaxSeq)
            BY <2>1
        <3> HIDE DEF seqs
        <3>2. IsFiniteSet(seqs)
            BY <2>2, <3>1, FS_Subset
        <3>3. 0 .. MaxSeq \subseteq Nat
            BY LevelDBAssumption
        <3> QED
            BY <3>1, <3>2, <3>3
    <2> HIDE DEF seqs
    <2>4. \E n \in seqs : \A o \in seqs : o <= n
        BY <2>1, <2>3, FiniteMax
    <2>5. \E e \in ents : \A f \in ents : f.seq <= e.seq
        BY <2>4 DEF seqs
    <2>6. NewestSeq(ents, s) = (CHOOSE e \in ents : \A f \in ents : f.seq <= e.seq).seq
        BY <1>1 DEF NewestSeq
    <2>7. (CHOOSE e \in ents : \A f \in ents : f.seq <= e.seq) \in ents
        BY <2>5
    <2> QED
        BY <2>6, <2>7 DEF Written
<1>2. CASE ~\E e \in ents : e.seq > s
    BY <1>2 DEF NewestSeq
<1> QED
    BY <1>1, <1>2

LEMMA ReadableWritten ==
    ASSUME NEW log \in Log
    PROVE  Readable(log) \subseteq Written
<1>1. \A i \in 1 .. Len(log.recs) : log.recs[i] \subseteq Written
    BY DEF Log
<1>2. log.recs \in Seq(SUBSET Written)
    BY DEF Log
<1>3. DOMAIN log.recs = 1 .. Len(log.recs)
    BY <1>2
<1> QED
    BY <1>1, <1>3 DEF Readable

LEMMA CutsTyped ==
    ASSUME NEW log \in Log, NEW cut \in Cuts(log)
    PROVE  cut \in Log
<1>1. PICK n \in log.synced .. Len(log.recs) : cut = [log EXCEPT !.recs = SubSeq(@, 1, n)]
    BY DEF Cuts
<1>2. log.recs \in Seq(SUBSET Written) /\ log.synced \in Nat
    BY DEF Log
<1>3. n \in 0 .. Len(log.recs)
    BY <1>2
<1>4. SubSeq(log.recs, 1, n) \in Seq(SUBSET Written)
    <2> DEFINE r == log.recs
    <2>1. r \in Seq(SUBSET Written) /\ n \in 0 .. Len(r)
        BY <1>2, <1>3
    <2> HIDE DEF r
    <2>2. SubSeq(r, 1, n) \in Seq(SUBSET Written)
        BY <2>1
    <2> QED
        BY <2>2 DEF r
<1> QED
    BY <1>1, <1>4 DEF Log

LEMMA CrashLine ==
    ASSUME Crash
    PROVE  InLine' /\ Room'
<1>1. queue' = <<>> /\ group'.at = "none" /\ vs'.seq = 0
    BY DEF Crash, NoGroup
<1>2. Lined(<<>>, call') /\ Size(<<>>, call') = 0
    BY EmptyLine
<1> QED
    BY <1>1, <1>2, LevelDBAssumption DEF InLine, Room

LEMMA CrashTyped ==
    ASSUME TypesInv, Crash
    PROVE  Contents' /\ Places'
<1>1. /\ up' = "down" /\ mem' = 0 /\ imm' = 0 /\ memtable' = <<>>
      /\ vs'.version = NoFiles /\ vs'.next = 0
      /\ work' = NoWork /\ pending' = {} /\ due' = {} /\ hot' = {}
    BY DEF Crash
<1>2. disk'.manifest = disk.manifest
    BY CrashStep DEF TypesInv
<1>3. TypedLogs(disk'.logs)
    <2>1. CASE UNCHANGED disk
        BY <2>1 DEF TypesInv, Contents
    <2>2. CASE \E cut \in [DOMAIN disk.logs -> UNION {Cuts(disk.logs[n]) : n \in DOMAIN disk.logs}] :
                /\ \A n \in DOMAIN cut : cut[n] \in Cuts(disk.logs[n])
                /\ disk' = [disk EXCEPT !.logs = cut]
        <3>1. PICK cut \in [DOMAIN disk.logs -> UNION {Cuts(disk.logs[n]) : n \in DOMAIN disk.logs}] :
                /\ \A n \in DOMAIN cut : cut[n] \in Cuts(disk.logs[n])
                /\ disk' = [disk EXCEPT !.logs = cut]
            BY <2>2
        <3>2. disk'.logs = cut
            BY <3>1 DEF TypesInv, WakeInv, Shape
        <3> QED
            BY <3>1, <3>2, CutsTyped DEF TypesInv, Contents, TypedLogs
    <2> QED
        BY <2>1, <2>2 DEF Crash
<1>4. TypedVersion(NoFiles) /\ TypedMemory(<<>>) /\ NoWork.at = "none"
    BY DEF TypedVersion, NoFiles, TypedMemory, NoWork
<1>5. Contents'
    BY <1>1, <1>2, <1>3, <1>4, NoWorkTyped DEF TypesInv, Contents
<1>6. Places'
    BY <1>1, <1>4 DEF Places
<1> QED
    BY <1>5, <1>6

\* What the logs that are read again are made of.
LEMMA RecoverReads ==
    ASSUME TypesInv, Recover
    PROVE  \E tables \in SUBSET File, new \in Nat :
              /\ vs' = [version |-> disk.manifest.version,
                        seq |-> NewestSeq(AllEntries(tables), disk.manifest.seq),
                        next |-> new + 1, log |-> disk.manifest.log]
              /\ mem' = new /\ memtable' = [n \in {new} |-> {}]
              /\ disk'.logs = [n \in DOMAIN disk.logs \cup {new} |->
                                IF n = new THEN NoLog ELSE disk.logs[n]]
              /\ work' = [NoWork EXCEPT !.at = "open", !.seq = vs'.seq, !.next = new + 1,
                                        !.edit = [NoEdit EXCEPT !.add = {0} \X tables]]
<1> DEFINE m == disk.manifest
           logs == {n \in LiveLogs(disk) : Readable(disk.logs[n]) # {}}
           num(n) == m.next + Cardinality({o \in logs : o <= n})
           tables == {[num |-> num(n), ents |-> Readable(disk.logs[n])] : n \in logs}
           used == {m.next + Cardinality(logs)} \cup LiveLogs(disk)
           last == CHOOSE n \in used : \A o \in used : o <= n
           new == last + 1
<1>1. /\ vs' = [version |-> m.version, seq |-> NewestSeq(AllEntries(tables), m.seq),
                next |-> new + 1, log |-> m.log]
      /\ mem' = new /\ memtable' = [n \in {new} |-> {}]
      /\ disk' = [disk EXCEPT
                    !.tables = @ \cup {f.num : f \in tables},
                    !.logs = [n \in DOMAIN @ \cup {new} |->
                                IF n = new THEN NoLog ELSE @[n]]]
      /\ work' = [NoWork EXCEPT !.at = "open", !.seq = vs'.seq, !.next = new + 1,
                                !.edit = [NoEdit EXCEPT !.add = {0} \X tables]]
    BY DEF Recover
<1>2. IsFiniteSet(logs) /\ logs \subseteq DOMAIN disk.logs
    BY FS_Subset DEF LiveLogs, TypesInv, WakeInv, Finite
<1>3. m.next \in Nat /\ LiveLogs(disk) \subseteq Nat /\ IsFiniteSet(LiveLogs(disk))
    BY FS_Subset DEF LiveLogs, TypesInv, WakeInv, Numbered, Finite
<1>4. new \in Nat
    <2> HIDE DEF logs, m
    <2>1. Cardinality(logs) \in Nat
        BY <1>2, FS_CardinalityType
    <2>2. used \subseteq Nat /\ used # {}
        BY <1>3, <2>1
    <2>3. IsFiniteSet(used)
        BY <1>3, FS_AddElement, FS_Singleton, FS_Union
    <2> HIDE DEF used
    <2>4. \E n \in used : \A o \in used : o <= n
        BY <2>2, <2>3, FiniteMax
    <2>5. last \in used
        BY <2>4
    <2> HIDE DEF last
    <2> QED
        BY <2>2, <2>5
<1>5. tables \subseteq File
    <2> SUFFICES ASSUME NEW n \in logs
                 PROVE  [num |-> num(n), ents |-> Readable(disk.logs[n])] \in File
        OBVIOUS
    <2>1. disk.logs[n] \in Log
        BY <1>2 DEF TypesInv, Contents, TypedLogs
    <2>2. Readable(disk.logs[n]) \subseteq Written
        BY <2>1, ReadableWritten
    <2>3. num(n) \in Nat
        <3> HIDE DEF logs
        <3>1. IsFiniteSet({o \in logs : o <= n})
            BY <1>2, FS_Subset
        <3>2. Cardinality({o \in logs : o <= n}) \in Nat
            BY <3>1, FS_CardinalityType
        <3> QED
            BY <1>3, <3>2
    <2> HIDE DEF num, logs
    <2> QED
        BY <2>2, <2>3 DEF File
<1> HIDE DEF tables, new, logs
<1>6. disk'.logs = [n \in DOMAIN disk.logs \cup {new} |-> IF n = new THEN NoLog ELSE disk.logs[n]]
    BY <1>1 DEF TypesInv, WakeInv, Shape
<1>7. tables \in SUBSET File
    BY <1>5
<1> QED
    BY <1>1, <1>4, <1>6, <1>7

LEMMA RecoverLine ==
    ASSUME TypesInv, Recover
    PROVE  InLine' /\ Room'
<1>1. \E tables \in SUBSET File, new \in Nat :
            vs' = [version |-> disk.manifest.version,
                   seq |-> NewestSeq(AllEntries(tables), disk.manifest.seq),
                   next |-> new + 1, log |-> disk.manifest.log]
    <2>1. PICK tables \in SUBSET File, new \in Nat :
            vs' = [version |-> disk.manifest.version,
                   seq |-> NewestSeq(AllEntries(tables), disk.manifest.seq),
                   next |-> new + 1, log |-> disk.manifest.log]
        BY RecoverReads
    <2> QED
        BY <2>1
<1>7. PICK tables \in SUBSET File :
            vs'.seq = NewestSeq(AllEntries(tables), disk.manifest.seq)
    BY <1>1
<1>2. AllEntries(tables) \in SUBSET Written /\ disk.manifest.seq \in 0 .. MaxSeq
    BY DEF AllEntries, File, TypesInv, Contents
<1>3. vs'.seq \in 0 .. MaxSeq
    BY <1>2, <1>7, NewestSeqBounded
<1>4. up = "down" /\ UNCHANGED <<queue, call, group>>
    BY RecoverStep DEF TypesInv
<1>5. queue = <<>> /\ group.at = "none"
    BY <1>4 DEF TypesInv, WakeInv, Closed
<1>6. Lined(<<>>, call) /\ Size(<<>>, call) = 0
    BY EmptyLine
<1> QED
    BY <1>3, <1>4, <1>5, <1>6, LevelDBAssumption DEF InLine, Room

LEMMA RecoverTyped ==
    ASSUME TypesInv, Recover
    PROVE  Contents' /\ Places'
<1>1. PICK tables \in SUBSET File, new \in Nat :
              /\ vs' = [version |-> disk.manifest.version,
                        seq |-> NewestSeq(AllEntries(tables), disk.manifest.seq),
                        next |-> new + 1, log |-> disk.manifest.log]
              /\ mem' = new /\ memtable' = [n \in {new} |-> {}]
              /\ disk'.logs = [n \in DOMAIN disk.logs \cup {new} |->
                                IF n = new THEN NoLog ELSE disk.logs[n]]
              /\ work' = [NoWork EXCEPT !.at = "open", !.seq = vs'.seq, !.next = new + 1,
                                        !.edit = [NoEdit EXCEPT !.add = {0} \X tables]]
    BY RecoverReads
<1>2. AllEntries(tables) \in SUBSET Written /\ disk.manifest.seq \in 0 .. MaxSeq
    BY DEF AllEntries, File, TypesInv, Contents
<1>3. vs'.seq \in 0 .. MaxSeq /\ vs'.version = disk.manifest.version /\ vs'.next = new + 1
    BY <1>1, <1>2, NewestSeqBounded
<1>4. /\ up = "down" /\ up' = "opening" /\ UNCHANGED <<imm, pending, due, hot>>
      /\ disk'.manifest = disk.manifest /\ work'.at = "open" /\ work'.comp = NoCompaction
    BY RecoverStep DEF TypesInv
<1>5. imm = 0 /\ pending = {}
    BY <1>4 DEF TypesInv, WakeInv, Closed
<1>6. work'.edit.add = {0} \X tables /\ work'.seq = vs'.seq /\ work'.num = 0
    BY <1>1 DEF NoWork, NoEdit
<1>7. TypedWork(work')
    <2>1. {0} \X tables \subseteq Level \X File
        BY LevelsTyped
    <2> QED
        BY <1>3, <1>4, <1>6, <2>1, NoWorkTyped DEF TypedWork
<1>8. TypedLogs(disk'.logs)
    <2>1. NoLog \in Log
        BY DEF NoLog, Log
    <2>2. \A n \in DOMAIN disk'.logs : disk'.logs[n] \in Log
        BY <1>1, <2>1 DEF TypesInv, Contents, TypedLogs
    <2> QED
        BY <2>2 DEF TypedLogs
<1>9. TypedMemory(memtable') /\ mem' \in DOMAIN memtable' /\ mem' \in DOMAIN disk'.logs
    BY <1>1 DEF TypedMemory
<1>10. Contents'
    BY <1>3, <1>4, <1>7, <1>8, <1>9 DEF TypesInv, Contents
<1>11. mem' \in Nat /\ mem' < vs'.next /\ mem' <= vs'.next
    BY <1>1, <1>3
<1>12. Places'
    BY <1>4, <1>5, <1>9, <1>11 DEF Places
<1> QED
    BY <1>10, <1>12

LEMMA OpenedLine ==
    ASSUME TypesInv, Opened
    PROVE  InLine' /\ Room'
<1>1. UNCHANGED <<queue, call, group>> /\ vs' = Reopened
    BY OpenedStep DEF TypesInv
<1>2. vs'.seq = vs.seq
    BY <1>1 DEF Reopened, TypesInv, WakeInv, Shape, Versions
<1>3. Alike(queue, call, call')
    BY <1>1 DEF Alike
<1> QED
    BY <1>1, <1>2, <1>3, SameLine DEF TypesInv

LEMMA OpenedTyped ==
    ASSUME TypesInv, Opened
    PROVE  Contents' /\ Places'
<1>1. /\ up = "opening" /\ up' = "up" /\ UNCHANGED <<imm, pending>>
      /\ vs' = Reopened /\ Reopened.next = vs.next
      /\ Reopened.version = Apply(vs.version, work.edit)
      /\ DOMAIN Renewed = DOMAIN disk /\ Renewed.manifest = Reopened
      /\ Renewed.logs = disk.logs
      /\ disk' = Collected(Renewed, Reopened, NoCompaction, {}, FALSE)
      /\ due' \in Finalize(Reopened.version) /\ hot' = {}
      /\ work' = NoWork
    BY OpenedStep DEF TypesInv
<1>2. mem' = mem /\ memtable' = memtable
    BY DEF Opened, memVars
<1>3. imm = 0 /\ pending = {}
    BY <1>1 DEF TypesInv, WakeInv, Closed
<1>4. Reopened.log = mem /\ Reopened.seq = vs.seq
    BY DEF Reopened, TypesInv, WakeInv, Shape, Versions
<1>5. /\ mem \in DOMAIN memtable \cap DOMAIN disk.logs /\ mem < vs.next /\ mem \in Nat
      /\ mem <= vs.next
    BY <1>1 DEF TypesInv, Places
<1>6. vs.seq \in 0 .. MaxSeq
    BY SeqBounded DEF TypesInv, WakeInv, Shape, InLine
<1>7. TypedVersion(Reopened.version)
    BY <1>1, ApplyTyped DEF TypesInv, Contents, TypedWork
<1>8. /\ disk'.manifest = Reopened /\ TypedLogs(disk'.logs) /\ mem \in DOMAIN disk'.logs
    <2>5. \E none, err : disk' = Collected(Renewed, Reopened, NoCompaction, none, err)
        BY <1>1
    <2>6. PICK none, err : disk' = Collected(Renewed, Reopened, NoCompaction, none, err)
        BY <2>5
    <2> DEFINE c == Collected(Renewed, Reopened, NoCompaction, none, err)
    <2>1. DOMAIN Renewed = {"logs", "tables", "manifest"}
        BY <1>1 DEF TypesInv, WakeInv, Shape
    <2>2. /\ c.manifest = Renewed.manifest
          /\ {n \in DOMAIN Renewed.logs : n >= Reopened.log} \subseteq DOMAIN c.logs
          /\ TypedLogs(Renewed.logs) => TypedLogs(c.logs)
        BY <2>1, CollectedLogs
    <2> HIDE DEF c
    <2>3. TypedLogs(Renewed.logs)
        BY <1>1 DEF TypesInv, Contents
    <2>4. mem >= mem
        BY <1>5
    <2> QED
        BY <1>1, <1>4, <1>5, <2>2, <2>3, <2>4, <2>6 DEF c
<1>9. due' \subseteq Lower
    BY <1>1, FinalizeLower
<1>10. Contents'
    BY <1>1, <1>2, <1>4, <1>6, <1>7, <1>8, <1>9, NoWorkTyped DEF TypesInv, Contents
<1>11. NoWork.at = "none"
    BY DEF NoWork
<1>12. Places'
    <2>1. pending' \subseteq 0 .. vs'.next /\ imm' = 0 /\ mem' \in Nat /\ mem' <= vs'.next
        BY <1>1, <1>2, <1>3, <1>5
    <2>2. mem' \in DOMAIN memtable' \cap DOMAIN disk'.logs /\ mem' < vs'.next
        BY <1>1, <1>2, <1>5, <1>8
    <2>3. vs'.log \in DOMAIN disk'.logs /\ vs'.log <= mem'
        <3>1. vs'.log = mem /\ mem' = mem
            BY <1>1, <1>2, <1>4
        <3>2. mem <= mem
            BY <1>5
        <3> QED
            BY <1>8, <3>1, <3>2
    <2> QED
        BY <1>1, <1>11, <2>1, <2>2, <2>3 DEF Places
<1> QED
    BY <1>10, <1>12

LEMMA InitTypes == ASSUME Init PROVE TypesInv
<1>1. /\ up = "up" /\ vs = [version |-> NoFiles, seq |-> 0, next |-> 4, log |-> 3]
      /\ mem = 3 /\ imm = 0 /\ memtable = [n \in {3} |-> {}]
      /\ queue = <<>> /\ group = NoGroup /\ work = NoWork /\ pending = {} /\ due = {} /\ hot = {}
      /\ disk = [logs |-> [n \in {3} |-> NoLog], tables |-> {}, manifest |-> vs]
    BY DEF Init
<1>2. WakeInv
    BY InitWakes
<1>3. InLine /\ Room
    <2>1. Lined(<<>>, call) /\ Size(<<>>, call) = 0
        BY EmptyLine
    <2>2. group.at = "none" /\ vs.seq = 0
        BY <1>1 DEF NoGroup
    <2> QED
        BY <1>1, <2>1, <2>2, LevelDBAssumption DEF InLine, Room
<1>4. TypedVersion(NoFiles) /\ TypedMemory(memtable) /\ NoWork.at = "none"
    BY <1>1 DEF TypedVersion, NoFiles, TypedMemory, NoWork
<1>5. TypedLogs(disk.logs)
    <2>1. NoLog \in Log
        BY DEF NoLog, Log
    <2> QED
        BY <1>1, <2>1 DEF TypedLogs
<1>6. Contents
    BY <1>1, <1>4, <1>5, NoWorkTyped, LevelDBAssumption DEF Contents
<1>7. Places
    BY <1>1, <1>4 DEF Places
<1> QED
    BY <1>2, <1>3, <1>6, <1>7 DEF TypesInv

LEMMA NextTypes ==
    ASSUME TypesInv, [Next]_vars
    PROVE  TypesInv'
<1>1. WakeInv'
    BY NextWakes DEF TypesInv
<1>2. InLine' /\ Room'
    <2>1. CASE Next
        BY <2>1, WriteLine, ProceedLine, ReturnLine, UnlockedLine, FinishLine, BackgroundLine,
           ReadingLine, CrashLine, RecoverLine, OpenedLine
           DEF TypesInv, Next, Writing
    <2>2. CASE UNCHANGED vars
        <3>1. UNCHANGED <<vs, queue, call, group>>
            BY <2>2 DEF vars, fileVars, writeVars
        <3>2. Alike(queue, call, call')
            BY <3>1 DEF Alike
        <3> QED
            BY <3>1, <3>2, SameLine DEF TypesInv
    <2> QED
        BY <2>1, <2>2
<1>3. Contents' /\ Places'
    <2>1. CASE Next
        BY <2>1, WriterTyped, UnlockedTyped, FinishTyped, BackgroundTyped, ReadingTyped,
           CrashTyped, RecoverTyped, OpenedTyped
           DEF Next, Writing
    <2>2. CASE UNCHANGED vars
        BY <2>2, TypedSame DEF TypesInv, vars, fileVars, memVars, workVars, pickVars
    <2> QED
        BY <2>1, <2>2
<1> QED
    BY <1>1, <1>2, <1>3 DEF TypesInv

LEMMA TypesAreOK == TypesInv => TypeOK
<1> SUFFICES ASSUME TypesInv PROVE TypeOK
    OBVIOUS
<1>1. vs.seq \in 0 .. MaxSeq
    BY SeqBounded DEF TypesInv, WakeInv, Shape, InLine
<1>2. File \subseteq Table
    BY LevelDBAssumption DEF File, Table, Written, Entry
<1>3. vs.version \in [Level -> SUBSET Table]
    BY <1>2 DEF TypesInv, Contents, TypedVersion
<1> QED
    BY <1>1, <1>3 DEF TypeOK, TypesInv, WakeInv, Shape, Places

\* The state of the database is what it should be in every reachable state, however
\* writers, the background thread, readers, faults and crashes are interleaved: numbers
\* are not given out beyond the bound, the memtables in use have their logs, of which
\* none was deleted, and the tables that are being written have numbers that were
\* given out (DBImpl).
THEOREM TypeCorrect == Spec => []TypeOK
<1>1. Init => TypesInv
    BY InitTypes
<1>2. TypesInv /\ [Next]_vars => TypesInv'
    BY NextTypes
<1>3. TypesInv => TypeOK
    BY TypesAreOK
<1> QED
    BY <1>1, <1>2, <1>3, PTL DEF Spec

-----------------------------------------------------------------------------
(* What readers see. *)

\* The entries up to a number.
Until(ents, s) == {e \in ents : e.seq <= s}

\* What is seen in given memtables.
ViewOf(mt, m, i, v, s) ==
    [k \in Key |->
        LET inMem == Newest(mt[m], k, s)
            inImm == IF i = 0 THEN {} ELSE Newest(mt[i], k, s)
        IN  Shown(IF inMem # {} THEN inMem
                  ELSE IF inImm # {} THEN inImm ELSE VersionGet(v, k, s))]

\* A reader that has begun refers to memtables that are there, in which it sees what it saw.
Sees(o, mt, last) ==
    /\ o.seq \in Nat /\ o.seq <= last
    /\ o.mem \in DOMAIN mt /\ (o.imm # 0 => o.imm \in DOMAIN mt)
    /\ ViewOf(mt, o.mem, o.imm, o.version, o.seq) = o.saw

ReadersSee == \A r \in Reader : reading[r] # NoRead => Sees(reading[r], memtable, vs.seq)
SnapshotsPast ==
    /\ \A h \in snapshots : h.seq \in Nat /\ h.seq <= vs.seq
    /\ up # "up" => snapshots = {}
MemoryNumbered == \A n \in DOMAIN memtable : n \in Nat /\ n < vs.next

ServedInv == FilesInv /\ TypesInv /\ ReadersSee /\ SnapshotsPast /\ MemoryNumbered

\* Newer entries make no difference to who reads at s.
LEMMA NewestSame ==
    ASSUME NEW a, NEW b, NEW k, NEW s, Until(a, s) = Until(b, s)
    PROVE  Newest(a, k, s) = Newest(b, k, s)
<1>1. \A ents : {e \in ents : e.key = k /\ e.seq <= s} = {e \in Until(ents, s) : e.key = k}
    BY DEF Until
<1>2. {e \in a : e.key = k /\ e.seq <= s} = {e \in b : e.key = k /\ e.seq <= s}
    BY <1>1
<1> QED
    BY <1>2 DEF Newest

\* The memtables that o refers to have the same entries, up to the last number.
Holds(o, mt, now, last) ==
    \A n \in {o.mem, o.imm} \cap DOMAIN mt : n \in DOMAIN now /\ Until(now[n], last) = Until(mt[n], last)

LEMMA SeesStill ==
    ASSUME NEW o, NEW mt, NEW now, NEW last \in Nat, NEW later \in Nat, last <= later,
           TypedMemory(mt), TypedMemory(now), Sees(o, mt, last), Holds(o, mt, now, last)
    PROVE  Sees(o, now, later)
<1>1. /\ o.seq \in Nat /\ o.seq <= last
      /\ o.mem \in DOMAIN mt /\ (o.imm # 0 => o.imm \in DOMAIN mt)
      /\ ViewOf(mt, o.mem, o.imm, o.version, o.seq) = o.saw
    BY DEF Sees
<1>2. o.mem \in DOMAIN now /\ (o.imm # 0 => o.imm \in DOMAIN now)
    BY <1>1 DEF Holds
<1>3. \A n \in {o.mem, o.imm} \cap DOMAIN mt : Until(now[n], o.seq) = Until(mt[n], o.seq)
    <2> SUFFICES ASSUME NEW n \in {o.mem, o.imm} \cap DOMAIN mt
                 PROVE  Until(now[n], o.seq) = Until(mt[n], o.seq)
        OBVIOUS
    <2>1. n \in DOMAIN now /\ Until(now[n], last) = Until(mt[n], last)
        BY DEF Holds
    <2>2. \A e \in now[n] \cup mt[n] : e.seq \in Nat
        BY <2>1, LevelDBAssumption DEF TypedMemory, Written
    <2>3. \A e \in now[n] \cup mt[n] : e.seq <= o.seq => e.seq <= last
        BY <1>1, <2>2
    <2>4. \A e \in now[n] : e.seq <= o.seq => e \in mt[n]
        BY <2>1, <2>3 DEF Until
    <2>5. \A e \in mt[n] : e.seq <= o.seq => e \in now[n]
        BY <2>1, <2>3 DEF Until
    <2> QED
        BY <2>4, <2>5 DEF Until
<1>4. ViewOf(now, o.mem, o.imm, o.version, o.seq) = ViewOf(mt, o.mem, o.imm, o.version, o.seq)
    <2>1. \A k : Newest(now[o.mem], k, o.seq) = Newest(mt[o.mem], k, o.seq)
        BY <1>1, <1>3, NewestSame
    <2>2. o.imm # 0 => \A k : Newest(now[o.imm], k, o.seq) = Newest(mt[o.imm], k, o.seq)
        BY <1>1, <1>3, NewestSame
    <2> QED
        BY <2>1, <2>2 DEF ViewOf
<1>5. o.seq <= later
    BY <1>1
<1> QED
    BY <1>1, <1>2, <1>4, <1>5 DEF Sees

\* A step that keeps what the readers refer to serves them.
LEMMA ServedStill ==
    ASSUME TypesInv, TypesInv', ReadersSee, vs'.seq >= vs.seq,
           \A r \in Reader : reading'[r] # NoRead =>
                reading'[r] = reading[r] /\ Holds(reading[r], memtable, memtable', vs.seq)
    PROVE  ReadersSee'
<1>1. vs.seq \in Nat /\ vs'.seq \in Nat /\ vs.seq <= vs'.seq
    BY DEF TypesInv, Room
<1>2. TypedMemory(memtable) /\ TypedMemory(memtable')
    BY DEF TypesInv, Contents
<1> SUFFICES ASSUME NEW r \in Reader, reading'[r] # NoRead
             PROVE  Sees(reading'[r], memtable', vs'.seq)
    BY DEF ReadersSee
<1>3. /\ reading'[r] = reading[r] /\ Holds(reading[r], memtable, memtable', vs.seq)
      /\ Sees(reading[r], memtable, vs.seq)
    BY DEF ReadersSee
<1> QED
    BY <1>1, <1>2, <1>3, SeesStill

\* Most steps change nothing of that.
LEMMA ServedSame ==
    ASSUME TypesInv, TypesInv', ReadersSee, SnapshotsPast, MemoryNumbered,
           UNCHANGED <<memtable, reading, snapshots>>, up' = up \/ snapshots = {},
           vs'.seq >= vs.seq, vs'.next >= vs.next
    PROVE  ReadersSee' /\ SnapshotsPast' /\ MemoryNumbered'
<1>1. vs.seq \in Nat /\ vs'.seq \in Nat /\ vs.next \in Nat /\ vs'.next \in Nat
    BY DEF TypesInv, Room, WakeInv, Shape
<1>2. ReadersSee'
    BY ServedStill DEF Holds
<1>3. SnapshotsPast'
    BY <1>1 DEF SnapshotsPast
<1>4. MemoryNumbered'
    BY <1>1 DEF MemoryNumbered
<1> QED
    BY <1>2, <1>3, <1>4

LEMMA FrontServes ==
    ASSUME TypesInv, TypesInv', ReadersSee, SnapshotsPast, MemoryNumbered,
           NEW q, NEW calls, AtFront(q, calls), UNCHANGED frontRest
    PROVE  ReadersSee' /\ SnapshotsPast' /\ MemoryNumbered'
<1>1. UNCHANGED <<up, reading, snapshots>> /\ vs.seq \in Nat /\ vs.next \in Nat
    BY DEF frontRest, readVars, TypesInv, Room, WakeInv, Shape
<1>2. CASE UNCHANGED <<vs, memtable>>
    BY <1>1, <1>2, ServedSame
<1>3. CASE SwitchMemTable
    <2>1. memtable' = [n \in DOMAIN memtable \cup {vs.next} |->
                        IF n = vs.next THEN {} ELSE memtable[n]]
        BY <1>3 DEF SwitchMemTable
    <2>2. vs'.seq = vs.seq /\ vs'.next = vs.next + 1
        BY <1>3 DEF SwitchMemTable, TypesInv, WakeInv, Shape, Versions
    <2>3. vs.next \notin DOMAIN memtable
        BY <1>1 DEF MemoryNumbered
    <2>4. \A n \in DOMAIN memtable : n \in DOMAIN memtable' /\ memtable'[n] = memtable[n]
        BY <2>1, <2>3
    <2>5. \A r \in Reader : Holds(reading[r], memtable, memtable', vs.seq)
        BY <2>4 DEF Holds
    <2>6. vs'.seq >= vs.seq
        BY <1>1, <2>2
    <2>7. ReadersSee'
        BY <1>1, <2>5, <2>6, ServedStill
    <2>8. SnapshotsPast'
        BY <1>1, <2>2 DEF SnapshotsPast
    <2>9. MemoryNumbered'
        <3>1. \A n \in DOMAIN memtable' : n \in DOMAIN memtable \/ n = vs.next
            BY <2>1
        <3>2. \A n \in Nat : n < vs.next => n < vs.next + 1
            BY <1>1
        <3>3. vs.next < vs.next + 1
            BY <1>1
        <3> QED
            BY <1>1, <2>2, <3>1, <3>2, <3>3 DEF MemoryNumbered
    <2> QED
        BY <2>7, <2>8, <2>9
<1> QED
    BY <1>2, <1>3, FrontShape

LEMMA WritingServes ==
    ASSUME TypesInv, TypesInv', ReadersSee, SnapshotsPast, MemoryNumbered,
           \/ \E w \in Writer, b \in Batch, sync \in SyncOption : Write(w, b, sync)
           \/ Writing
    PROVE  ReadersSee' /\ SnapshotsPast' /\ MemoryNumbered'
<1>0. vs.seq \in Nat /\ vs.next \in Nat
    BY DEF TypesInv, Room, WakeInv, Shape
<1>1. CASE \E q, calls : AtFront(q, calls) /\ UNCHANGED frontRest
    BY <1>1, FrontServes
<1>2. CASE UNCHANGED <<up, vs, memtable, reading, snapshots>>
    BY <1>0, <1>2, ServedSame
<1>3. CASE Insert
    <2>1. /\ UNCHANGED <<up, vs, reading, snapshots>>
          /\ memtable' = [memtable EXCEPT ![mem] = @ \cup GroupEntries]
        BY <1>3 DEF Insert, groupRest, readVars
    <2>2. \A e \in GroupEntries : e.seq > vs.seq /\ e.seq \in Nat
        BY <1>3, GroupNumbered, LevelDBAssumption DEF TypesInv, Insert, Written
    <2>3. \A e \in GroupEntries : ~(e.seq <= vs.seq)
        BY <1>0, <2>2
    <2>4. /\ DOMAIN memtable' = DOMAIN memtable
          /\ \A n \in DOMAIN memtable : Until(memtable'[n], vs.seq) = Until(memtable[n], vs.seq)
        BY <2>1, <2>3 DEF Until
    <2>5. \A r \in Reader : Holds(reading[r], memtable, memtable', vs.seq)
        BY <2>4 DEF Holds
    <2>6. vs'.seq >= vs.seq
        BY <1>0, <2>1
    <2>7. ReadersSee'
        BY <2>1, <2>5, <2>6, ServedStill
    <2> QED
        BY <2>1, <2>4, <2>7 DEF SnapshotsPast, MemoryNumbered
<1>4. CASE Finish
    <2>1. /\ UNCHANGED <<up, memtable, reading, snapshots>>
          /\ vs' = [vs EXCEPT !.seq = @ + Cardinality(GroupEntries)] /\ group.at # "none"
        BY <1>4 DEF Finish, memVars, readVars
    <2>2. vs'.seq = vs.seq + Cardinality(GroupEntries) /\ vs'.next = vs.next
        BY <2>1 DEF TypesInv, WakeInv, Shape, Versions
    <2>3. Cardinality(GroupEntries) \in Nat
        <3>1. Cardinality(GroupEntries) = Size(SubSeq(queue, 1, group.n), call)
            BY <2>1, GroupNumbered DEF TypesInv
        <3>2. SubSeq(queue, 1, group.n) \in Seq(Writer) /\ call \in [Writer -> Asking]
            BY <2>1 DEF TypesInv, InLine, Lined, WakeInv, Shape
        <3> QED
            BY <3>1, <3>2, SizeType
    <2>4. vs'.seq >= vs.seq /\ vs'.next >= vs.next
        BY <1>0, <2>2, <2>3
    <2> QED
        BY <2>1, <2>4, ServedSame
<1>5. CASE \E w \in Writer, b \in Batch, sync \in SyncOption : Write(w, b, sync)
    <2>1. PICK w \in Writer, b \in Batch, sync \in SyncOption : Write(w, b, sync)
        BY <1>5
    <2>2. UNCHANGED frontRest
        BY <2>1 DEF Write
    <2>3. (\E q, calls : AtFront(q, calls)) \/ UNCHANGED <<fileVars, memVars>>
        BY <2>1 DEF Write
    <2> QED
        BY <1>1, <1>2, <2>2, <2>3 DEF frontRest, readVars, fileVars, memVars
<1>6. CASE \E w \in Writer : Proceed(w) \/ Return(w)
    BY <1>1, <1>2, <1>6 DEF Proceed, Return, frontRest, readVars, fileVars, memVars
<1>7. CASE AddRecord \/ Sync
    BY <1>2, <1>7 DEF AddRecord, Sync, groupRest, readVars
<1> QED
    BY <1>3, <1>4, <1>5, <1>6, <1>7 DEF Writing

\* The background thread lets go of a memtable only when nobody reads it.
LEMMA BackgroundMemory ==
    ASSUME TypesInv, Background
    PROVE  /\ vs'.next >= vs.next
           /\ memtable' = memtable \/ memtable' = InUse(memtable, 0, reading)
<1>1. vs.next \in Nat /\ DOMAIN vs = Versions
    BY DEF TypesInv, WakeInv, Shape
<1>2. CASE NothingToDo \/ EndOfTable \/ Pick \/ InstallCompactionResults \/ ManifestFails
    <2>1. UNCHANGED <<vs, memtable>>
        BY <1>2 DEF NothingToDo, EndOfTable, Pick, InstallCompactionResults, ManifestFails,
           fileVars, memVars
    <2> QED
        BY <1>1, <2>1
<1>3. CASE BeginFlush
    BY <1>1, <1>3 DEF BeginFlush, memVars, Versions
<1>4. CASE WriteOutput
    <2>1. memtable' = memtable /\ vs' = [vs EXCEPT !.next = @ + 1]
        BY <1>4 DEF WriteOutput, memVars
    <2> QED
        BY <1>1, <2>1 DEF Versions
<1>5. CASE ManifestWritten
    BY <1>1, <1>5 DEF ManifestWritten, memVars, Versions
<1> QED
    BY <1>2, <1>3, <1>4, <1>5 DEF Background

LEMMA BackgroundServes ==
    ASSUME TypesInv, TypesInv', ReadersSee, SnapshotsPast, MemoryNumbered, Background
    PROVE  ReadersSee' /\ SnapshotsPast' /\ MemoryNumbered'
<1>1. UNCHANGED <<up, reading, snapshots>> /\ vs'.seq = vs.seq
    BY BackgroundSame DEF TypesInv
<1>2. vs.seq \in Nat /\ vs.next \in Nat /\ vs'.next \in Nat
    BY DEF TypesInv, Room, WakeInv, Shape
<1>3. vs'.next >= vs.next /\ vs'.seq >= vs.seq
    BY <1>1, <1>2, BackgroundMemory
<1>4. CASE memtable' = memtable
    BY <1>1, <1>3, <1>4, ServedSame
<1>5. CASE memtable' = InUse(memtable, 0, reading)
    <2>1. /\ DOMAIN memtable' \subseteq DOMAIN memtable
          /\ \A n \in DOMAIN memtable' : memtable'[n] = memtable[n]
          /\ \A r \in Reader : {reading[r].mem, reading[r].imm} \cap DOMAIN memtable
                                    \subseteq DOMAIN memtable'
        BY <1>5 DEF InUse
    <2>2. \A r \in Reader : Holds(reading[r], memtable, memtable', vs.seq)
        BY <2>1 DEF Holds
    <2>3. ReadersSee'
        BY <1>1, <1>3, <2>2, ServedStill
    <2>4. SnapshotsPast'
        BY <1>1 DEF SnapshotsPast
    <2>5. MemoryNumbered'
        <3>1. \A n \in DOMAIN memtable : n \in Nat /\ n < vs.next
            BY DEF MemoryNumbered
        <3>2. \A n \in Nat : n < vs.next => n < vs'.next
            BY <1>2, <1>3
        <3> QED
            BY <2>1, <3>1, <3>2 DEF MemoryNumbered
    <2> QED
        BY <2>3, <2>4, <2>5
<1> QED
    BY <1>4, <1>5, BackgroundMemory

LEMMA CurrentView ==
    ASSUME NEW s
    PROVE  Current(s) = ViewOf(memtable, mem, imm, vs.version, s)
BY DEF Current, View, Lookup, ViewOf

LEMMA ReadingServes ==
    ASSUME TypesInv, TypesInv', ReadersSee, SnapshotsPast, MemoryNumbered, Reading
    PROVE  ReadersSee' /\ SnapshotsPast' /\ MemoryNumbered'
<1>1. vs' = vs /\ up' = up /\ vs.seq \in Nat /\ vs.next \in Nat
    BY DEF Reading, GetSnapshot, ReleaseSnapshot, BeginRead, EndRead, readRest, fileVars,
       TypesInv, Room, WakeInv, Shape
<1>2. vs'.seq >= vs.seq
    BY <1>1
<1>3. CASE GetSnapshot \/ ReleaseSnapshot
    <2>1. UNCHANGED <<memtable, reading>>
        BY <1>3 DEF GetSnapshot, ReleaseSnapshot
    <2>2. ReadersSee'
        BY <1>1, <2>1 DEF ReadersSee
    <2>3. MemoryNumbered'
        BY <1>1, <2>1 DEF MemoryNumbered
    <2>4. SnapshotsPast'
        <3>1. CASE GetSnapshot
            <4>1. /\ up = "up" /\ snapshots' = snapshots \cup {[seq |-> vs.seq, saw |-> Current(vs.seq)]}
                BY <3>1 DEF GetSnapshot
            <4>2. \A h \in snapshots' : h \in snapshots \/ h.seq = vs.seq
                BY <4>1
            <4> QED
                BY <1>1, <1>2, <4>1, <4>2 DEF SnapshotsPast
        <3>2. CASE ReleaseSnapshot
            BY <1>1, <3>2 DEF ReleaseSnapshot, SnapshotsPast
        <3> QED
            BY <1>3, <3>1, <3>2
    <2> QED
        BY <2>2, <2>3, <2>4
<1>4. CASE \E r \in Reader : BeginRead(r)
    <2>1. PICK r \in Reader : BeginRead(r)
        BY <1>4
    <2>2. PICK s \in {vs.seq} \cup {h.seq : h \in snapshots} :
            reading' = [reading EXCEPT ![r] =
                [seq |-> s, mem |-> mem, imm |-> imm, version |-> vs.version, saw |-> Current(s)]]
        BY <2>1 DEF BeginRead
    <2>3. UNCHANGED <<memtable, snapshots>> /\ up = "up"
        BY <2>1 DEF BeginRead
    <2>4. s \in Nat /\ s <= vs.seq
        BY <1>1 DEF SnapshotsPast
    <2> DEFINE o == [seq |-> s, mem |-> mem, imm |-> imm, version |-> vs.version, saw |-> Current(s)]
    <2>5. mem \in DOMAIN memtable /\ (imm # 0 => imm \in DOMAIN memtable)
        BY <2>3 DEF TypesInv, Places
    <2>6. Sees(o, memtable, vs.seq)
        BY <2>4, <2>5, CurrentView DEF Sees
    <2>7. DOMAIN reading = Reader
        BY DEF TypesInv, WakeInv, Shape
    <2> HIDE DEF o
    <2>8. \A q \in Reader : reading'[q] = IF q = r THEN o ELSE reading[q]
        BY <2>2, <2>7 DEF o
    <2>9. ReadersSee'
        BY <1>1, <2>3, <2>6, <2>8 DEF ReadersSee
    <2> QED
        BY <1>1, <2>3, <2>9 DEF SnapshotsPast, MemoryNumbered
<1>5. CASE \E r \in Reader : EndRead(r)
    <2>1. PICK r \in Reader : EndRead(r)
        BY <1>5
    <2>2. /\ reading' = [reading EXCEPT ![r] = NoRead]
          /\ memtable' = InUse(memtable, imm, reading') /\ snapshots' = snapshots
        BY <2>1 DEF EndRead
    <2>3. DOMAIN reading = Reader
        BY DEF TypesInv, WakeInv, Shape
    <2>4. \A q \in Reader : reading'[q] # NoRead => reading'[q] = reading[q]
        BY <2>2, <2>3
    <2>5. /\ DOMAIN memtable' \subseteq DOMAIN memtable
          /\ \A n \in DOMAIN memtable' : memtable'[n] = memtable[n]
          /\ \A q \in Reader : {reading'[q].mem, reading'[q].imm} \cap DOMAIN memtable
                                    \subseteq DOMAIN memtable'
        BY <2>2 DEF InUse
    <2>6. \A q \in Reader : reading'[q] # NoRead => Holds(reading[q], memtable, memtable', vs.seq)
        BY <2>4, <2>5 DEF Holds
    <2>7. ReadersSee'
        BY <1>2, <2>4, <2>6, ServedStill
    <2>8. SnapshotsPast' /\ MemoryNumbered'
        BY <1>1, <2>2, <2>5 DEF SnapshotsPast, MemoryNumbered
    <2> QED
        BY <2>7, <2>8
<1> QED
    BY <1>3, <1>4, <1>5 DEF Reading

LEMMA RestartServes ==
    ASSUME TypesInv, TypesInv', ReadersSee, SnapshotsPast, MemoryNumbered,
           Crash \/ Recover \/ Opened
    PROVE  ReadersSee' /\ SnapshotsPast' /\ MemoryNumbered'
<1>1. CASE Crash
    BY <1>1 DEF Crash, ReadersSee, SnapshotsPast, MemoryNumbered
<1>2. CASE Recover
    <2>1. \A r \in Reader : reading[r] = NoRead
        BY <1>2 DEF Recover, TypesInv, WakeInv, Closed
    <2>2. UNCHANGED <<reading, snapshots>>
        BY <1>2 DEF Recover, readVars
    <2>3. PICK new \in Nat : memtable' = [n \in {new} |-> {}] /\ vs'.next = new + 1
        <3>1. PICK tables \in SUBSET File, new \in Nat :
                /\ vs' = [version |-> disk.manifest.version,
                          seq |-> NewestSeq(AllEntries(tables), disk.manifest.seq),
                          next |-> new + 1, log |-> disk.manifest.log]
                /\ memtable' = [n \in {new} |-> {}]
            BY <1>2, RecoverReads
        <3> QED
            BY <3>1
    <2>4. snapshots = {}
        BY <1>2 DEF Recover, SnapshotsPast
    <2> QED
        BY <2>1, <2>2, <2>3, <2>4 DEF ReadersSee, SnapshotsPast, MemoryNumbered
<1>3. CASE Opened
    <2>1. vs' = Reopened /\ UNCHANGED <<memtable, reading, snapshots>>
        BY <1>3 DEF Opened, Reopened, memVars, readVars
    <2>2. vs'.seq = vs.seq /\ vs'.next = vs.next /\ vs.seq \in Nat /\ vs.next \in Nat
        BY <2>1 DEF Reopened, TypesInv, WakeInv, Shape, Versions, Room
    <2>3. vs'.seq >= vs.seq /\ vs'.next >= vs.next
        BY <2>2
    <2>4. snapshots = {}
        BY <1>3 DEF Opened, SnapshotsPast
    <2> QED
        BY <2>1, <2>3, <2>4, ServedSame
<1> QED
    BY <1>1, <1>2, <1>3

LEMMA InitServes == ASSUME Init PROVE ServedInv
<1>1. ReadersSee /\ SnapshotsPast /\ MemoryNumbered
    BY DEF Init, ReadersSee, SnapshotsPast, MemoryNumbered
<1> QED
    BY <1>1, InitFiles, InitTypes DEF ServedInv

LEMMA NextServes ==
    ASSUME ServedInv, [Next]_vars
    PROVE  ServedInv'
<1>1. FilesInv' /\ TypesInv'
    BY NextFiles, NextTypes DEF ServedInv
<1>2. ReadersSee' /\ SnapshotsPast' /\ MemoryNumbered'
    <2>1. CASE Next
        BY <1>1, <2>1, WritingServes, BackgroundServes, ReadingServes, RestartServes
           DEF ServedInv, Next
    <2>2. CASE UNCHANGED vars
        BY <2>2 DEF ServedInv, ReadersSee, SnapshotsPast, MemoryNumbered, vars, fileVars,
           memVars, readVars
    <2> QED
        BY <2>1, <2>2
<1> QED
    BY <1>1, <1>2 DEF ServedInv

LEMMA ServedAreServed == ServedInv => ReadersAreServed
<1> SUFFICES ASSUME ServedInv, NEW r \in Reader, reading[r] # NoRead
             PROVE  LET o == reading[r]
                    IN  /\ Numbers(o.version) \subseteq disk.tables
                        /\ View(o.mem, o.imm, o.version, o.seq) = o.saw
    BY DEF ReadersAreServed
<1>1. Numbers(reading[r].version) \subseteq disk.tables
    BY DEF ServedInv, FilesInv, PinnedAreThere, Pinned
<1>2. Sees(reading[r], memtable, vs.seq)
    BY DEF ServedInv, ReadersSee
<1>3. ASSUME NEW m, NEW i, NEW v, NEW s
      PROVE  View(m, i, v, s) = ViewOf(memtable, m, i, v, s)
    BY DEF View, Lookup, ViewOf
<1> QED
    BY <1>1, <1>2, <1>3 DEF Sees

\* A reader finds every file it refers to, and sees in them and in the memtables what the
\* database held when it began, whatever is written, flushed, merged and deleted
\* meanwhile (DBImpl::Get, NewInternalIterator, DeleteObsoleteFiles).
THEOREM ReadersSeeWhatTheySaw == Spec => []ReadersAreServed
<1>1. Init => ServedInv
    BY InitServes
<1>2. ServedInv /\ [Next]_vars => ServedInv'
    BY NextServes
<1>3. ServedInv => ReadersAreServed
    BY ServedAreServed
<1> QED
    BY <1>1, <1>2, <1>3, PTL DEF Spec

-----------------------------------------------------------------------------
(* The levels. *)

\* The entries of a version, of an edit, and of the logs that a recovery reads.
VersionEntries(v) == UNION {AllEntries(v[l]) : l \in Level}
EditEntries(edit) == AllEntries({p[2] : p \in edit.add})
LogEntries(d) == UNION {Readable(d.logs[n]) : n \in LiveLogs(d)}

InWork == work.comp.rest \cup AllEntries(work.comp.outputs) \cup EditEntries(work.edit)
InMemory == (IF up = "down" THEN {} ELSE memtable[mem])
            \cup (IF imm = 0 THEN {} ELSE memtable[imm])
Known == VersionEntries(disk.manifest.version) \cup LogEntries(disk) \cup InMemory \cup InWork

\* The entries of the group that may be in the log or the memtable already.
Coming == IF group.at \in {"sync", "insert", "lock"} THEN GroupEntries ELSE {}

OneEach(ents) == \A e, d \in ents : e.seq = d.seq => e = d
UpTo(ents, s) == \A e \in ents : e.seq <= s

\* A number is given to one entry only, wherever there are copies of it, and the manifest
\* knows the last of those in the tables.
Numbering ==
    /\ OneEach(Known)
    /\ UpTo(VersionEntries(disk.manifest.version), disk.manifest.seq)
    /\ up # "down" =>
        /\ disk.manifest.version = vs.version /\ disk.manifest.log = vs.log
        /\ disk.manifest.seq <= vs.seq
        /\ UpTo(InWork, vs.seq)
        /\ imm # 0 => UpTo(memtable[imm], vs.seq)
        /\ UpTo((LogEntries(disk) \cup memtable[mem]) \ Coming, vs.seq)
    /\ work.at = "manifest" =>
        /\ disk.manifest.seq <= work.seq /\ work.seq <= vs.seq
        /\ UpTo(EditEntries(work.edit), work.seq)

\* The log that the manifest names is there, and is not newer than the current one.
LogNamed ==
    up # "up" => /\ disk.manifest.log \in DOMAIN disk.logs
                 /\ up = "opening" => disk.manifest.log <= mem

\* Files that do not overlap.
Apart(f, g) == Precedes(Largest(f), Smallest(g)) \/ Precedes(Largest(g), Smallest(f))
Disjoint(files) == \A f, g \in files : f # g => Apart(f, g)
Leveled(v) == \A l \in Level \ {0} : Disjoint(v[l])

\* The files cover all that is between them.
Joined(files) ==
    \A k \in Nat : (\A f \in files : ~Covers(f, k)) =>
        \/ \A f \in files : k < Smallest(f).key
        \/ \A f \in files : Largest(f).key < k

\* A file that no entry of some is in the range of.
Beside(h, ents) ==
    \/ \A e \in ents : Precedes(Largest(h), e)
    \/ \A e \in ents : Precedes(e, Smallest(h))

\* What a merge has written and will write fits in the version.
Merges(v, c) ==
    LET both == c.inputs[1] \cup c.inputs[2]
    IN  /\ c.inputs[1] \subseteq v[c.level] /\ c.inputs[2] \subseteq v[c.level + 1]
        /\ Joined(both)
        /\ c.rest \cup AllEntries(c.outputs) \subseteq AllEntries(both)
        /\ \A h \in v[c.level + 1] \ c.inputs[2] : Beside(h, AllEntries(both))
        /\ \A e \in AllEntries(c.outputs), d \in c.rest : Precedes(e, d)
        /\ Disjoint(c.outputs)

Full(files) == \A f \in files : f.ents # {}

\* No file is empty.
Filled ==
    /\ \A l \in Level : Full(disk.manifest.version[l])
    /\ Full({p[2] : p \in work.edit.add}) /\ Full(work.comp.outputs)
    /\ imm # 0 => memtable[imm] # {}

\* The levels are in order, and will be when what is under way is done.
Fitting ==
    /\ Leveled(vs.version) /\ Leveled(disk.manifest.version)
    /\ Merges(vs.version, work.comp)
    /\ work.at \in {"manifest", "open"} => Leveled(Apply(vs.version, work.edit))
    /\ work.at = "manifest" /\ work.kind = "flush" =>
            Merges(Apply(vs.version, work.edit), work.comp)

LevelsInv == TypesInv /\ Numbering /\ LogNamed /\ Filled /\ Fitting

-----------------------------------------------------------------------------
(* The order of entries, and the ends of a file. *)

LEMMA OrderOfEntries ==
    ASSUME NEW a \in Written, NEW b \in Written, NEW c \in Written
    PROVE  /\ a.key \in Nat /\ a.seq \in Nat
           /\ ~Precedes(a, a)
           /\ Precedes(a, b) => ~Precedes(b, a) /\ a.key <= b.key
           /\ Precedes(a, b) /\ Precedes(b, c) => Precedes(a, c)
           /\ a.key < b.key => Precedes(a, b)
           /\ (a.seq = b.seq => a = b) => a = b \/ Precedes(a, b) \/ Precedes(b, a)
<1>1. \A e \in Written : e.key \in Nat /\ e.seq \in Nat
    <2>1. Key \subseteq Nat /\ MaxSeq \in Nat
        BY VersionSetAssumption, LevelDBAssumption
    <2>2. \A e \in Written : e.key \in Key /\ e.seq \in 0 .. MaxSeq
        BY DEF Written
    <2>3. \A i \in 0 .. MaxSeq : i \in Nat
        BY <2>1
    <2> QED
        BY <2>1, <2>2, <2>3
<1> QED
    BY <1>1 DEF Precedes

\* Entries with numbers of their own are finitely many.
LEMMA EntriesFinite ==
    ASSUME NEW S \in SUBSET Written, OneEach(S)
    PROVE  IsFiniteSet(S)
<1> DEFINE f == [e \in S |-> e.seq]
<1>1. f \in Injection(S, 0 .. MaxSeq)
    <2>1. f \in [S -> 0 .. MaxSeq]
        BY DEF Written
    <2> QED
        BY <2>1 DEF Injection, IsInjective, OneEach
<1>2. IsFiniteSet(0 .. MaxSeq)
    BY FS_Interval, LevelDBAssumption
<1> QED
    BY <1>1, <1>2, FS_Injection

\* The smallest and the largest of some numbers that come with entries.
LEMMA EndKeys ==
    ASSUME NEW S \in SUBSET Written, S # {}, OneEach(S)
    PROVE  /\ \E a \in S : \A e \in S : a.key <= e.key
           /\ \E a \in S : \A e \in S : e.key <= a.key
<1> DEFINE keys == {e.key : e \in S}
           f == [e \in S |-> e.key]
<1>1. keys \in SUBSET Nat /\ keys # {}
    BY OrderOfEntries
<1>2. f \in Surjection(S, keys)
    BY DEF Surjection
<1>3. IsFiniteSet(keys)
    BY <1>2, EntriesFinite, FS_Surjection
<1> HIDE DEF keys
<1>4. (\E i \in keys : \A j \in keys : i <= j) /\ (\E i \in keys : \A j \in keys : j <= i)
    BY <1>1, <1>3, First, FiniteMax
<1> QED
    BY <1>4 DEF keys

\* Of the entries of a key, the one with the smallest and the largest number.
LEMMA EndNumbers ==
    ASSUME NEW S \in SUBSET Written, S # {}, OneEach(S)
    PROVE  /\ \E a \in S : \A e \in S : a.seq <= e.seq
           /\ \E a \in S : \A e \in S : e.seq <= a.seq
<1> DEFINE seqs == {e.seq : e \in S}
<1>1. seqs \in SUBSET Nat /\ seqs # {} /\ seqs \subseteq 0 .. MaxSeq
    BY OrderOfEntries DEF Written
<1>2. IsFiniteSet(seqs)
    <2>1. IsFiniteSet(0 .. MaxSeq)
        BY FS_Interval, LevelDBAssumption
    <2> HIDE DEF seqs
    <2> QED
        BY <1>1, <2>1, FS_Subset
<1> HIDE DEF seqs
<1>3. (\E i \in seqs : \A j \in seqs : i <= j) /\ (\E i \in seqs : \A j \in seqs : j <= i)
    BY <1>1, <1>2, First, FiniteMax
<1> QED
    BY <1>3 DEF seqs

\* The first and the last of some entries.
Ends(S) ==
    /\ Foremost(S) \in S /\ Hindmost(S) \in S
    /\ \A e \in S : e = Foremost(S) \/ Precedes(Foremost(S), e)
    /\ \A e \in S : e = Hindmost(S) \/ Precedes(e, Hindmost(S))

LEMMA EntriesEnd ==
    ASSUME NEW S \in SUBSET Written, S # {}, OneEach(S)
    PROVE  Ends(S)
<1>1. \E a \in S : \A e \in S \ {a} : Precedes(a, e)
    <2>1. PICK b \in S : \A e \in S : b.key <= e.key
        BY EndKeys
    <2> DEFINE T == {e \in S : e.key = b.key}
    <2>2. T \in SUBSET Written /\ T # {} /\ OneEach(T)
        BY DEF OneEach
    <2>3. PICK a \in T : \A e \in T : e.seq <= a.seq
        <3> HIDE DEF T
        <3> QED
            BY <2>2, EndNumbers
    <2>4. ASSUME NEW e \in S \ {a}
          PROVE  Precedes(a, e)
        <3>1. a.key \in Nat /\ e.key \in Nat /\ a.seq \in Nat /\ e.seq \in Nat
            BY OrderOfEntries
        <3>2. a.seq # e.seq
            BY <2>4 DEF OneEach
        <3>3. a.key <= e.key
            BY <2>1
        <3> QED
            BY <2>3, <3>1, <3>2, <3>3 DEF Precedes
    <2> QED
        BY <2>4
<1>2. \E a \in S : \A e \in S \ {a} : Precedes(e, a)
    <2>1. PICK b \in S : \A e \in S : e.key <= b.key
        BY EndKeys
    <2> DEFINE T == {e \in S : e.key = b.key}
    <2>2. T \in SUBSET Written /\ T # {} /\ OneEach(T)
        BY DEF OneEach
    <2>3. PICK a \in T : \A e \in T : a.seq <= e.seq
        <3> HIDE DEF T
        <3> QED
            BY <2>2, EndNumbers
    <2>4. ASSUME NEW e \in S \ {a}
          PROVE  Precedes(e, a)
        <3>1. a.key \in Nat /\ e.key \in Nat /\ a.seq \in Nat /\ e.seq \in Nat
            BY OrderOfEntries
        <3>2. a.seq # e.seq
            BY <2>4 DEF OneEach
        <3>3. e.key <= a.key
            BY <2>1
        <3> QED
            BY <2>3, <3>1, <3>2, <3>3 DEF Precedes
    <2> QED
        BY <2>4
<1>3. Foremost(S) \in S /\ \A e \in S \ {Foremost(S)} : Precedes(Foremost(S), e)
    BY <1>1 DEF Foremost
<1>4. Hindmost(S) \in S /\ \A e \in S \ {Hindmost(S)} : Precedes(e, Hindmost(S))
    BY <1>2 DEF Hindmost
<1> QED
    BY <1>3, <1>4 DEF Ends

\* Files none of which is empty, with entries that have numbers of their own.
Proper(files) ==
    Full(files) /\ AllEntries(files) \subseteq Written /\ OneEach(AllEntries(files))

\* What is to be known of a file.
Bounded(f) ==
    /\ f.ents \subseteq Written /\ Smallest(f) \in f.ents /\ Largest(f) \in f.ents
    /\ \A e \in f.ents : e = Smallest(f) \/ Precedes(Smallest(f), e)
    /\ \A e \in f.ents : e = Largest(f) \/ Precedes(e, Largest(f))
    /\ Smallest(f).key \in Nat /\ Largest(f).key \in Nat
    /\ Smallest(f).key <= Largest(f).key
    /\ \A e \in f.ents : /\ e.key \in Nat
                         /\ Smallest(f).key <= e.key /\ e.key <= Largest(f).key

LEMMA FilesBounded ==
    ASSUME NEW files, Proper(files)
    PROVE  \A f \in files : Bounded(f)
<1> SUFFICES ASSUME NEW f \in files
             PROVE  Bounded(f)
    OBVIOUS
<1>1. f.ents \in SUBSET Written /\ f.ents # {} /\ OneEach(f.ents)
    BY DEF Proper, Full, AllEntries, OneEach
<1>2. Ends(f.ents)
    BY <1>1, EntriesEnd
<1> DEFINE s == Smallest(f)
           l == Largest(f)
<1>3. /\ s \in f.ents /\ l \in f.ents
      /\ \A e \in f.ents : e = s \/ Precedes(s, e)
      /\ \A e \in f.ents : e = l \/ Precedes(e, l)
    BY <1>2 DEF Ends, Smallest, Largest
<1> HIDE DEF s, l
<1>4. \A e \in f.ents : e.key \in Nat /\ s.key <= e.key /\ e.key <= l.key
    <2> SUFFICES ASSUME NEW e \in f.ents
                 PROVE  e.key \in Nat /\ s.key <= e.key /\ e.key <= l.key
        OBVIOUS
    <2>1. e \in Written /\ s \in Written /\ l \in Written
        BY <1>1, <1>3
    <2>2. e.key \in Nat /\ s.key \in Nat /\ l.key \in Nat
        BY <2>1, OrderOfEntries
    <2>3. Precedes(s, e) => s.key <= e.key
        BY <2>1, OrderOfEntries
    <2>4. Precedes(e, l) => e.key <= l.key
        BY <2>1, OrderOfEntries
    <2> QED
        BY <1>3, <2>2, <2>3, <2>4
<1> QED
    BY <1>1, <1>3, <1>4 DEF Bounded, s, l

\* Some of the files are proper too.
LEMMA ProperSome ==
    ASSUME NEW files, Proper(files), NEW some \in SUBSET files
    PROVE  Proper(some)
BY DEF Proper, Full, AllEntries, OneEach

\* The first and the last entry of some files are of one of them.
LEMMA FilesEnd ==
    ASSUME NEW files, Proper(files), files # {}
    PROVE  Ends(AllEntries(files))
<1>1. AllEntries(files) # {}
    BY DEF Proper, Full, AllEntries
<1> QED
    BY <1>1, EntriesEnd DEF Proper

-----------------------------------------------------------------------------
(* What a compaction takes. *)

\* Two files are on either side of each other, or have a key between their ends in common.
Overlap(f, lo, hi) == Smallest(f).key <= hi /\ lo <= Largest(f).key

\* All files are within a range, the ends of which are ends of files.
Spans(files, lo, hi) ==
    /\ lo \in Nat /\ hi \in Nat /\ lo <= hi
    /\ \A f \in files : lo <= Smallest(f).key /\ Largest(f).key <= hi
    /\ \E f \in files : Smallest(f).key = lo
    /\ \E f \in files : Largest(f).key = hi

LEMMA FilesSpan ==
    ASSUME NEW files, Proper(files), files # {}
    PROVE  Spans(files, Foremost(AllEntries(files)).key, Hindmost(AllEntries(files)).key)
<1> DEFINE a == Foremost(AllEntries(files))
           z == Hindmost(AllEntries(files))
<1>1. /\ a \in AllEntries(files) /\ z \in AllEntries(files)
      /\ \A e \in AllEntries(files) : e = a \/ Precedes(a, e)
      /\ \A e \in AllEntries(files) : e = z \/ Precedes(e, z)
    BY FilesEnd DEF Ends
<1> HIDE DEF a, z
<1>2. AllEntries(files) \subseteq Written
    BY DEF Proper
<1>3. \A e \in AllEntries(files) : a.key <= e.key /\ e.key <= z.key /\ e.key \in Nat
    <2> SUFFICES ASSUME NEW e \in AllEntries(files)
                 PROVE  a.key <= e.key /\ e.key <= z.key /\ e.key \in Nat
        OBVIOUS
    <2>1. a \in Written /\ z \in Written /\ e \in Written
        BY <1>1, <1>2
    <2>2. a.key \in Nat /\ z.key \in Nat /\ e.key \in Nat
        BY <2>1, OrderOfEntries
    <2>3. Precedes(a, e) => a.key <= e.key
        BY <2>1, OrderOfEntries
    <2>4. Precedes(e, z) => e.key <= z.key
        BY <2>1, OrderOfEntries
    <2> QED
        BY <1>1, <2>2, <2>3, <2>4
<1>4. \A f \in files : Bounded(f) /\ f.ents \subseteq AllEntries(files)
    BY FilesBounded DEF AllEntries
<1>5. \A f \in files : a.key <= Smallest(f).key /\ Largest(f).key <= z.key
    BY <1>3, <1>4 DEF Bounded
<1>6. \E f \in files : Smallest(f).key = a.key
    <2>1. PICK f \in files : a \in f.ents
        BY <1>1 DEF AllEntries
    <2>2. Smallest(f).key <= a.key /\ Smallest(f).key \in Nat
        BY <1>4, <2>1 DEF Bounded
    <2>3. a.key <= Smallest(f).key /\ a.key \in Nat
        BY <1>1, <1>3, <1>5
    <2> QED
        BY <2>2, <2>3
<1>7. \E f \in files : Largest(f).key = z.key
    <2>1. PICK f \in files : z \in f.ents
        BY <1>1 DEF AllEntries
    <2>2. z.key <= Largest(f).key /\ Largest(f).key \in Nat
        BY <1>4, <2>1 DEF Bounded
    <2>3. Largest(f).key <= z.key /\ z.key \in Nat
        BY <1>1, <1>3, <1>5
    <2> QED
        BY <2>2, <2>3
<1>8. a.key \in Nat /\ z.key \in Nat /\ a.key <= z.key
    BY <1>1, <1>3
<1> QED
    BY <1>5, <1>6, <1>7, <1>8 DEF Spans, a, z

LEMMA JoinedOne ==
    ASSUME NEW f, Bounded(f)
    PROVE  Joined({f})
BY DEF Joined, Covers, Bounded

\* A file that does not cover a key is on one side of it.
LEMMA Aside ==
    ASSUME NEW f, Bounded(f), NEW k \in Nat, ~Covers(f, k)
    PROVE  /\ k < Smallest(f).key \/ Largest(f).key < k
           /\ ~(k < Smallest(f).key /\ Largest(f).key < k)
BY DEF Covers, Bounded

\* Joined files stay joined with files that overlap what they span.
LEMMA JoinedWith ==
    ASSUME NEW J, NEW X, \A f \in J \cup X : Bounded(f), Joined(J),
           NEW lo, NEW hi, Spans(J, lo, hi), \A f \in X : Overlap(f, lo, hi)
    PROVE  Joined(J \cup X)
<1> SUFFICES ASSUME NEW k \in Nat, \A f \in J \cup X : ~Covers(f, k)
             PROVE  \/ \A f \in J \cup X : k < Smallest(f).key
                    \/ \A f \in J \cup X : Largest(f).key < k
    BY DEF Joined
<1>1. \A f \in J \cup X : /\ Smallest(f).key \in Nat /\ Largest(f).key \in Nat
                          /\ k < Smallest(f).key \/ Largest(f).key < k
    BY Aside DEF Bounded
<1>2. lo \in Nat /\ hi \in Nat
    BY DEF Spans
<1>3. CASE \A f \in J : k < Smallest(f).key
    <2>1. k < lo
        BY <1>3 DEF Spans
    <2>2. \A f \in X : k < Smallest(f).key
        BY <1>1, <1>2, <2>1 DEF Overlap
    <2> QED
        BY <1>3, <2>2
<1>4. CASE \A f \in J : Largest(f).key < k
    <2>1. hi < k
        BY <1>4 DEF Spans
    <2>2. \A f \in X : Largest(f).key < k
        BY <1>1, <1>2, <2>1 DEF Overlap
    <2> QED
        BY <1>4, <2>2
<1> QED
    BY <1>3, <1>4 DEF Joined

\* The files that are left out are beyond those that are taken, or before one of them.
Parted(files, taken) ==
    \A h \in files \ taken : \/ Precedes(Hindmost(AllEntries(taken)), Smallest(h))
                             \/ \E f \in taken : Largest(h).key <= Smallest(f).key

\* The files that AddBoundaryInputs adds go on where others end.
LEMMA BoundaryJoined ==
    ASSUME NEW files, NEW taken \in SUBSET files, taken # {}, NEW J,
           Proper(files), \A f \in J : Bounded(f),
           Joined(J \cup taken), Parted(files, taken)
    PROVE  Joined(J \cup AddBoundaryInputs(files, taken))
<1> DEFINE end == Hindmost(AllEntries(taken))
           after == {f \in files \ taken : Precedes(end, Smallest(f))}
           goesOn(f) == \E g \in files : /\ Largest(g).key = Smallest(f).key
                                         /\ Precedes(Largest(g), Smallest(f))
           extra == {f \in after :
                        \A g \in after : Precedes(Smallest(f), Smallest(g)) \/ goesOn(g)}
<1>1. AddBoundaryInputs(files, taken) = taken \cup extra
    BY DEF AddBoundaryInputs
<1>2. \A f \in files : /\ Bounded(f) /\ Smallest(f) \in Written /\ Largest(f) \in Written
                       /\ Smallest(f) \in AllEntries(files)
    BY FilesBounded DEF Bounded, AllEntries
<1>3. end \in Written /\ \A f \in taken : Largest(f).key <= end.key
    <2>1. Proper(taken)
        BY ProperSome
    <2>2. Ends(AllEntries(taken)) /\ Spans(taken, Foremost(AllEntries(taken)).key, end.key)
        BY <2>1, FilesEnd, FilesSpan
    <2> QED
        BY <2>1, <2>2 DEF Ends, Proper, Spans
<1> HIDE DEF end, extra
<1> SUFFICES ASSUME NEW k \in Nat, \A f \in J \cup taken \cup extra : ~Covers(f, k)
             PROVE  \/ \A f \in J \cup taken \cup extra : k < Smallest(f).key
                    \/ \A f \in J \cup taken \cup extra : Largest(f).key < k
    BY <1>1 DEF Joined
<1>4. extra \subseteq files /\ \A f \in extra : Precedes(end, Smallest(f))
    BY DEF extra
<1>5. \A f \in J \cup taken \cup extra :
            /\ Smallest(f).key \in Nat /\ Largest(f).key \in Nat
            /\ k < Smallest(f).key \/ Largest(f).key < k
            /\ ~(k < Smallest(f).key /\ Largest(f).key < k)
    <2> SUFFICES ASSUME NEW f \in J \cup taken \cup extra
                 PROVE  /\ Smallest(f).key \in Nat /\ Largest(f).key \in Nat
                        /\ k < Smallest(f).key \/ Largest(f).key < k
                        /\ ~(k < Smallest(f).key /\ Largest(f).key < k)
        OBVIOUS
    <2>1. Bounded(f)
        BY <1>2, <1>4
    <2> QED
        BY <2>1, Aside DEF Bounded
<1>6. CASE \A f \in J \cup taken : k < Smallest(f).key
    <2>1. k < end.key
        <3>1. PICK f \in taken : TRUE
            OBVIOUS
        <3>2. k < Smallest(f).key /\ Smallest(f).key <= Largest(f).key /\ Largest(f).key <= end.key
            BY <1>2, <1>3, <1>6 DEF Bounded
        <3>3. end.key \in Nat /\ Smallest(f).key \in Nat /\ Largest(f).key \in Nat
            BY <1>3, <1>5, OrderOfEntries
        <3> QED
            BY <3>2, <3>3
    <2>2. \A f \in extra : k < Smallest(f).key
        <3> SUFFICES ASSUME NEW f \in extra PROVE k < Smallest(f).key
            OBVIOUS
        <3>1. Smallest(f) \in Written /\ Precedes(end, Smallest(f))
            BY <1>2, <1>4
        <3>2. end.key <= Smallest(f).key /\ end.key \in Nat /\ Smallest(f).key \in Nat
            BY <1>3, <3>1, OrderOfEntries
        <3> QED
            BY <2>1, <3>2
    <2> QED
        BY <1>6, <2>2
<1>7. CASE \A f \in J \cup taken : Largest(f).key < k
    <2> DEFINE beyond == {f \in extra : k < Smallest(f).key}
    <2>1. SUFFICES ASSUME beyond # {} PROVE FALSE
        BY <1>5, <1>7
    <2>2. PICK f \in beyond : \A g \in beyond : Smallest(f) = Smallest(g) \/ Precedes(Smallest(f), Smallest(g))
        <3> DEFINE S == {Smallest(g) : g \in beyond}
        <3>1. S \in SUBSET AllEntries(files) /\ S # {}
            BY <1>2, <1>4, <2>1
        <3>2. S \in SUBSET Written /\ OneEach(S)
            BY <3>1 DEF Proper, OneEach
        <3> HIDE DEF S
        <3>3. Foremost(S) \in S /\ \A e \in S : e = Foremost(S) \/ Precedes(Foremost(S), e)
            BY <3>1, <3>2, EntriesEnd DEF Ends
        <3> QED
            BY <3>3 DEF S
    <2>3. f \in extra /\ k < Smallest(f).key /\ f \in after
        BY DEF extra
    <2>4. goesOn(f)
        <3>1. Smallest(f) \in Written
            BY <1>2, <1>4, <2>3
        <3>2. ~Precedes(Smallest(f), Smallest(f))
            BY <3>1, OrderOfEntries
        <3> QED
            BY <2>3, <3>2 DEF extra
    <2>5. PICK h \in files : /\ Largest(h).key = Smallest(f).key
                             /\ Precedes(Largest(h), Smallest(f))
        BY <2>4
    <2>6. /\ Smallest(h) \in Written /\ Largest(h) \in Written /\ Smallest(f) \in Written
          /\ Smallest(h).key \in Nat /\ Largest(h).key \in Nat
        BY <1>2, <1>4, <2>3 DEF Bounded
    <2>7. k < Largest(h).key
        BY <2>3, <2>5
    <2>8. Precedes(Smallest(h), Smallest(f))
        <3>1. Smallest(h) = Largest(h) \/ Precedes(Smallest(h), Largest(h))
            BY <1>2 DEF Bounded
        <3> QED
            BY <2>5, <2>6, <3>1, OrderOfEntries
    <2>9. h \notin taken
        <3> SUFFICES ASSUME h \in taken PROVE FALSE
            OBVIOUS
        <3>1. Largest(h).key < k
            BY <1>7
        <3> QED
            BY <2>6, <2>7, <3>1
    <2>10. CASE Precedes(end, Smallest(h))
        <3>1. h \in after
            BY <2>9, <2>10
        <3>2. \A g \in after : Precedes(Smallest(h), Smallest(g)) \/ goesOn(g)
            <4> SUFFICES ASSUME NEW g \in after, ~Precedes(Smallest(h), Smallest(g))
                         PROVE  goesOn(g)
                OBVIOUS
            <4>1. Smallest(g) \in Written
                BY <1>2
            <4>2. ~Precedes(Smallest(f), Smallest(g))
                BY <2>6, <2>8, <4>1, OrderOfEntries
            <4> QED
                BY <2>3, <4>2 DEF extra
        <3>3. h \in extra
            BY <3>1, <3>2 DEF extra
        <3>4. h \in beyond
            BY <1>5, <2>6, <2>7, <3>3
        <3>5. Smallest(f) = Smallest(h) \/ Precedes(Smallest(f), Smallest(h))
            BY <2>2, <3>4
        <3> QED
            BY <2>6, <2>8, <3>5, OrderOfEntries
    <2>11. CASE \E g \in taken : Largest(h).key <= Smallest(g).key
        <3>1. PICK g \in taken : Largest(h).key <= Smallest(g).key
            BY <2>11
        <3>2. Largest(g).key < k /\ Bounded(g)
            BY <1>2, <1>7
        <3> QED
            BY <2>6, <2>7, <3>1, <3>2 DEF Bounded
    <2> QED
        BY <2>9, <2>10, <2>11 DEF Parted, end
<1> QED
    BY <1>6, <1>7 DEF Joined

\* The range that is wide enough on level 0: the least one that no file goes beyond.
ClosedRange(files, b, e) ==
    \A f \in Overlapping(files, b, e) : b <= Smallest(f).key /\ Largest(f).key <= e
Ranges(files, lo, hi) ==
    {r \in Key \X Key : r[1] <= lo /\ hi <= r[2] /\ ClosedRange(files, r[1], r[2])}

LEMMA LeastRange ==
    ASSUME NEW files, IsFiniteSet(files), \A f \in files : Bounded(f),
           NEW lo \in Key, NEW hi \in Key, lo <= hi
    PROVE  \E r \in Ranges(files, lo, hi) :
                \A q \in Ranges(files, lo, hi) : q[1] <= r[1] /\ r[2] <= q[2]
<1> DEFINE R == Ranges(files, lo, hi)
<1>1. Key \subseteq Nat
    BY VersionSetAssumption
<1>2. \A f \in files : /\ Smallest(f).key \in Key /\ Largest(f).key \in Key
                       /\ Smallest(f).key <= Largest(f).key
    BY DEF Bounded, Written
<1>3. R # {}
    <2> DEFINE S == {Smallest(f).key : f \in files} \cup {lo}
               L == {Largest(f).key : f \in files} \cup {hi}
    <2>1. S \in SUBSET Key /\ L \in SUBSET Key /\ S # {} /\ L # {}
        BY <1>2
    <2>2. IsFiniteSet(L)
        <3> DEFINE g == [f \in files |-> Largest(f).key]
        <3>1. g \in Surjection(files, {Largest(f).key : f \in files})
            BY DEF Surjection
        <3>2. IsFiniteSet({Largest(f).key : f \in files})
            BY <3>1, FS_Surjection
        <3> QED
            BY <3>2, FS_AddElement
    <2>3. lo \in S /\ hi \in L
          /\ \A f \in files : Smallest(f).key \in S /\ Largest(f).key \in L
        OBVIOUS
    <2> HIDE DEF S, L
    <2>4. PICK b \in S : \A j \in S : b <= j
        BY <1>1, <2>1, First
    <2>5. PICK e \in L : \A j \in L : j <= e
        BY <1>1, <2>1, <2>2, FiniteMax
    <2>6. <<b, e>> \in R
        <3>1. b \in Key /\ e \in Key /\ b <= lo /\ hi <= e
            BY <2>1, <2>3, <2>4, <2>5
        <3>2. ClosedRange(files, b, e)
            BY <2>3, <2>4, <2>5 DEF ClosedRange, Overlapping
        <3> QED
            BY <3>1, <3>2 DEF Ranges
    <2> QED
        BY <2>6
<1>4. \A r \in R : /\ r[1] \in Key /\ r[2] \in Key /\ r[1] <= lo /\ hi <= r[2]
                   /\ ClosedRange(files, r[1], r[2]) /\ r = <<r[1], r[2]>>
    BY DEF Ranges
<1>5. PICK r \in R : \A q \in R : q[1] <= r[1]
    <2> DEFINE S == {q[1] : q \in R}
    <2>1. S \in SUBSET Nat /\ S # {} /\ \A j \in S : j <= lo
        BY <1>1, <1>3, <1>4
    <2>2. IsFiniteSet(S)
        <3> HIDE DEF S
        <3> QED
            BY <1>1, <2>1, FS_BoundedSetOfNaturals
    <2>3. \E i \in S : \A j \in S : j <= i
        <3> HIDE DEF S
        <3> QED
            BY <2>1, <2>2, FiniteMax
    <2> HIDE DEF R
    <2> QED
        BY <2>3
<1>6. PICK s \in R : \A q \in R : s[2] <= q[2]
    <2> DEFINE S == {q[2] : q \in R}
    <2>1. S \in SUBSET Nat /\ S # {}
        BY <1>1, <1>3, <1>4
    <2>3. \E i \in S : \A j \in S : i <= j
        <3> HIDE DEF S
        <3> QED
            BY <2>1, First
    <2> HIDE DEF R
    <2> QED
        BY <2>3
<1> DEFINE b == r[1]
           e == s[2]
<1>7. b \in Key /\ e \in Key /\ b <= lo /\ hi <= e
      /\ ClosedRange(files, r[1], r[2]) /\ ClosedRange(files, s[1], s[2])
      /\ r[2] \in Key /\ s[1] \in Key /\ s[1] <= b /\ e <= r[2]
    BY <1>4, <1>5, <1>6
<1> HIDE DEF b, e
<1>8. ClosedRange(files, b, e)
    <2> SUFFICES ASSUME NEW f \in Overlapping(files, b, e)
                 PROVE  b <= Smallest(f).key /\ Largest(f).key <= e
        BY DEF ClosedRange
    <2>1. f \in files /\ Smallest(f).key <= e /\ b <= Largest(f).key
        BY DEF Overlapping
    <2>2. b \in Nat /\ e \in Nat /\ r[2] \in Nat /\ s[1] \in Nat
          /\ Smallest(f).key \in Nat /\ Largest(f).key \in Nat
        BY <1>1, <1>2, <1>7, <2>1
    <2>3. Smallest(f).key <= r[2] /\ s[1] <= Largest(f).key
        BY <1>7, <2>1, <2>2
    <2>4. f \in Overlapping(files, r[1], r[2]) /\ f \in Overlapping(files, s[1], s[2])
        BY <2>1, <2>3 DEF Overlapping, b, e
    <2> QED
        BY <1>7, <2>4 DEF ClosedRange, b, e
<1>9. <<b, e>> \in R
    BY <1>7, <1>8 DEF Ranges
<1>10. \A q \in R : q[1] <= b /\ e <= q[2]
    BY <1>5, <1>6 DEF b, e
<1> QED
    BY <1>9, <1>10

\* What is taken of a level for the keys from lo to hi: all that overlaps them, on level 0
\* with what overlaps that. The files J, which cover lo to hi, stay joined with it.
Taken(files, taken, lo, hi) ==
    /\ taken \subseteq files
    /\ \A f \in files : Overlap(f, lo, hi) => f \in taken
    /\ taken # {} => Parted(files, taken)

\* On a level where files do not overlap, any of them are parted from the rest.
LEMMA PartedBelow ==
    ASSUME NEW files, Proper(files), Disjoint(files), NEW X \in SUBSET files, X # {}
    PROVE  Parted(files, X)
<1>0. \A f \in files : Bounded(f)
    BY FilesBounded
<1>1. Proper(X)
    BY ProperSome
<1>2. Hindmost(AllEntries(X)) \in AllEntries(X)
      /\ \A e \in AllEntries(X) : e = Hindmost(AllEntries(X)) \/ Precedes(e, Hindmost(AllEntries(X)))
    BY <1>1, FilesEnd DEF Ends
<1> DEFINE end == Hindmost(AllEntries(X))
<1>3. PICK g \in X : end \in g.ents
    BY <1>2 DEF AllEntries
<1>4. Largest(g) \in AllEntries(X) /\ Bounded(g)
    BY <1>0 DEF Bounded, AllEntries
<1>5. end = Largest(g)
    <2>1. end = Largest(g) \/ Precedes(end, Largest(g))
        BY <1>3, <1>4 DEF Bounded
    <2>2. end = Largest(g) \/ Precedes(Largest(g), end)
        BY <1>2, <1>4
    <2>3. end \in Written /\ Largest(g) \in Written
        BY <1>3, <1>4 DEF Bounded
    <2> HIDE DEF end
    <2> QED
        BY <2>1, <2>2, <2>3, OrderOfEntries
<1> SUFFICES ASSUME NEW h \in files \ X
             PROVE  \/ Precedes(end, Smallest(h))
                    \/ \E f \in X : Largest(h).key <= Smallest(f).key
    BY DEF Parted
<1>6. Apart(h, g)
    BY DEF Disjoint
<1>7. CASE Precedes(Largest(g), Smallest(h))
    BY <1>5, <1>7
<1>8. CASE Precedes(Largest(h), Smallest(g))
    <2>1. Largest(h) \in Written /\ Smallest(g) \in Written
        BY <1>0, <1>4 DEF Bounded
    <2>2. Largest(h).key <= Smallest(g).key
        BY <1>8, <2>1, OrderOfEntries
    <2> QED
        BY <2>2
<1> QED
    BY <1>6, <1>7, <1>8 DEF Apart

LEMMA TakenBelow ==
    ASSUME NEW v, NEW l \in Level \ {0}, Proper(v[l]), Disjoint(v[l]),
           NEW J, \A f \in J : Bounded(f), Joined(J), NEW lo, NEW hi, Spans(J, lo, hi)
    PROVE  /\ Taken(v[l], GetOverlappingInputs(v, l, lo, hi), lo, hi)
           /\ Joined(J \cup GetOverlappingInputs(v, l, lo, hi))
<1>1. GetOverlappingInputs(v, l, lo, hi) = {f \in v[l] : Overlap(f, lo, hi)}
    BY DEF GetOverlappingInputs, Overlapping, Overlap
<1> DEFINE X == {f \in v[l] : Overlap(f, lo, hi)}
<1>2. \A f \in v[l] : Bounded(f)
    BY FilesBounded
<1>3. Joined(J \cup X)
    BY <1>2, JoinedWith
<1>4. X # {} => Parted(v[l], X)
    BY PartedBelow
<1> QED
    BY <1>1, <1>3, <1>4 DEF Taken

LEMMA TakenOnTop ==
    ASSUME NEW v, 0 \in Level, Proper(v[0]), IsFiniteSet(v[0]),
           NEW J, \A f \in J : Bounded(f), Joined(J), NEW lo \in Key, NEW hi \in Key,
           Spans(J, lo, hi)
    PROVE  /\ Taken(v[0], GetOverlappingInputs(v, 0, lo, hi), lo, hi)
           /\ Joined(J \cup GetOverlappingInputs(v, 0, lo, hi))
<1> DEFINE R == Ranges(v[0], lo, hi)
           least == CHOOSE r \in R : \A q \in R : q[1] <= r[1] /\ r[2] <= q[2]
           b == least[1]
           e == least[2]
           X == GetOverlappingInputs(v, 0, lo, hi)
<1>1. X = Overlapping(v[0], b, e)
    BY DEF GetOverlappingInputs, Ranges, ClosedRange
<1>2. \A f \in v[0] : Bounded(f)
    BY FilesBounded
<1>3. lo \in Nat /\ hi \in Nat /\ lo <= hi /\ Key \subseteq Nat
    BY VersionSetAssumption DEF Spans
<1>4. least \in R /\ \A q \in R : q[1] <= b /\ e <= q[2]
    <2>1. \E r \in R : \A q \in R : q[1] <= r[1] /\ r[2] <= q[2]
        BY <1>2, <1>3, LeastRange
    <2> HIDE DEF R
    <2> QED
        BY <2>1
<1> HIDE DEF X, least
<1>5. b \in Key /\ e \in Key /\ b <= lo /\ hi <= e /\ ClosedRange(v[0], b, e)
    BY <1>4 DEF Ranges
<1> HIDE DEF b, e
<1>6. b \in Nat /\ e \in Nat
    BY <1>3, <1>5
<1>7. \A f \in v[0] : /\ f \in X <=> Overlap(f, b, e)
                      /\ Smallest(f).key \in Nat /\ Largest(f).key \in Nat
                      /\ Smallest(f).key <= Largest(f).key
    BY <1>1, <1>2 DEF Overlapping, Overlap, Bounded
<1>8. X \subseteq v[0] /\ \A f \in X : b <= Smallest(f).key /\ Largest(f).key <= e
    BY <1>1, <1>5 DEF Overlapping, ClosedRange
<1>9. \A f \in v[0] : Overlap(f, lo, hi) => f \in X
    BY <1>3, <1>5, <1>6, <1>7 DEF Overlap
<1>10. ASSUME X # {} PROVE Parted(v[0], X)
    <2>1. Proper(X)
        BY <1>8, ProperSome
    <2> DEFINE end == Hindmost(AllEntries(X))
    <2>2. end \in AllEntries(X)
        BY <1>10, <2>1, FilesEnd DEF Ends
    <2>3. PICK g \in X : end \in g.ents
        BY <2>2 DEF AllEntries
    <2>4. end \in Written /\ end.key \in Nat /\ end.key <= e
        <3>1. Bounded(g)
            BY <1>2, <1>8
        <3>2. end \in Written /\ end.key \in Nat /\ end.key <= Largest(g).key /\ Largest(g).key \in Nat
            BY <2>3, <3>1 DEF Bounded
        <3>3. Largest(g).key <= e
            BY <1>8
        <3> HIDE DEF end
        <3> QED
            BY <1>6, <3>2, <3>3
    <2> HIDE DEF end
    <2> SUFFICES ASSUME NEW h \in v[0] \ X
                 PROVE  \/ Precedes(end, Smallest(h))
                        \/ \E f \in X : Largest(h).key <= Smallest(f).key
        BY DEF Parted, end
    <2>5. e < Smallest(h).key \/ Largest(h).key < b
        BY <1>6, <1>7 DEF Overlap
    <2>6. CASE e < Smallest(h).key
        <3>1. end.key < Smallest(h).key
            BY <1>6, <1>7, <2>4, <2>6
        <3>2. Smallest(h) \in Written
            BY <1>2 DEF Bounded
        <3> QED
            BY <2>4, <3>1, <3>2, OrderOfEntries
    <2>7. CASE Largest(h).key < b
        <3>1. b <= Smallest(g).key /\ g \in v[0]
            BY <1>8
        <3>2. Largest(h).key <= Smallest(g).key
            BY <1>6, <1>7, <2>7, <3>1
        <3> QED
            BY <3>2
    <2> QED
        BY <2>5, <2>6, <2>7
<1>11. Joined(J \cup X)
    <2> SUFFICES ASSUME NEW k \in Nat, \A f \in J \cup X : ~Covers(f, k)
                 PROVE  \/ \A f \in J \cup X : k < Smallest(f).key
                        \/ \A f \in J \cup X : Largest(f).key < k
        BY DEF Joined
    <2>1. \A f \in J \cup X : /\ Smallest(f).key \in Nat /\ Largest(f).key \in Nat
                              /\ k < Smallest(f).key \/ Largest(f).key < k
        BY <1>2, <1>8, Aside DEF Bounded
    <2>2. CASE \A f \in J : k < Smallest(f).key
        <3>1. k < lo
            BY <2>2 DEF Spans
        <3> SUFFICES ASSUME NEW x \in X, ~(k < Smallest(x).key)
                     PROVE  FALSE
            BY <2>2
        <3>2. Largest(x).key < k /\ b <= Smallest(x).key /\ x \in v[0]
            BY <1>8, <2>1
        <3>3. b < k
            BY <1>6, <1>7, <3>2
        <3> DEFINE S == {Smallest(f).key : f \in {g \in X : k < Smallest(g).key}} \cup {lo}
        <3>4. S \in SUBSET Key /\ S # {} /\ \A j \in S : k < j
            BY <1>2, <1>8, <3>1 DEF Bounded, Written
        <3>5. lo \in S /\ \A f \in X : k < Smallest(f).key => Smallest(f).key \in S
            OBVIOUS
        <3> HIDE DEF S
        <3>6. PICK c \in S : \A j \in S : c <= j
            BY <1>3, <3>4, First
        <3>7. c \in Key /\ c \in Nat /\ k < c /\ c <= lo
            BY <1>3, <3>4, <3>5, <3>6
        <3>8. ClosedRange(v[0], c, e)
            <4> SUFFICES ASSUME NEW f \in Overlapping(v[0], c, e)
                         PROVE  c <= Smallest(f).key /\ Largest(f).key <= e
                BY DEF ClosedRange
            <4>1. f \in v[0] /\ Smallest(f).key <= e /\ c <= Largest(f).key
                BY DEF Overlapping
            <4>2. f \in X
                BY <1>6, <1>7, <3>3, <3>7, <4>1 DEF Overlap
            <4>3. k < Smallest(f).key
                BY <1>7, <2>1, <3>7, <4>1, <4>2
            <4> QED
                BY <1>8, <3>5, <3>6, <4>2, <4>3
        <3>9. <<c, e>> \in R
            BY <1>5, <3>7, <3>8 DEF Ranges
        <3>10. c <= b
            <4> HIDE DEF R
            <4>1. <<c, e>>[1] <= b
                BY <1>4, <3>9
            <4> QED
                BY <4>1
        <3> QED
            BY <1>6, <3>3, <3>7, <3>10
    <2>3. CASE \A f \in J : Largest(f).key < k
        <3>1. hi < k
            BY <2>3 DEF Spans
        <3> SUFFICES ASSUME NEW x \in X, ~(Largest(x).key < k)
                     PROVE  FALSE
            BY <2>3
        <3>2. k < Smallest(x).key /\ Largest(x).key <= e /\ x \in v[0]
            BY <1>8, <2>1
        <3>3. k < e
            BY <1>6, <1>7, <3>2
        <3> DEFINE S == {Largest(f).key : f \in {g \in X : Largest(g).key < k}} \cup {hi}
        <3>4. S \in SUBSET Key /\ S # {} /\ \A j \in S : j < k
            BY <1>2, <1>8, <3>1 DEF Bounded, Written
        <3>5. hi \in S /\ \A f \in X : Largest(f).key < k => Largest(f).key \in S
            OBVIOUS
        <3> HIDE DEF S
        <3>6. PICK c \in S : \A j \in S : j <= c
            <4>1. S \in SUBSET Nat /\ \A j \in S : j <= k
                BY <1>3, <3>4
            <4>2. IsFiniteSet(S)
                BY <4>1, FS_BoundedSetOfNaturals
            <4> QED
                BY <3>4, <4>1, <4>2, FiniteMax
        <3>7. c \in Key /\ c \in Nat /\ c < k /\ hi <= c
            BY <1>3, <3>4, <3>5, <3>6
        <3>8. ClosedRange(v[0], b, c)
            <4> SUFFICES ASSUME NEW f \in Overlapping(v[0], b, c)
                         PROVE  b <= Smallest(f).key /\ Largest(f).key <= c
                BY DEF ClosedRange
            <4>1. f \in v[0] /\ Smallest(f).key <= c /\ b <= Largest(f).key
                BY DEF Overlapping
            <4>2. f \in X
                BY <1>6, <1>7, <3>3, <3>7, <4>1 DEF Overlap
            <4>3. Largest(f).key < k
                BY <1>7, <2>1, <3>7, <4>1, <4>2
            <4> QED
                BY <1>8, <3>5, <3>6, <4>2, <4>3
        <3>9. <<b, c>> \in R
            BY <1>5, <3>7, <3>8 DEF Ranges
        <3>10. e <= c
            <4> HIDE DEF R
            <4>1. e <= <<b, c>>[2]
                BY <1>4, <3>9
            <4> QED
                BY <4>1
        <3> QED
            BY <1>6, <3>3, <3>7, <3>10
    <2> QED
        BY <2>2, <2>3 DEF Joined
<1> QED
    BY <1>8, <1>9, <1>10, <1>11 DEF Taken, X

\* A version in order: every file has entries, with numbers of their own, and those of a
\* level but the first do not overlap.
Orderly(v) ==
    /\ TypedVersion(v) /\ FilesFinite(v) /\ OneEach(VersionEntries(v))
    /\ \A l \in Level : Full(v[l])
    /\ Leveled(v)

LEMMA LevelsProper ==
    ASSUME NEW v, Orderly(v), NEW S \in SUBSET UNION {v[l] : l \in Level}
    PROVE  Proper(S) /\ \A f \in S : Bounded(f)
<1>1. \A f \in S : f.ents # {} /\ f.ents \subseteq VersionEntries(v)
    BY DEF VersionEntries, AllEntries, Orderly, Full
<1>2. \A f \in S : f.ents \subseteq Written
    BY DEF Orderly, TypedVersion, File
<1>3. AllEntries(S) \subseteq Written /\ AllEntries(S) \subseteq VersionEntries(v)
    BY <1>1, <1>2 DEF AllEntries
<1>4. Proper(S)
    BY <1>1, <1>3 DEF Proper, Full, Orderly, OneEach
<1> QED
    BY <1>4, FilesBounded

LEMMA LowerLevels == ASSUME NEW l \in Lower PROVE l \in Level /\ l + 1 \in Level \ {0} /\ 0 \in Level
BY VersionSetAssumption DEF Lower, Level

\* What is taken of a level, whichever it is.
LEMMA TakenJoined ==
    ASSUME NEW v, Orderly(v), NEW l \in Level,
           NEW J, \A f \in J : Bounded(f), Joined(J), NEW lo \in Key, NEW hi \in Key,
           Spans(J, lo, hi)
    PROVE  /\ Taken(v[l], GetOverlappingInputs(v, l, lo, hi), lo, hi)
           /\ Joined(J \cup GetOverlappingInputs(v, l, lo, hi))
<1>1. Proper(v[l])
    BY LevelsProper
<1>2. IsFiniteSet(v[l]) /\ (l # 0 => Disjoint(v[l]))
    BY DEF Orderly, FilesFinite, Leveled
<1>3. CASE l = 0
    BY <1>1, <1>2, <1>3, TakenOnTop
<1>4. CASE l # 0
    BY <1>1, <1>2, <1>4, TakenBelow
<1> QED
    BY <1>3, <1>4

\* The files that are picked are joined, and parted from the rest of the level.
LEMMA PickedJoined ==
    ASSUME NEW v, Orderly(v), NEW l \in Level, NEW f \in v[l]
    PROVE  /\ Picked(v, l, f) \subseteq v[l] /\ Picked(v, l, f) # {}
           /\ Joined(Picked(v, l, f)) /\ Parted(v[l], Picked(v, l, f))
<1>1. Proper(v[l]) /\ Bounded(f) /\ Proper({f})
    BY LevelsProper
<1>2. Joined({f})
    BY <1>1, JoinedOne
<1>3. CASE l = 0
    <2> DEFINE lo == Smallest(f).key
               hi == Largest(f).key
               X == GetOverlappingInputs(v, 0, lo, hi)
    <2>1. Picked(v, l, f) = X
        BY <1>3 DEF Picked
    <2>2. lo \in Key /\ hi \in Key
        BY <1>1 DEF Bounded, Written
    <2>3. Spans({f}, lo, hi) /\ Overlap(f, lo, hi)
        BY <1>1 DEF Spans, Bounded, Overlap
    <2>4. \A g \in {f} : Bounded(g)
        BY <1>1
    <2>5. Taken(v[0], X, lo, hi) /\ Joined({f} \cup X)
        BY <1>2, <1>3, <2>2, <2>3, <2>4, TakenJoined
    <2> HIDE DEF X, lo, hi
    <2>6. f \in X /\ X \subseteq v[0]
        BY <1>3, <2>3, <2>5 DEF Taken
    <2>7. {f} \cup X = X
        BY <2>6
    <2> QED
        BY <1>3, <2>1, <2>5, <2>6, <2>7 DEF Taken
<1>4. CASE l # 0
    <2>1. Picked(v, l, f) = {f}
        BY <1>4 DEF Picked
    <2>2. Parted(v[l], {f})
        BY <1>1, <1>4, PartedBelow DEF Orderly, Leveled
    <2> QED
        BY <1>2, <2>1, <2>2
<1> QED
    BY <1>3, <1>4

\* The inputs of a compaction are joined; those of the second level are all that overlap
\* those of the first.
LEMMA InputsJoined ==
    ASSUME NEW v, Orderly(v), NEW l \in Lower, NEW f \in v[l],
           NEW inputs \in SetupOtherInputs(v, l, Picked(v, l, f))
    PROVE  /\ inputs[1] \subseteq v[l] /\ inputs[1] # {}
           /\ inputs[2] = OverlappingInputs(v, l + 1, inputs[1])
           /\ Joined(inputs[1] \cup inputs[2])
<1> DEFINE P == Picked(v, l, f)
           i == AddBoundaryInputs(v[l], P)
           o == OverlappingInputs(v, l + 1, i)
           g == Grown(v, l, i \cup o)
           lo == Foremost(AllEntries(i \cup o)).key
           hi == Hindmost(AllEntries(i \cup o)).key
           G == GetOverlappingInputs(v, l, lo, hi)
<1>0. l \in Level /\ l + 1 \in Level
    BY LowerLevels
<1>1. P \subseteq v[l] /\ P # {} /\ Joined(P) /\ Parted(v[l], P)
    BY <1>0, PickedJoined
<1>2. \A S : S \subseteq AddBoundaryInputs(v[l], S) /\ AddBoundaryInputs(v[l], S) \subseteq v[l] \cup S
    BY DEF AddBoundaryInputs
<1>3. \/ inputs = <<i, o>>
      \/ inputs = <<g, o>> /\ Cardinality(OverlappingInputs(v, l + 1, g)) = Cardinality(o)
    <2> DEFINE pairs == {<<j, OverlappingInputs(v, l + 1, j)>> : j \in {AddBoundaryInputs(v[l], P)}}
    <2>1. PICK both \in pairs :
            \/ inputs = both
            \/ \E h : /\ h = Grown(v, l, both[1] \cup both[2]) /\ inputs = <<h, both[2]>>
                     /\ Cardinality(OverlappingInputs(v, l + 1, h)) = Cardinality(both[2])
        BY DEF SetupOtherInputs
    <2>2. both = <<i, o>>
        BY <2>1
    <2>3. both[1] = i /\ both[2] = o
        BY <2>2
    <2> HIDE DEF i, o, pairs
    <2> QED
        BY <2>1, <2>2, <2>3
<1>4. \A S : OverlappingInputs(v, l + 1, S) \subseteq v[l + 1]
    BY DEF OverlappingInputs, Overlapping
<1> HIDE DEF P
<1>5. i \subseteq v[l] /\ i # {} /\ P \subseteq i
    BY <1>1, <1>2
<1>6. Joined(i)
    <2>1. {} \cup P = P /\ {} \cup i = i
        OBVIOUS
    <2>2. Proper(v[l])
        BY <1>0, LevelsProper
    <2>3. Joined({} \cup i)
        BY <1>1, <2>1, <2>2, BoundaryJoined
    <2> QED
        BY <2>1, <2>3
<1> HIDE DEF i
<1>7. Proper(i) /\ Proper(i \cup o) /\ \A h \in i \cup o : Bounded(h)
    <2>1. i \cup o \subseteq UNION {v[m] : m \in Level}
        BY <1>0, <1>4, <1>5
    <2> QED
        BY <2>1, LevelsProper
<1>8. Joined(i \cup o)
    <2>1. Spans(i, Foremost(AllEntries(i)).key, Hindmost(AllEntries(i)).key)
        BY <1>5, <1>7, FilesSpan
    <2>2. \A h \in o : Overlap(h, Foremost(AllEntries(i)).key, Hindmost(AllEntries(i)).key)
        BY DEF OverlappingInputs, Overlapping, Overlap
    <2> QED
        BY <1>6, <1>7, <2>1, <2>2, JoinedWith
<1>9. CASE inputs = <<i, o>>
    <2>1. inputs[1] = i /\ inputs[2] = o
        BY <1>9
    <2> QED
        BY <1>5, <1>8, <2>1
<1>10. CASE inputs = <<g, o>> /\ Cardinality(OverlappingInputs(v, l + 1, g)) = Cardinality(o)
    <2>1. g = AddBoundaryInputs(v[l], G)
        BY DEF Grown
    <2>2. Spans(i \cup o, lo, hi) /\ i \cup o # {}
        BY <1>5, <1>7, FilesSpan
    <2>3. lo \in Key /\ hi \in Key
        <3>1. Ends(AllEntries(i \cup o)) /\ AllEntries(i \cup o) \subseteq Written
            BY <1>7, <2>2, FilesEnd DEF Proper
        <3> QED
            BY <3>1 DEF Ends, Written
    <2> HIDE DEF lo, hi, o
    <2>4. Taken(v[l], G, lo, hi) /\ Joined((i \cup o) \cup G)
        BY <1>0, <1>7, <1>8, <2>2, <2>3, TakenJoined
    <2> HIDE DEF G, g
    <2>5. i \subseteq G /\ G \subseteq v[l]
        <3>1. \A h \in i : Overlap(h, lo, hi)
            BY <1>7, <2>2 DEF Spans, Overlap, Bounded
        <3> QED
            BY <1>5, <2>4, <3>1 DEF Taken
    <2>6. (i \cup o) \cup G = o \cup G /\ G # {}
        BY <1>5, <2>5
    <2>7. Joined(o \cup g)
        <3>1. Proper(v[l])
            BY <1>0, LevelsProper
        <3>2. Parted(v[l], G) /\ Joined(o \cup G)
            BY <2>4, <2>6 DEF Taken
        <3>3. \A h \in o : Bounded(h)
            BY <1>7
        <3> QED
            BY <2>1, <2>5, <2>6, <3>1, <3>2, <3>3, BoundaryJoined
    <2>8. g \subseteq v[l] /\ i \subseteq g /\ g # {}
        BY <1>2, <1>5, <2>1, <2>5
    <2>9. o \subseteq OverlappingInputs(v, l + 1, g)
        <3>1. Spans(i, Foremost(AllEntries(i)).key, Hindmost(AllEntries(i)).key)
            BY <1>5, <1>7, FilesSpan
        <3>2. Proper(g) /\ \A h \in v[l + 1] : Bounded(h)
            <4>1. g \subseteq UNION {v[m] : m \in Level} /\ v[l + 1] \subseteq UNION {v[m] : m \in Level}
                BY <1>0, <2>8
            <4> QED
                BY <4>1, LevelsProper
        <3>3. Spans(g, Foremost(AllEntries(g)).key, Hindmost(AllEntries(g)).key)
            BY <2>8, <3>2, FilesSpan
        <3> DEFINE a == Foremost(AllEntries(i)).key
                   z == Hindmost(AllEntries(i)).key
                   b == Foremost(AllEntries(g)).key
                   y == Hindmost(AllEntries(g)).key
        <3>5. o = Overlapping(v[l + 1], a, z) /\ OverlappingInputs(v, l + 1, g) = Overlapping(v[l + 1], b, y)
            BY DEF OverlappingInputs, o
        <3>6. Spans(i, a, z) /\ Spans(g, b, y)
            BY <3>1, <3>3
        <3> HIDE DEF a, z, b, y
        <3>4. b <= a /\ z <= y /\ a \in Nat /\ z \in Nat /\ b \in Nat /\ y \in Nat
            BY <2>8, <3>6 DEF Spans
        <3>7. \A h \in Overlapping(v[l + 1], a, z) : h \in Overlapping(v[l + 1], b, y)
            <4> SUFFICES ASSUME NEW h \in v[l + 1], Smallest(h).key <= z, a <= Largest(h).key
                         PROVE  Smallest(h).key <= y /\ b <= Largest(h).key
                BY DEF Overlapping
            <4>1. Smallest(h).key \in Nat /\ Largest(h).key \in Nat
                BY <3>2 DEF Bounded
            <4> QED
                BY <3>4, <4>1
        <3> QED
            BY <3>5, <3>7
    <2>10. o = OverlappingInputs(v, l + 1, g)
        <3>1. IsFiniteSet(v[l + 1])
            BY <1>0 DEF Orderly, FilesFinite
        <3>2. IsFiniteSet(OverlappingInputs(v, l + 1, g))
            BY <1>4, <3>1, FS_Subset
        <3> QED
            BY <1>10, <2>9, <3>2, FS_Subset
    <2>11. inputs[1] = g /\ inputs[2] = o /\ o \cup g = g \cup o
        BY <1>10
    <2> QED
        BY <2>7, <2>8, <2>10, <2>11
<1> QED
    BY <1>3, <1>9, <1>10

\* No other file of the second level is in the range of the entries that are merged.
LEMMA InputsBeside ==
    ASSUME NEW v, Orderly(v), NEW l \in Lower, NEW S \in SUBSET v[l], S # {},
           NEW h \in v[l + 1] \ OverlappingInputs(v, l + 1, S)
    PROVE  Beside(h, AllEntries(S \cup OverlappingInputs(v, l + 1, S)))
<1> DEFINE lo == Foremost(AllEntries(S)).key
           hi == Hindmost(AllEntries(S)).key
           o == OverlappingInputs(v, l + 1, S)
<1>0. l \in Level /\ l + 1 \in Level \ {0}
    BY LowerLevels
<1>1. o = {f \in v[l + 1] : Overlap(f, lo, hi)}
    BY DEF OverlappingInputs, Overlapping, Overlap
<1>2. Proper(S) /\ \A f \in S \cup v[l + 1] : Bounded(f)
    <2>1. S \cup v[l + 1] \subseteq UNION {v[m] : m \in Level} /\ S \subseteq UNION {v[m] : m \in Level}
        BY <1>0
    <2> QED
        BY <2>1, LevelsProper
<1>3. Spans(S, lo, hi)
    BY <1>2, FilesSpan
<1> HIDE DEF lo, hi, o
<1>4. lo \in Nat /\ hi \in Nat /\ lo <= hi
    BY <1>3 DEF Spans
<1>5. \A f \in S \cup v[l + 1] : /\ Smallest(f).key \in Nat /\ Largest(f).key \in Nat
                                 /\ Smallest(f) \in Written /\ Largest(f) \in Written
                                 /\ Smallest(f).key <= Largest(f).key
                                 /\ f.ents \subseteq Written
    BY <1>2 DEF Bounded
<1>6. \A g \in o : Apart(h, g) /\ g \in v[l + 1] /\ Overlap(g, lo, hi)
    BY <1>0, <1>1 DEF Orderly, Leveled, Disjoint, o
<1>7. hi < Smallest(h).key \/ Largest(h).key < lo
    BY <1>1, <1>4, <1>5 DEF Overlap, o
<1>8. \A e \in AllEntries(S \cup o) : \E f \in S \cup o : e \in f.ents
    BY DEF AllEntries
<1>9. CASE Largest(h).key < lo
    <2> SUFFICES ASSUME NEW e \in AllEntries(S \cup o)
                 PROVE  Precedes(Largest(h), e)
        BY DEF Beside, o
    <2>1. PICK f \in S \cup o : e \in f.ents
        BY <1>8
    <2>2. e \in Written /\ e.key \in Nat /\ Smallest(f).key <= e.key /\ Bounded(f)
        BY <1>2, <1>5, <1>6, <2>1 DEF Bounded
    <2>3. CASE f \in S
        <3>1. lo <= Smallest(f).key
            BY <1>3, <2>3 DEF Spans
        <3>2. Largest(h).key < e.key
            BY <1>4, <1>5, <1>9, <2>2, <2>3, <3>1
        <3> QED
            BY <1>5, <2>2, <3>2, OrderOfEntries
    <2>4. CASE f \in o
        <3>1. ~Precedes(Largest(f), Smallest(h))
            <4> SUFFICES ASSUME Precedes(Largest(f), Smallest(h)) PROVE FALSE
                OBVIOUS
            <4>1. f \in v[l + 1] /\ lo <= Largest(f).key
                BY <1>6, <2>4 DEF Overlap
            <4>2. Largest(f).key <= Smallest(h).key
                BY <1>5, <4>1, OrderOfEntries
            <4>3. Largest(f).key \in Nat /\ Smallest(h).key <= Largest(h).key /\ Smallest(h).key \in Nat
                  /\ Largest(h).key \in Nat
                BY <1>5, <4>1
            <4> QED
                BY <1>4, <1>9, <4>1, <4>2, <4>3
        <3>2. Precedes(Largest(h), Smallest(f))
            BY <1>6, <2>4, <3>1 DEF Apart
        <3>3. e = Smallest(f) \/ Precedes(Smallest(f), e)
            BY <2>1, <2>2 DEF Bounded
        <3>4. Largest(h) \in Written /\ Smallest(f) \in Written
            BY <1>5, <1>6, <2>4
        <3> QED
            BY <2>2, <3>2, <3>3, <3>4, OrderOfEntries
    <2> QED
        BY <2>3, <2>4
<1>10. CASE hi < Smallest(h).key
    <2> SUFFICES ASSUME NEW e \in AllEntries(S \cup o)
                 PROVE  Precedes(e, Smallest(h))
        BY DEF Beside, o
    <2>1. PICK f \in S \cup o : e \in f.ents
        BY <1>8
    <2>2. e \in Written /\ e.key \in Nat /\ e.key <= Largest(f).key /\ Bounded(f)
        BY <1>2, <1>5, <1>6, <2>1 DEF Bounded
    <2>3. CASE f \in S
        <3>1. Largest(f).key <= hi
            BY <1>3, <2>3 DEF Spans
        <3>2. e.key < Smallest(h).key
            BY <1>4, <1>5, <1>10, <2>2, <2>3, <3>1
        <3> QED
            BY <1>5, <2>2, <3>2, OrderOfEntries
    <2>4. CASE f \in o
        <3>1. ~Precedes(Largest(h), Smallest(f))
            <4> SUFFICES ASSUME Precedes(Largest(h), Smallest(f)) PROVE FALSE
                OBVIOUS
            <4>1. f \in v[l + 1] /\ Smallest(f).key <= hi
                BY <1>6, <2>4 DEF Overlap
            <4>2. Largest(h).key <= Smallest(f).key
                BY <1>5, <4>1, OrderOfEntries
            <4>3. Smallest(f).key \in Nat /\ Smallest(h).key <= Largest(h).key /\ Smallest(h).key \in Nat
                  /\ Largest(h).key \in Nat
                BY <1>5, <4>1
            <4> QED
                BY <1>4, <1>10, <4>1, <4>2, <4>3
        <3>2. Precedes(Largest(f), Smallest(h))
            BY <1>6, <2>4, <3>1 DEF Apart
        <3>3. e = Largest(f) \/ Precedes(e, Largest(f))
            BY <2>1, <2>2 DEF Bounded
        <3>4. Smallest(h) \in Written /\ Largest(f) \in Written
            BY <1>5, <1>6, <2>4
        <3> QED
            BY <2>2, <3>2, <3>3, <3>4, OrderOfEntries
    <2> QED
        BY <2>3, <2>4
<1> QED
    BY <1>7, <1>9, <1>10

-----------------------------------------------------------------------------
(* A number is given to one entry only. *)

LEMMA FirstOnes ==
    ASSUME NEW S, NEW s \in Seq(S), NEW n \in 1 .. Len(s)
    PROVE  /\ SubSeq(s, 1, n) \in Seq(S) /\ Len(SubSeq(s, 1, n)) = n
           /\ \A i \in 1 .. n : SubSeq(s, 1, n)[i] = s[i]
OBVIOUS

\* The entries of the group are the same as long as it is under way.
LEMMA GroupSame ==
    ASSUME queue \in Seq(Writer), queue' \in Seq(Writer), group'.n = group.n,
           vs'.seq = vs.seq, group.n \in 1 .. Len(queue), group.n \in 1 .. Len(queue'),
           \A i \in 1 .. group.n : /\ queue'[i] = queue[i]
                                   /\ call'[queue[i]].batch = call[queue[i]].batch
    PROVE  GroupEntries' = GroupEntries
<1>1. PICK n : n = group.n
    OBVIOUS
<1>2. PICK q : q = SubSeq(queue, 1, n)
    OBVIOUS
<1>3. q \in Seq(Writer) /\ Len(q) = n /\ \A i \in 1 .. n : q[i] = queue[i]
    BY <1>1, <1>2, FirstOnes
<1>4. SubSeq(queue', 1, n) = q
    <2>1. PICK p : p = SubSeq(queue', 1, n)
        OBVIOUS
    <2>2. p \in Seq(Writer) /\ Len(p) = n /\ \A i \in 1 .. n : p[i] = queue'[i]
        BY <1>1, <2>1, FirstOnes
    <2>3. \A i \in 1 .. n : p[i] = q[i]
        BY <1>1, <1>3, <2>2
    <2>4. p = q
        BY <1>3, <2>2, <2>3
    <2> QED
        BY <2>1, <2>4
<1>5. [i \in 1 .. Len(q) |-> call'[q[i]].batch] = [i \in 1 .. Len(q) |-> call[q[i]].batch]
    BY <1>1, <1>3
<1>6. PICK ops : ops = FlattenSeq([i \in 1 .. Len(q) |-> call[q[i]].batch])
    OBVIOUS
<1>7. Ops(SubSeq(queue, 1, group.n)) = ops /\ Ops(SubSeq(queue, 1, group.n))' = ops
    BY <1>1, <1>2, <1>4, <1>5, <1>6 DEF Ops
<1>8. PICK s : s = vs.seq
    OBVIOUS
<1>9. GroupEntries = {[key |-> ops[i].key, seq |-> s + i, del |-> ops[i].del] : i \in 1 .. Len(ops)}
    BY <1>7, <1>8 DEF GroupEntries
<1>10. GroupEntries' = {[key |-> ops[i].key, seq |-> s + i, del |-> ops[i].del] : i \in 1 .. Len(ops)}
    BY <1>7, <1>8 DEF GroupEntries
<1> QED
    BY <1>9, <1>10

LEMMA ComingSame ==
    ASSUME TypesInv, group' = group, vs'.seq = vs.seq,
           queue' = queue \/ \E w \in Writer : queue' = Append(queue, w),
           \A i \in 1 .. Len(queue) : call'[queue[i]].batch = call[queue[i]].batch
    PROVE  Coming' = Coming
<1>1. CASE group.at = "none"
    BY <1>1 DEF Coming
<1>2. CASE group.at # "none"
    <2>1. queue \in Seq(Writer) /\ group.n \in 1 .. Len(queue)
        BY <1>2 DEF TypesInv, InLine, Lined
    <2>2. queue' \in Seq(Writer) /\ Len(queue') >= Len(queue)
          /\ \A i \in 1 .. Len(queue) : queue'[i] = queue[i]
        BY <2>1
    <2>3. group.n \in 1 .. Len(queue')
          /\ \A i \in 1 .. group.n : i \in 1 .. Len(queue)
        BY <2>1, <2>2
    <2>4. GroupEntries' = GroupEntries
        BY <2>1, <2>2, <2>3, GroupSame
    <2> QED
        BY <2>4 DEF Coming
<1> QED
    BY <1>1, <1>2

\* What is known was written, and is numbered up to the last sequence, but for the group.
LEMMA LogsWritten ==
    ASSUME NEW d, TypedLogs(d.logs)
    PROVE  LogEntries(d) \subseteq Written
<1> SUFFICES ASSUME NEW n \in LiveLogs(d) PROVE Readable(d.logs[n]) \subseteq Written
    BY DEF LogEntries
<1>1. d.logs[n] \in Log
    BY DEF LiveLogs, TypedLogs
<1> QED
    BY <1>1, ReadableWritten

LEMMA VersionWritten ==
    ASSUME NEW v, TypedVersion(v)
    PROVE  VersionEntries(v) \subseteq Written
BY DEF VersionEntries, AllEntries, TypedVersion, File

LEMMA KnownWritten ==
    ASSUME TypesInv
    PROVE  Known \subseteq Written /\ InWork \subseteq Written
<1>1. VersionEntries(disk.manifest.version) \subseteq Written
    BY VersionWritten DEF TypesInv, Contents
<1>2. LogEntries(disk) \subseteq Written
    BY LogsWritten DEF TypesInv, Contents
<1>3. InMemory \subseteq Written
    BY DEF InMemory, TypesInv, Contents, TypedMemory, Places
<1>4. InWork \subseteq Written
    <2>1. work.comp.rest \subseteq Written /\ work.comp.outputs \subseteq File
        BY DEF TypesInv, Contents, TypedWork, TypedMerge
    <2>2. AllEntries(work.comp.outputs) \subseteq Written
        BY <2>1 DEF AllEntries, File
    <2>3. \A p \in work.edit.add : p[2] \in File
        BY DEF TypesInv, Contents, TypedWork
    <2>4. EditEntries(work.edit) \subseteq Written
        BY <2>3 DEF EditEntries, AllEntries, File
    <2> QED
        BY <2>1, <2>2, <2>4 DEF InWork
<1> QED
    BY <1>1, <1>2, <1>3, <1>4 DEF Known

LEMMA WrittenNumbers == \A e \in Written : e.seq \in Nat
<1>1. 0 .. MaxSeq \subseteq Nat
    BY LevelDBAssumption
<1> QED
    BY <1>1 DEF Written

LEMMA UpToMore ==
    ASSUME NEW ents \in SUBSET Written, NEW s \in Nat, NEW t \in Nat, UpTo(ents, s), s <= t
    PROVE  UpTo(ents, t)
BY WrittenNumbers DEF UpTo

LEMMA KnownNumbers ==
    ASSUME TypesInv, Numbering, up # "down"
    PROVE  UpTo(Known \ Coming, vs.seq)
<1>1. vs.seq \in Nat /\ disk.manifest.seq \in Nat
    <2>1. 0 .. MaxSeq \subseteq Nat
        BY LevelDBAssumption
    <2> QED
        BY <2>1 DEF TypesInv, Room, Contents
<1>2. UpTo(VersionEntries(disk.manifest.version), vs.seq)
    <2>1. VersionEntries(disk.manifest.version) \in SUBSET Written
        BY VersionWritten DEF TypesInv, Contents
    <2>2. UpTo(VersionEntries(disk.manifest.version), disk.manifest.seq)
          /\ disk.manifest.seq <= vs.seq
        BY DEF Numbering
    <2> QED
        BY <1>1, <2>1, <2>2, UpToMore
<1>3. UpTo(InWork, vs.seq) /\ (imm # 0 => UpTo(memtable[imm], vs.seq))
      /\ UpTo((LogEntries(disk) \cup memtable[mem]) \ Coming, vs.seq)
    BY DEF Numbering
<1> QED
    BY <1>2, <1>3 DEF Known, InMemory, UpTo

\* The group has new numbers.
LEMMA KnownWithGroup ==
    ASSUME TypesInv, Numbering, up # "down", group.at # "none"
    PROVE  OneEach(Known \cup GroupEntries)
<1>1. UpTo(Known \ Coming, vs.seq) /\ Coming \subseteq GroupEntries
    BY KnownNumbers DEF Coming
<1>2. /\ GroupEntries \subseteq Written
      /\ \A e \in GroupEntries : e.seq > vs.seq
      /\ \A d, e \in GroupEntries : d.seq = e.seq => d = e
    BY GroupNumbered DEF TypesInv
<1>3. vs.seq \in Nat /\ \A e \in Known : e.seq \in Nat
    BY KnownWritten, WrittenNumbers DEF TypesInv, Room
<1>4. \A e \in GroupEntries : e.seq \in Nat
    BY <1>2, WrittenNumbers
<1>5. OneEach(Known)
    BY DEF Numbering
<1>6. ASSUME NEW e \in Known, NEW d \in GroupEntries, e.seq = d.seq PROVE e = d
    <2>1. CASE e \in Coming
        BY <1>1, <1>2, <1>6, <2>1
    <2>2. CASE e \notin Coming
        <3>1. e.seq <= vs.seq /\ d.seq > vs.seq
            BY <1>1, <1>2, <2>2 DEF UpTo
        <3> QED
            BY <1>3, <1>4, <1>6, <3>1
    <2> QED
        BY <2>1, <2>2
<1> QED
    BY <1>2, <1>5, <1>6 DEF OneEach

LEMMA OneEachSome == ASSUME NEW S, NEW T \in SUBSET S, OneEach(S) PROVE OneEach(T)
BY DEF OneEach

LEMMA UpToSome == ASSUME NEW S, NEW T \in SUBSET S, NEW s, UpTo(S, s) PROVE UpTo(T, s)
BY DEF UpTo

\* Nothing that has a number comes.
LEMMA NumberingStill ==
    ASSUME Numbering, Coming' = Coming,
           UNCHANGED <<up, work, mem, imm>>,
           vs'.seq = vs.seq, vs'.version = vs.version, vs'.log = vs.log,
           disk'.manifest = disk.manifest, LogEntries(disk') \subseteq LogEntries(disk),
           up # "down" => memtable'[mem] = memtable[mem],
           imm # 0 => memtable'[imm] = memtable[imm]
    PROVE  Numbering'
<1>1. InWork' = InWork /\ InMemory' = InMemory
    BY DEF InWork, InMemory
<1>2. Known' \subseteq Known
    BY <1>1 DEF Known
<1>3. OneEach(Known')
    BY <1>2, OneEachSome DEF Numbering
<1>4. up # "down" => UpTo((LogEntries(disk') \cup memtable'[mem]) \ Coming, vs.seq)
    BY DEF Numbering, UpTo
<1> QED
    BY <1>1, <1>3, <1>4 DEF Numbering

-----------------------------------------------------------------------------
(* What is read in the logs. *)

LEMMA LogsShrink ==
    ASSUME NEW d, NEW e,
           \A n \in DOMAIN e.logs :
                \/ Readable(e.logs[n]) = {}
                \/ n \in DOMAIN d.logs /\ Readable(e.logs[n]) \subseteq Readable(d.logs[n]),
           \A n \in DOMAIN d.logs : n >= e.manifest.log => n >= d.manifest.log
    PROVE  LogEntries(e) \subseteq LogEntries(d)
BY DEF LogEntries, LiveLogs

LEMMA NothingLogged == Readable(NoLog) = {}
BY DEF Readable, NoLog

\* A log of which a part is the same.
LEMMA ReadablePart ==
    ASSUME NEW log, NEW log2, NEW n \in Nat, log2.recs \in Seq(SUBSET Written),
           log.recs \in Seq(SUBSET Written), n <= Len(log.recs), n <= Len(log2.recs),
           \A i \in 1 .. n : log2.recs[i] = log.recs[i],
           NEW r, \A i \in 1 .. Len(log2.recs) : i > n => log2.recs[i] \subseteq r
    PROVE  Readable(log2) \subseteq Readable(log) \cup r
<1> SUFFICES ASSUME NEW e \in Readable(log2), e \notin r PROVE e \in Readable(log)
    OBVIOUS
<1>1. PICK i \in 1 .. Len(log2.recs) :
            e \in log2.recs[i] /\ \A j \in 1 .. i : log2.recs[j] # {}
    BY DEF Readable
<1>2. i \in 1 .. n
    BY <1>1
<1>3. i \in 1 .. Len(log.recs) /\ \A j \in 1 .. i : j \in 1 .. n
    BY <1>2
<1>4. e \in log.recs[i] /\ \A j \in 1 .. i : log.recs[j] # {}
    BY <1>1, <1>2, <1>3
<1> QED
    BY <1>3, <1>4 DEF Readable

LEMMA ReadableAppend ==
    ASSUME NEW log \in Log, NEW r \in SUBSET Written
    PROVE  Readable([log EXCEPT !.recs = Append(log.recs, r)]) \subseteq Readable(log) \cup r
<1>1. PICK log2 : log2 = [log EXCEPT !.recs = Append(log.recs, r)]
    OBVIOUS
<1>2. log.recs \in Seq(SUBSET Written) /\ log2.recs = Append(log.recs, r)
    BY <1>1 DEF Log
<1>3. PICK recs \in Seq(SUBSET Written) : recs = log.recs
    BY <1>2
<1>4. PICK n \in Nat : n = Len(recs)
    BY <1>3
<1>5. /\ log2.recs \in Seq(SUBSET Written) /\ Len(log2.recs) = n + 1
      /\ \A i \in 1 .. n : log2.recs[i] = recs[i]
      /\ log2.recs[n + 1] = r
    BY <1>2, <1>3, <1>4
<1>6. \A i \in 1 .. Len(log2.recs) : i > n => log2.recs[i] \subseteq r
    BY <1>5
<1>7. n <= Len(log.recs) /\ n <= Len(log2.recs)
    BY <1>3, <1>4, <1>5
<1>8. Readable(log2) \subseteq Readable(log) \cup r
    BY <1>2, <1>3, <1>5, <1>6, <1>7, ReadablePart
<1> QED
    BY <1>1, <1>8

LEMMA ReadableCut ==
    ASSUME NEW log \in Log, NEW cut \in Cuts(log)
    PROVE  Readable(cut) \subseteq Readable(log)
<1>1. PICK n \in log.synced .. Len(log.recs) : cut = [log EXCEPT !.recs = SubSeq(@, 1, n)]
    BY DEF Cuts
<1>2. log.recs \in Seq(SUBSET Written) /\ log.synced \in Nat /\ cut.recs = SubSeq(log.recs, 1, n)
    BY <1>1 DEF Log
<1>3. PICK recs \in Seq(SUBSET Written) : recs = log.recs
    BY <1>2
<1>4. n \in 0 .. Len(recs)
    BY <1>2, <1>3
<1>5. /\ cut.recs \in Seq(SUBSET Written) /\ Len(cut.recs) = n
      /\ \A i \in 1 .. n : cut.recs[i] = recs[i]
    BY <1>2, <1>3, <1>4
<1>6. \A i \in 1 .. Len(cut.recs) : i > n => cut.recs[i] \subseteq {}
    BY <1>4, <1>5
<1>7. n \in Nat /\ n <= Len(log.recs) /\ n <= Len(cut.recs)
    BY <1>3, <1>4, <1>5
<1>8. Readable(cut) \subseteq Readable(log) \cup {}
    BY <1>2, <1>3, <1>5, <1>6, <1>7, ReadablePart
<1> QED
    BY <1>8

LEMMA ReadableSynced ==
    ASSUME NEW log \in Log, NEW s
    PROVE  Readable([log EXCEPT !.synced = s]) = Readable(log)
<1>1. [log EXCEPT !.synced = s].recs = log.recs
    BY DEF Log
<1> QED
    BY <1>1 DEF Readable

-----------------------------------------------------------------------------
(* The writers. *)

LEMMA FrontGroup ==
    ASSUME NEW q, NEW calls, AtFront(q, calls)
    PROVE  group' = group \/ group'.at = "append"
BY DEF AtFront, NoGroup

LEMMA LiveWithout ==
    ASSUME TypesInv, Numbering, up = "up"
    PROVE  /\ disk.manifest.log = vs.log /\ disk.manifest.version = vs.version
           /\ disk.manifest.log \in Nat /\ mem \in Nat /\ disk.manifest.log <= mem
           /\ mem \in DOMAIN disk.logs /\ mem \in DOMAIN memtable /\ mem < vs.next
           /\ imm # 0 => imm \in DOMAIN memtable /\ imm # mem
<1>1. vs.log \in DOMAIN disk.logs /\ DOMAIN disk.logs \subseteq Nat
    BY DEF TypesInv, Places, WakeInv, Numbered
<1>2. mem \in DOMAIN memtable \cap DOMAIN disk.logs /\ mem < vs.next /\ vs.log <= mem
    BY DEF TypesInv, Places
<1>3. imm # 0 => imm \in DOMAIN memtable /\ imm \in DOMAIN disk.logs /\ imm < mem
    BY DEF TypesInv, Places
<1>4. disk.manifest.version = vs.version /\ disk.manifest.log = vs.log
    BY DEF Numbering
<1>5. imm # 0 => imm # mem
    BY <1>1, <1>2, <1>3
<1> QED
    BY <1>1, <1>2, <1>3, <1>4, <1>5

LEMMA SwitchNumbered ==
    ASSUME TypesInv, Numbering, up = "up", group.at = "none", group'.at \in {"none", "append"},
           SwitchMemTable, imm = 0, UNCHANGED <<up, work>>
    PROVE  Numbering'
<1>1. /\ mem' = vs.next /\ imm' = mem
      /\ memtable' = [n \in DOMAIN memtable \cup {vs.next} |->
                        IF n = vs.next THEN {} ELSE memtable[n]]
      /\ vs' = [vs EXCEPT !.next = @ + 1]
      /\ disk' = [disk EXCEPT !.logs = [n \in DOMAIN @ \cup {vs.next} |->
                                        IF n = vs.next THEN NoLog ELSE @[n]]]
    BY DEF SwitchMemTable
<1>2. vs'.version = vs.version /\ vs'.log = vs.log /\ vs'.seq = vs.seq
    BY <1>1 DEF TypesInv, WakeInv, Shape, Versions
<1>3. /\ disk'.manifest = disk.manifest
      /\ DOMAIN disk'.logs = DOMAIN disk.logs \cup {vs.next}
      /\ \A n \in DOMAIN disk'.logs : disk'.logs[n] = IF n = vs.next THEN NoLog ELSE disk.logs[n]
    BY <1>1 DEF TypesInv, WakeInv, Shape
<1>4. LogEntries(disk') \subseteq LogEntries(disk)
    BY <1>3, NothingLogged, LogsShrink
<1>5. Coming = {} /\ Coming' = {}
    BY DEF Coming
<1>6. mem \in DOMAIN memtable /\ mem # vs.next
    BY LiveWithout DEF TypesInv, WakeInv, Shape
<1>7. memtable'[mem'] = {} /\ memtable'[imm'] = memtable[mem]
    BY <1>1, <1>6
<1>8. InWork' = InWork /\ InMemory' \subseteq InMemory
    BY <1>7 DEF InWork, InMemory
<1>9. OneEach(Known')
    <2>1. Known' \subseteq Known
        BY <1>3, <1>4, <1>8 DEF Known
    <2> QED
        BY <2>1, OneEachSome DEF Numbering
<1>10. UpTo(memtable[mem], vs.seq) /\ UpTo(LogEntries(disk'), vs.seq)
    BY <1>4, <1>5 DEF Numbering, UpTo
<1>11. UpTo((LogEntries(disk') \cup memtable'[mem']) \ Coming', vs.seq)
    BY <1>5, <1>7, <1>10 DEF UpTo
<1> QED
    BY <1>2, <1>3, <1>7, <1>8, <1>9, <1>10, <1>11 DEF Numbering

LEMMA FrontNumbered ==
    ASSUME TypesInv, Numbering, up = "up", group.at = "none",
           NEW q, NEW calls, AtFront(q, calls), UNCHANGED frontRest
    PROVE  Numbering'
<1>1. UNCHANGED <<up, work>> /\ group'.at \in {"none", "append"}
    BY FrontGroup DEF frontRest
<1>2. Coming = {} /\ Coming' = {}
    BY <1>1 DEF Coming
<1>3. CASE UNCHANGED <<vs, disk, pending, mem, imm, memtable>>
    BY <1>1, <1>2, <1>3, NumberingStill
<1>4. CASE SwitchMemTable /\ imm = 0
    BY <1>1, <1>4, SwitchNumbered
<1> QED
    BY <1>3, <1>4, FrontShape

LEMMA WriterNumbered ==
    ASSUME TypesInv, Numbering, NEW w \in Writer,
           \/ \E b \in Batch, sync \in SyncOption : Write(w, b, sync)
           \/ Proceed(w) \/ Return(w)
    PROVE  Numbering'
<1>1. queue \in Seq(Writer) /\ call \in [Writer -> Asking]
      /\ \A i \in 1 .. Len(queue) : queue[i] \in Writer /\ call[queue[i]].batch \in Batch
                                    /\ call[queue[i]].done = FALSE
    BY DEF TypesInv, InLine, Lined, WakeInv, Shape
<1>2. CASE \E b \in Batch, sync \in SyncOption : Write(w, b, sync)
    <2>1. PICK b \in Batch, sync \in SyncOption : Write(w, b, sync)
        BY <1>2
    <2>2. up = "up" /\ UNCHANGED frontRest /\ call[w] = NoCall
        BY <2>1 DEF Write
    <2>3. CASE queue = <<>> /\ \E q, calls : AtFront(q, calls)
        <3>1. group.at = "none"
            BY <2>3 DEF TypesInv, InLine
        <3> QED
            BY <2>2, <2>3, <3>1, FrontNumbered
    <2>4. CASE /\ queue' = Append(queue, w) /\ \E c : call' = [call EXCEPT ![w] = c]
               /\ UNCHANGED <<group, fileVars, memVars, scheduled>>
        <3>1. NoCall.batch = <<>> /\ <<>> \notin Batch
            BY LevelDBAssumption DEF NoCall
        <3>2. \A i \in 1 .. Len(queue) : queue[i] # w
            BY <1>1, <2>2, <3>1
        <3>3. \A i \in 1 .. Len(queue) : call'[queue[i]].batch = call[queue[i]].batch
            BY <1>1, <2>4, <3>2
        <3>4. UNCHANGED <<up, work, vs, disk, mem, imm, memtable, group>>
            BY <2>2, <2>4 DEF frontRest, fileVars, memVars
        <3>5. Coming' = Coming
            BY <2>4, <3>3, <3>4, ComingSame
        <3> QED
            BY <3>4, <3>5, NumberingStill
    <2> QED
        BY <2>1, <2>3, <2>4 DEF Write
<1>3. CASE Proceed(w)
    <2>1. up = "up" /\ group.at = "none" /\ AtFront(queue, call) /\ UNCHANGED frontRest
        BY <1>3 DEF Proceed, TypesInv, WakeInv, Closed, NoGroup
    <2> QED
        BY <2>1, FrontNumbered
<1>4. CASE Return(w)
    <2>1. /\ call[w].done /\ call' = [call EXCEPT ![w] = NoCall]
          /\ UNCHANGED <<queue, group, vs, disk, mem, imm, memtable, up, work>>
        BY <1>4 DEF Return, frontRest, fileVars, memVars
    <2>2. \A i \in 1 .. Len(queue) : call'[queue[i]].batch = call[queue[i]].batch
        BY <1>1, <2>1
    <2>3. Coming' = Coming
        BY <2>1, <2>2, ComingSame
    <2> QED
        BY <2>1, <2>3, NumberingStill
<1> QED
    BY <1>2, <1>3, <1>4

\* What the writer in front does without the lock.
LEMMA UnlockedNumbered ==
    ASSUME TypesInv, Numbering, AddRecord \/ Sync \/ Insert
    PROVE  Numbering'
<1>1. /\ UNCHANGED <<up, queue, call, mem, imm, vs, work>> /\ group.at # "none"
      /\ group.at \in {"append", "sync", "insert"}
    BY DEF AddRecord, Sync, Insert, groupRest, workVars
<1>2. up = "up"
    BY <1>1 DEF TypesInv, WakeInv, Closed
<1>3. GroupEntries' = GroupEntries
    <2>1. group'.n = group.n
        BY DEF AddRecord, Sync, Insert, TypesInv, WakeInv, Shape
    <2>2. queue \in Seq(Writer) /\ group.n \in 1 .. Len(queue)
        BY <1>1 DEF TypesInv, InLine, Lined
    <2> QED
        BY <1>1, <2>1, <2>2, GroupSame
<1>4. group'.at \in {"sync", "insert", "lock"}
    BY DEF AddRecord, Sync, Insert, TypesInv, WakeInv, Shape
<1>5. Coming' = GroupEntries /\ Coming \subseteq GroupEntries
    BY <1>3, <1>4 DEF Coming
<1>6. mem \in DOMAIN memtable /\ mem \in DOMAIN disk.logs /\ (imm # 0 => imm \in DOMAIN memtable /\ imm # mem)
      /\ DOMAIN disk.logs \subseteq Nat
    BY <1>2, LiveWithout DEF TypesInv, WakeInv, Numbered
<1>7. memtable'[mem] \subseteq memtable[mem] \cup GroupEntries
      /\ (imm # 0 => memtable'[imm] = memtable[imm])
    <2>1. memtable' = memtable \/ memtable' = [memtable EXCEPT ![mem] = @ \cup GroupEntries]
        BY DEF AddRecord, Sync, Insert
    <2> QED
        BY <1>6, <2>1
<1>8. disk'.manifest = disk.manifest /\ LogEntries(disk') \subseteq LogEntries(disk) \cup GroupEntries
    <2>1. disk.logs[mem] \in Log
        BY <1>6 DEF TypesInv, Contents, TypedLogs
    <2>2. ASSUME NEW log, Readable(log) \subseteq Readable(disk.logs[mem]) \cup GroupEntries,
                 disk' = [disk EXCEPT !.logs = [@ EXCEPT ![mem] = log]]
          PROVE  disk'.manifest = disk.manifest
                 /\ LogEntries(disk') \subseteq LogEntries(disk) \cup GroupEntries
        <3>1. disk'.manifest = disk.manifest /\ disk'.logs = [disk.logs EXCEPT ![mem] = log]
            BY <2>2 DEF TypesInv, WakeInv, Shape
        <3>2. LiveLogs(disk') = LiveLogs(disk)
              /\ \A n \in LiveLogs(disk) : disk'.logs[n] = IF n = mem THEN log ELSE disk.logs[n]
            BY <1>6, <3>1 DEF LiveLogs
        <3> QED
            BY <2>2, <3>1, <3>2 DEF LogEntries
    <2>3. CASE disk' = disk
        BY <2>3
    <2>4. CASE \E r : r \subseteq GroupEntries /\ r \in SUBSET Written /\ LogRec(r)
        <3>1. PICK r : r \subseteq GroupEntries /\ r \in SUBSET Written /\ LogRec(r)
            BY <2>4
        <3>2. PICK log : log = [disk.logs[mem] EXCEPT !.recs = Append(disk.logs[mem].recs, r)]
            OBVIOUS
        <3>3. Readable(log) \subseteq Readable(disk.logs[mem]) \cup r
            BY <2>1, <3>1, <3>2, ReadableAppend
        <3>4. disk' = [disk EXCEPT !.logs = [@ EXCEPT ![mem] = log]]
            BY <3>1, <3>2 DEF LogRec
        <3> QED
            BY <2>2, <3>1, <3>3, <3>4
    <2>5. CASE disk' = [disk EXCEPT !.logs[mem].synced = Len(disk.logs[mem].recs)]
        <3>1. PICK log : log = [disk.logs[mem] EXCEPT !.synced = Len(disk.logs[mem].recs)]
            OBVIOUS
        <3>2. Readable(log) = Readable(disk.logs[mem])
            BY <2>1, <3>1, ReadableSynced
        <3>3. disk' = [disk EXCEPT !.logs = [@ EXCEPT ![mem] = log]]
            BY <2>5, <3>1
        <3> QED
            BY <2>2, <3>2, <3>3
    <2>6. GroupEntries \in SUBSET Written
        BY <1>1, GroupNumbered DEF TypesInv
    <2> QED
        BY <2>3, <2>4, <2>5, <2>6 DEF AddRecord, Sync, Insert
<1>9. InWork' = InWork
    BY <1>1 DEF InWork
<1>10. OneEach(Known')
    <2>1. Known' \subseteq Known \cup GroupEntries
        BY <1>1, <1>2, <1>7, <1>8, <1>9 DEF Known, InMemory
    <2>2. OneEach(Known \cup GroupEntries)
        BY <1>1, <1>2, KnownWithGroup
    <2> QED
        BY <2>1, <2>2, OneEachSome
<1>11. UpTo((LogEntries(disk') \cup memtable'[mem]) \ Coming', vs.seq)
    <2>1. UpTo((LogEntries(disk) \cup memtable[mem]) \ Coming, vs.seq)
        BY <1>2 DEF Numbering
    <2>2. (LogEntries(disk') \cup memtable'[mem]) \ Coming'
                \subseteq (LogEntries(disk) \cup memtable[mem]) \ Coming
        BY <1>5, <1>7, <1>8
    <2> QED
        BY <2>1, <2>2, UpToSome
<1> QED
    BY <1>1, <1>7, <1>8, <1>9, <1>10, <1>11 DEF Numbering

\* The group is done with: its numbers are the last.
LEMMA FinishNumbered ==
    ASSUME TypesInv, Numbering, Finish
    PROVE  Numbering'
<1>1. /\ UNCHANGED <<up, disk, mem, imm, memtable, work>> /\ group.at # "none"
      /\ vs' = [vs EXCEPT !.seq = @ + Cardinality(GroupEntries)]
      /\ group' = NoGroup
    BY DEF Finish, memVars, workVars
<1>2. up = "up"
    BY <1>1 DEF TypesInv, WakeInv, Closed
<1>3. vs'.version = vs.version /\ vs'.log = vs.log /\ vs'.seq = vs.seq + Cardinality(GroupEntries)
    BY <1>1 DEF TypesInv, WakeInv, Shape, Versions
<1>4. /\ Cardinality(GroupEntries) \in Nat
      /\ \A e \in GroupEntries : e.seq <= vs.seq + Cardinality(GroupEntries)
    <2>1. /\ Cardinality(GroupEntries) = Size(SubSeq(queue, 1, group.n), call)
          /\ \A e \in GroupEntries : e.seq <= vs.seq + Size(SubSeq(queue, 1, group.n), call)
        BY <1>1, GroupNumbered DEF TypesInv
    <2>2. SubSeq(queue, 1, group.n) \in Seq(Writer) /\ call \in [Writer -> Asking]
        BY <1>1 DEF TypesInv, InLine, Lined, WakeInv, Shape
    <2> QED
        BY <2>1, <2>2, SizeType
<1>5. vs.seq \in Nat /\ vs'.seq \in Nat /\ vs.seq <= vs'.seq
    BY <1>3, <1>4 DEF TypesInv, Room
<1>6. Known' = Known /\ InWork' = InWork
    BY <1>1 DEF Known, InMemory, InWork
<1>7. UpTo(Known, vs'.seq)
    <2>1. UpTo(Known \ Coming, vs.seq) /\ Coming \subseteq GroupEntries
        BY <1>2, KnownNumbers DEF Coming
    <2>2. (Known \ Coming) \in SUBSET Written
        BY KnownWritten
    <2>3. UpTo(Known \ Coming, vs'.seq)
        BY <1>5, <2>1, <2>2, UpToMore
    <2> QED
        BY <1>3, <1>4, <2>1, <2>3 DEF UpTo
<1>8. /\ InWork \subseteq Known /\ (imm # 0 => memtable[imm] \subseteq Known)
      /\ LogEntries(disk) \cup memtable[mem] \subseteq Known
    BY <1>2 DEF Known, InMemory
<1>9. /\ UpTo(InWork, vs'.seq) /\ (imm # 0 => UpTo(memtable[imm], vs'.seq))
      /\ UpTo((LogEntries(disk) \cup memtable[mem]) \ Coming', vs'.seq)
    BY <1>7, <1>8 DEF UpTo
<1>10. disk.manifest.seq <= vs'.seq /\ (work.at = "manifest" => work.seq <= vs'.seq)
    <2>1. 0 .. MaxSeq \subseteq Nat
        BY LevelDBAssumption
    <2>2. disk.manifest.seq \in Nat /\ work.seq \in Nat
        BY <2>1 DEF TypesInv, Contents, TypedWork
    <2>3. disk.manifest.seq <= vs.seq /\ (work.at = "manifest" => work.seq <= vs.seq)
        BY <1>2 DEF Numbering
    <2> QED
        BY <1>5, <2>2, <2>3
<1>11. /\ OneEach(Known) /\ disk.manifest.version = vs.version /\ disk.manifest.log = vs.log
       /\ UpTo(VersionEntries(disk.manifest.version), disk.manifest.seq)
       /\ work.at = "manifest" => /\ disk.manifest.seq <= work.seq
                                  /\ UpTo(EditEntries(work.edit), work.seq)
    BY <1>2 DEF Numbering
<1> QED
    BY <1>1, <1>3, <1>6, <1>9, <1>10, <1>11 DEF Numbering

LEMMA ReadingNumbered ==
    ASSUME TypesInv, Numbering, Reading
    PROVE  Numbering'
<1>1. UNCHANGED <<up, vs, disk, mem, imm, queue, call, group, work>>
    BY DEF Reading, GetSnapshot, ReleaseSnapshot, BeginRead, EndRead, readRest, fileVars, writeVars
<1>2. Coming' = Coming
    BY <1>1, ComingSame
<1>3. memtable' = memtable \/ memtable' = InUse(memtable, imm, reading')
    BY DEF Reading, GetSnapshot, ReleaseSnapshot, BeginRead, EndRead
<1>4. up # "down" => mem \in DOMAIN memtable
    BY DEF TypesInv, Places
<1>5. imm # 0 => imm \in DOMAIN memtable
    BY DEF TypesInv, Places
<1>6. /\ up # "down" => memtable'[mem] = memtable[mem]
      /\ imm # 0 => memtable'[imm] = memtable[imm]
    BY <1>3, <1>4, <1>5 DEF InUse
<1> QED
    BY <1>1, <1>2, <1>6, NumberingStill

-----------------------------------------------------------------------------
(* What the background thread does, as far as the levels go. *)

OnLevel(l, S) == {<<l, f>> : f \in S}

\* What is under way ends, or a merge goes on.
LEMMA GoOnWork ==
    ASSUME TypesInv, NEW err, NEW i, NEW d, NEW h, GoOn(err, i, d, h)
    PROVE  work'.at \in {"none", "merge"} /\ work'.edit = NoEdit /\ work'.comp = work.comp
<1>1. CASE work.comp = NoCompaction
    BY <1>1, NoWorkShape DEF GoOn, EndOfCall
<1>2. CASE work' = [NoWork EXCEPT !.at = "merge", !.kind = "merge", !.comp = work.comp]
    BY <1>2, NoWorkShape
<1> QED
    BY <1>1, <1>2 DEF GoOn

LEMMA EndOfTableWork ==
    ASSUME TypesInv, EndOfTable
    PROVE  /\ imm # 0
           /\ \/ \E l \in 0 .. MaxMemCompactLevel :
                    LET table == [num |-> work.num, ents |-> memtable[imm]]
                    IN  /\ l \in PickLevelForMemTableOutput(vs.version, Smallest(table).key,
                                                            Largest(table).key)
                        /\ work'.at = "manifest" /\ work'.kind = "flush"
                        /\ work'.edit.del = {} /\ work'.edit.add = OnLevel(l, {table})
                        /\ work'.comp = work.comp /\ work'.seq = vs.seq
              \/ work'.at \in {"none", "merge"} /\ work'.edit = NoEdit /\ work'.comp = work.comp
<1> DEFINE table == [num |-> work.num, ents |-> memtable[imm]]
           lo == Smallest(table).key
           hi == Largest(table).key
<1>1. imm # 0
    BY DEF EndOfTable, TypesInv, Places
<1>2. CASE \E l \in PickLevelForMemTableOutput(vs.version, lo, hi) :
                work' = LogAndApply(work, "flush", [NoEdit EXCEPT !.add = {<<l, table>>}])
    <2>1. PICK l \in PickLevelForMemTableOutput(vs.version, lo, hi) :
                work' = LogAndApply(work, "flush", [NoEdit EXCEPT !.add = {<<l, table>>}])
        BY <1>2
    <2>2. PICK edit : edit = [NoEdit EXCEPT !.add = {<<l, table>>}]
        OBVIOUS
    <2>3. edit.del = {} /\ edit.add = OnLevel(l, {table})
        BY <2>2 DEF NoEdit, OnLevel
    <2>4. work' = LogAndApply(work, "flush", edit)
        BY <2>1, <2>2
    <2>5. /\ work'.at = "manifest" /\ work'.kind = "flush" /\ work'.edit = edit
          /\ work'.comp = work.comp /\ work'.seq = vs.seq
        BY <2>4 DEF LogAndApply, TypesInv, WakeInv, Shape
    <2>6. l \in 0 .. MaxMemCompactLevel
        BY DEF PickLevelForMemTableOutput
    <2> QED
        BY <1>1, <2>3, <2>5, <2>6
<1>3. CASE GoOn(TRUE, imm, due, hot)
    BY <1>1, <1>3, GoOnWork
<1> QED
    BY <1>2, <1>3 DEF EndOfTable

LEMMA PickWork ==
    ASSUME TypesInv, Pick
    PROVE  \E l \in Lower : \E f \in vs.version[l] :
           \E inputs \in SetupOtherInputs(vs.version, l, Picked(vs.version, l, f)) :
              \/ /\ work'.at = "merge" /\ work'.edit = NoEdit
                 /\ work'.comp.level = l /\ work'.comp.inputs = inputs
                 /\ work'.comp.rest \subseteq AllEntries(inputs[1] \cup inputs[2])
                 /\ work'.comp.outputs = {}
              \/ /\ Cardinality(inputs[1]) = 1 /\ inputs[2] = {}
                 /\ work'.at = "manifest" /\ work'.kind = "move"
                 /\ work'.comp = NoCompaction /\ work'.seq = vs.seq
                 /\ work'.edit.del = OnLevel(l, inputs[1])
                 /\ work'.edit.add = OnLevel(l + 1, inputs[1])
<1> DEFINE merged(inputs) == AllEntries(inputs[1] \cup inputs[2])
           oldest == IF snapshots = {} THEN vs.seq
                     ELSE CHOOSE s \in {h.seq : h \in snapshots} :
                                \A h \in snapshots : s <= h.seq
           kept(p, inputs) == {e \in merged(inputs) : ~Drops(e, merged(inputs), vs.version, p[1], oldest)}
           comp(p, inputs) == [level |-> p[1], inputs |-> inputs, version |-> vs.version,
                               rest |-> kept(p, inputs), outputs |-> {}]
           moved(p, inputs) == [del |-> {<<p[1], g>> : g \in inputs[1]},
                                add |-> {<<p[1] + 1, g>> : g \in inputs[1]}]
<1>1. PICK p \in IF due # {} THEN due \X UNION {vs.version[l] : l \in due} ELSE hot :
        \E inputs \in SetupOtherInputs(vs.version, p[1], Picked(vs.version, p[1], p[2])) :
            \/ work' = [NoWork EXCEPT !.at = "merge", !.kind = "merge", !.comp = comp(p, inputs)]
            \/ /\ Cardinality(inputs[1]) = 1 /\ inputs[2] = {}
               /\ work' = LogAndApply(NoWork, "move", moved(p, inputs))
    BY DEF Pick
<1>2. p[1] \in Lower /\ p[2] \in vs.version[p[1]]
    <2>1. p[1] \in Lower
        BY <1>1 DEF TypesInv, Contents
    <2> QED
        BY <1>1, <2>1 DEF TypesInv, WakeInv, Picks
<1>3. PICK inputs \in SetupOtherInputs(vs.version, p[1], Picked(vs.version, p[1], p[2])) :
            \/ work' = [NoWork EXCEPT !.at = "merge", !.kind = "merge", !.comp = comp(p, inputs)]
            \/ /\ Cardinality(inputs[1]) = 1 /\ inputs[2] = {}
               /\ work' = LogAndApply(NoWork, "move", moved(p, inputs))
    BY <1>1
<1>4. CASE work' = [NoWork EXCEPT !.at = "merge", !.kind = "merge", !.comp = comp(p, inputs)]
    <2>1. PICK c : c = comp(p, inputs)
        OBVIOUS
    <2>2. c.level = p[1] /\ c.inputs = inputs /\ c.outputs = {}
          /\ c.rest \subseteq AllEntries(inputs[1] \cup inputs[2])
        BY <2>1
    <2>3. work' = [NoWork EXCEPT !.at = "merge", !.kind = "merge", !.comp = c]
        BY <1>4, <2>1
    <2>4. work'.at = "merge" /\ work'.edit = NoEdit /\ work'.comp = c
        BY <2>3, NoWorkShape
    <2> HIDE DEF comp, kept, merged, oldest
    <2> QED
        BY <1>2, <1>3, <2>2, <2>4
<1>5. CASE /\ Cardinality(inputs[1]) = 1 /\ inputs[2] = {}
           /\ work' = LogAndApply(NoWork, "move", moved(p, inputs))
    <2>1. PICK edit : edit = moved(p, inputs)
        OBVIOUS
    <2>2. edit.del = OnLevel(p[1], inputs[1]) /\ edit.add = OnLevel(p[1] + 1, inputs[1])
        BY <2>1 DEF OnLevel
    <2>3. work' = LogAndApply(NoWork, "move", edit)
        BY <1>5, <2>1
    <2>4. /\ work'.at = "manifest" /\ work'.kind = "move" /\ work'.edit = edit
          /\ work'.comp = NoCompaction /\ work'.seq = vs.seq
        BY <2>3, NoWorkShape DEF LogAndApply
    <2> HIDE DEF moved
    <2> QED
        BY <1>2, <1>3, <1>5, <2>2, <2>4
<1> QED
    BY <1>3, <1>4, <1>5

LEMMA WriteOutputWork ==
    ASSUME TypesInv, WriteOutput
    PROVE  \/ \E e \in work.comp.rest :
                /\ work'.at = "merge" /\ work'.edit = work.edit
                /\ work'.comp.level = work.comp.level /\ work'.comp.inputs = work.comp.inputs
                /\ work'.comp.rest = {d \in work.comp.rest : Precedes(e, d)}
                /\ work'.comp.outputs = work.comp.outputs \cup
                        {[num |-> vs.next, ents |-> {d \in work.comp.rest : ~Precedes(e, d)}]}
           \/ work' = NoWork
<1>1. CASE \E out \in NextOutputs(work.comp.rest) : Writes(out)
    <2>1. PICK e \in work.comp.rest : Writes({d \in work.comp.rest : ~Precedes(e, d)})
        BY <1>1 DEF NextOutputs
    <2>2. PICK out : out = {d \in work.comp.rest : ~Precedes(e, d)}
        OBVIOUS
    <2>3. work.at = "merge"
        BY DEF WriteOutput
    <2>4. /\ work'.at = work.at /\ work'.edit = work.edit
          /\ work'.comp.level = work.comp.level /\ work'.comp.inputs = work.comp.inputs
          /\ work'.comp.rest = work.comp.rest \ out
          /\ work'.comp.outputs = work.comp.outputs \cup {[num |-> vs.next, ents |-> out]}
        BY <2>1, <2>2 DEF Writes, TypesInv, WakeInv, Shape
    <2>5. work.comp.rest \ out = {d \in work.comp.rest : Precedes(e, d)}
        BY <2>2
    <2> QED
        BY <2>2, <2>3, <2>4, <2>5
<1>2. CASE CleanupCompaction(disk, vs, TRUE, due, hot)
    BY <1>2 DEF CleanupCompaction, EndOfCall
<1> QED
    BY <1>1, <1>2 DEF WriteOutput, Writes

LEMMA InstallWork ==
    ASSUME TypesInv, InstallCompactionResults
    PROVE  /\ work'.at = "manifest" /\ work'.kind = "merge"
           /\ work'.comp = work.comp /\ work'.seq = vs.seq
           /\ work'.edit.add = OnLevel(work.comp.level + 1, work.comp.outputs)
           /\ \A f \in work.comp.inputs[2] : <<work.comp.level + 1, f>> \in work'.edit.del
<1> DEFINE c == work.comp
           edit == [del |-> UNION {{<<c.level + i - 1, f>> : f \in c.inputs[i]} : i \in 1 .. 2},
                    add |-> {<<c.level + 1, f>> : f \in c.outputs}]
<1>1. work' = LogAndApply(work, "merge", edit)
    BY DEF InstallCompactionResults
<1>2. edit.add = OnLevel(work.comp.level + 1, work.comp.outputs)
    BY DEF OnLevel
<1>3. \A f \in work.comp.inputs[2] : <<work.comp.level + 1, f>> \in edit.del
    <2>1. work.comp.level \in Nat
        BY WorkShaped, LevelsTyped DEF TypedMerge, Lower
    <2>2. work.comp.level + 2 - 1 = work.comp.level + 1 /\ 2 \in 1 .. 2
        BY <2>1
    <2> QED
        BY <2>2
<1> HIDE DEF edit
<1>4. /\ work'.at = "manifest" /\ work'.kind = "merge" /\ work'.edit = edit
      /\ work'.comp = work.comp /\ work'.seq = vs.seq
    BY <1>1 DEF LogAndApply, TypesInv, WakeInv, Shape
<1> QED
    BY <1>2, <1>3, <1>4

\* The files of an edit.
LEMMA LevelAdded ==
    ASSUME NEW edit, NEW l, NEW S, edit.add = OnLevel(l, S)
    PROVE  {p[2] : p \in edit.add} = S /\ EditEntries(edit) = AllEntries(S)
<1>1. \A p \in edit.add : p[2] \in S
    BY DEF OnLevel
<1>2. \A f \in S : <<l, f>> \in edit.add /\ <<l, f>>[2] = f
    BY DEF OnLevel
<1>3. {p[2] : p \in edit.add} = S
    BY <1>1, <1>2
<1> QED
    BY <1>3 DEF EditEntries

LEMMA NothingAdded == {p[2] : p \in NoEdit.add} = {} /\ EditEntries(NoEdit) = {}
<1>1. {p[2] : p \in NoEdit.add} = {}
    BY DEF NoEdit
<1> QED
    BY <1>1 DEF EditEntries, AllEntries

LEMMA FilesOfLevel ==
    ASSUME NEW v, NEW l \in Level, NEW S \in SUBSET v[l]
    PROVE  AllEntries(S) \subseteq VersionEntries(v)
BY DEF AllEntries, VersionEntries

Merging ==
    NothingToDo \/ BeginFlush \/ EndOfTable \/ Pick \/ WriteOutput \/ InstallCompactionResults

\* The version and the logs stay until the manifest is written.
LEMMA MergingStill ==
    ASSUME TypesInv, Merging
    PROVE  /\ up = "up" /\ UNCHANGED <<up, mem, imm, memtable, queue, group>>
           /\ vs'.seq = vs.seq /\ vs'.version = vs.version /\ vs'.log = vs.log
           /\ disk'.manifest = disk.manifest /\ disk'.logs = disk.logs
           /\ call' = call \/ call' = SignalAll(call)
<1>1. /\ UNCHANGED <<up, queue, group>> /\ vs'.seq = vs.seq
      /\ call' = call \/ call' = SignalAll(call)
    BY BackgroundSame DEF TypesInv, Background, Merging
<1>2. UNCHANGED <<mem, imm, memtable>>
    BY DEF Merging, NothingToDo, BeginFlush, EndOfTable, Pick, WriteOutput,
       InstallCompactionResults, memVars
<1>3. up = "up"
    BY DEF Merging, NothingToDo, BeginFlush, EndOfTable, Pick, WriteOutput,
       InstallCompactionResults, TypesInv, WakeInv, Closed, Shape
<1>4. vs'.version = vs.version /\ vs'.log = vs.log
    BY DEF Merging, NothingToDo, BeginFlush, EndOfTable, Pick, WriteOutput,
       InstallCompactionResults, fileVars, TypesInv, WakeInv, Shape, Versions
<1>5. disk'.manifest = disk.manifest /\ disk'.logs = disk.logs
    <2>1. \A pend : Collected(disk, vs, NoCompaction, pend, TRUE) = disk
        BY DEF Collected
    <2> QED
        BY <2>1 DEF Merging, NothingToDo, BeginFlush, EndOfTable, Pick, WriteOutput,
           InstallCompactionResults, CleanupCompaction, fileVars, TypesInv, WakeInv, Shape
<1> QED
    BY <1>1, <1>2, <1>3, <1>4, <1>5

LEMMA BackgroundComing ==
    ASSUME TypesInv, Background
    PROVE  Coming' = Coming
<1>1. UNCHANGED <<queue, group>> /\ vs'.seq = vs.seq /\ (call' = call \/ call' = SignalAll(call))
    BY BackgroundSame DEF TypesInv
<1>2. \A w \in Writer : call'[w].batch = call[w].batch
    BY <1>1, SignalAllSame DEF TypesInv, WakeInv, Shape
<1>3. \A i \in 1 .. Len(queue) : call'[queue[i]].batch = call[queue[i]].batch
    BY <1>2 DEF TypesInv, InLine, Lined
<1> QED
    BY <1>1, <1>3, ComingSame

\* What is merged is known already.
LEMMA MergingWork ==
    ASSUME TypesInv, Merging
    PROVE  /\ InWork' \subseteq InWork \cup VersionEntries(vs.version)
                                \cup (IF imm = 0 THEN {} ELSE memtable[imm])
           /\ work'.at = "manifest" => work'.seq = vs.seq
           /\ work'.at # "open"
<1>1. CASE work' = NoWork
    BY <1>1, NoWorkShape, NothingAdded DEF InWork, NoCompaction, AllEntries
<1>2. CASE BeginFlush
    <2>1. work'.comp = work.comp /\ work'.edit = work.edit /\ work'.at = "table"
        BY <1>2 DEF BeginFlush, TypesInv, WakeInv, Shape
    <2> QED
        BY <2>1 DEF InWork
<1>3. CASE EndOfTable
    <2>1. CASE work'.at \in {"none", "merge"} /\ work'.edit = NoEdit /\ work'.comp = work.comp
        BY <2>1, NothingAdded DEF InWork
    <2>2. CASE \E l : /\ work'.edit.add = OnLevel(l, {[num |-> work.num, ents |-> memtable[imm]]})
                      /\ work'.comp = work.comp /\ work'.seq = vs.seq /\ work'.at = "manifest"
        <3>1. EditEntries(work'.edit) = memtable[imm]
            <4>1. PICK edit : edit = work'.edit
                OBVIOUS
            <4>2. PICK f : f = [num |-> work.num, ents |-> memtable[imm]]
                OBVIOUS
            <4>3. PICK l : edit.add = OnLevel(l, {f})
                BY <2>2, <4>1, <4>2
            <4>4. EditEntries(edit) = AllEntries({f}) /\ AllEntries({f}) = f.ents
                BY <4>3, LevelAdded DEF AllEntries
            <4> QED
                BY <4>1, <4>2, <4>4
        <3> QED
            BY <1>3, <2>2, <3>1, EndOfTableWork DEF InWork
    <2> QED
        BY <1>3, <2>1, <2>2, EndOfTableWork
<1>4. CASE Pick
    <2> DEFINE Choice(l, inputs) ==
              \/ /\ work'.at = "merge" /\ work'.edit = NoEdit
                 /\ work'.comp.rest \subseteq AllEntries(inputs[1] \cup inputs[2])
                 /\ work'.comp.outputs = {}
              \/ /\ work'.at = "manifest"
                 /\ work'.comp = NoCompaction /\ work'.seq = vs.seq
                 /\ work'.edit.add = OnLevel(l + 1, inputs[1])
    <2>0. PICK l \in Lower : \E f \in vs.version[l] :
            \E inputs \in SetupOtherInputs(vs.version, l, Picked(vs.version, l, f)) : Choice(l, inputs)
        BY <1>4, PickWork
    <2>9. PICK f \in vs.version[l] :
            \E inputs \in SetupOtherInputs(vs.version, l, Picked(vs.version, l, f)) : Choice(l, inputs)
        BY <2>0
    <2>1. PICK inputs \in SetupOtherInputs(vs.version, l, Picked(vs.version, l, f)) : Choice(l, inputs)
        BY <2>9
    <2>2. l \in Level /\ l + 1 \in Level /\ Picked(vs.version, l, f) \subseteq vs.version[l]
        <3>1. l \in Level /\ l + 1 \in Level
            BY LevelsTyped
        <3> QED
            BY <3>1 DEF Picked, GetOverlappingInputs, Overlapping
    <2>3. inputs[1] \subseteq vs.version[l] /\ inputs[2] \subseteq vs.version[l + 1]
        BY <2>1, <2>2, BothFound
    <2>4. AllEntries(inputs[1]) \subseteq VersionEntries(vs.version)
          /\ AllEntries(inputs[2]) \subseteq VersionEntries(vs.version)
        BY <2>2, <2>3, FilesOfLevel
    <2>5. AllEntries(inputs[1] \cup inputs[2]) \subseteq VersionEntries(vs.version)
        BY <2>4 DEF AllEntries
    <2>6. AllEntries({}) = {}
        BY DEF AllEntries
    <2>7. CASE /\ work'.at = "merge" /\ work'.edit = NoEdit
               /\ work'.comp.rest \subseteq AllEntries(inputs[1] \cup inputs[2])
               /\ work'.comp.outputs = {}
        BY <2>5, <2>6, <2>7, NothingAdded DEF InWork
    <2>8. CASE /\ work'.at = "manifest" /\ work'.comp = NoCompaction /\ work'.seq = vs.seq
               /\ work'.edit.add = OnLevel(l + 1, inputs[1])
        <3>1. EditEntries(work'.edit) = AllEntries(inputs[1])
            <4>1. PICK edit : edit = work'.edit
                OBVIOUS
            <4>2. EditEntries(edit) = AllEntries(inputs[1])
                BY <2>8, <4>1, LevelAdded
            <4> QED
                BY <4>1, <4>2
        <3>2. NoCompaction.rest = {} /\ NoCompaction.outputs = {}
            BY DEF NoCompaction
        <3> QED
            BY <2>4, <2>6, <2>8, <3>1, <3>2 DEF InWork
    <2> QED
        BY <2>1, <2>7, <2>8
<1>5. CASE WriteOutput
    <2>1. CASE work' = NoWork
        BY <1>1, <2>1
    <2>2. CASE \E e \in work.comp.rest :
                /\ work'.at = "merge" /\ work'.edit = work.edit
                /\ work'.comp.rest = {d \in work.comp.rest : Precedes(e, d)}
                /\ work'.comp.outputs = work.comp.outputs \cup
                        {[num |-> vs.next, ents |-> {d \in work.comp.rest : ~Precedes(e, d)}]}
        <3>1. PICK e \in work.comp.rest :
                /\ work'.at = "merge" /\ work'.edit = work.edit
                /\ work'.comp.rest = {d \in work.comp.rest : Precedes(e, d)}
                /\ work'.comp.outputs = work.comp.outputs \cup
                        {[num |-> vs.next, ents |-> {d \in work.comp.rest : ~Precedes(e, d)}]}
            BY <2>2
        <3>2. AllEntries(work'.comp.outputs) \subseteq AllEntries(work.comp.outputs) \cup work.comp.rest
            BY <3>1 DEF AllEntries
        <3> QED
            BY <3>1, <3>2 DEF InWork
    <2> QED
        BY <1>5, <2>1, <2>2, WriteOutputWork
<1>6. CASE InstallCompactionResults
    <2>1. /\ work'.at = "manifest" /\ work'.comp = work.comp /\ work'.seq = vs.seq
          /\ work'.edit.add = OnLevel(work.comp.level + 1, work.comp.outputs)
        BY <1>6, InstallWork
    <2>2. PICK edit : edit = work'.edit
        OBVIOUS
    <2>3. PICK l, outputs : l = work.comp.level + 1 /\ outputs = work.comp.outputs
        OBVIOUS
    <2>4. EditEntries(edit) = AllEntries(outputs)
        BY <2>1, <2>2, <2>3, LevelAdded
    <2> QED
        BY <2>1, <2>2, <2>3, <2>4 DEF InWork
<1>7. CASE NothingToDo
    BY <1>1, <1>7 DEF NothingToDo, EndOfCall
<1> QED
    BY <1>2, <1>3, <1>4, <1>5, <1>6, <1>7 DEF Merging

LEMMA MergingNumbered ==
    ASSUME TypesInv, Numbering, Merging
    PROVE  Numbering'
<1>1. /\ up = "up" /\ UNCHANGED <<up, mem, imm, memtable>>
      /\ vs'.seq = vs.seq /\ vs'.version = vs.version /\ vs'.log = vs.log
      /\ disk'.manifest = disk.manifest /\ disk'.logs = disk.logs
    BY MergingStill
<1>2. /\ InWork' \subseteq InWork \cup VersionEntries(vs.version)
                            \cup (IF imm = 0 THEN {} ELSE memtable[imm])
      /\ work'.at = "manifest" => work'.seq = vs.seq
    BY MergingWork
<1>3. Coming' = Coming
    BY BackgroundComing DEF Merging, Background
<1>4. LogEntries(disk') = LogEntries(disk) /\ InMemory' = InMemory
    BY <1>1 DEF LogEntries, LiveLogs, InMemory
<1>5. /\ disk.manifest.version = vs.version /\ disk.manifest.log = vs.log
      /\ disk.manifest.seq <= vs.seq
      /\ UpTo(VersionEntries(vs.version), disk.manifest.seq)
      /\ UpTo(InWork, vs.seq) /\ (imm # 0 => UpTo(memtable[imm], vs.seq))
      /\ UpTo((LogEntries(disk) \cup memtable[mem]) \ Coming, vs.seq)
    BY <1>1 DEF Numbering
<1>6. OneEach(Known')
    <2>1. Known' \subseteq Known
        BY <1>1, <1>2, <1>4, <1>5 DEF Known, InMemory
    <2> QED
        BY <2>1, OneEachSome DEF Numbering
<1>7. vs.seq \in Nat /\ disk.manifest.seq \in Nat
    <2>1. 0 .. MaxSeq \subseteq Nat
        BY LevelDBAssumption
    <2> QED
        BY <2>1 DEF TypesInv, Room, Contents
<1>8. UpTo(VersionEntries(vs.version), vs.seq)
    <2>1. VersionEntries(vs.version) \in SUBSET Written
        BY VersionWritten DEF TypesInv, Contents
    <2> QED
        BY <1>5, <1>7, <2>1, UpToMore
<1>9. UpTo(InWork', vs.seq)
    BY <1>2, <1>5, <1>8 DEF UpTo
<1>10. UpTo(EditEntries(work'.edit), vs.seq)
    BY <1>9 DEF InWork, UpTo
<1>11. vs.seq <= vs.seq
    BY <1>7
<1> QED
    BY <1>1, <1>2, <1>3, <1>4, <1>5, <1>6, <1>9, <1>10, <1>11 DEF Numbering

\* The manifest is written: what stays, and what is known then.
LEMMA ManifestWrittenWork ==
    ASSUME TypesInv, ManifestWritten
    PROVE  /\ work'.at \in {"none", "merge"} /\ work'.edit = NoEdit
           /\ \/ work.kind = "flush" /\ work'.comp = work.comp
              \/ work'.comp = NoCompaction
<1>1. CASE GoOn(bgError, 0, due', {}) /\ work.kind = "flush"
    BY <1>1, GoOnWork
<1>2. CASE work' = NoWork
    BY <1>2, NoWorkShape
<1> QED
    BY <1>1, <1>2 DEF ManifestWritten, CleanupCompaction, EndOfCall

LEMMA ManifestWrittenVersion ==
    ASSUME TypesInv, ManifestWritten
    PROVE  /\ work.at = "manifest" /\ up = "up" /\ UNCHANGED <<up, mem>>
           /\ vs'.version = Apply(vs.version, work.edit) /\ vs'.log = EditLog
           /\ vs'.seq = vs.seq
           /\ disk'.manifest.version = Apply(disk.manifest.version, work.edit)
           /\ disk'.manifest.seq = work.seq /\ disk'.manifest.log = EditLog
           /\ DOMAIN disk'.logs \subseteq DOMAIN disk.logs
           /\ \A n \in DOMAIN disk'.logs : disk'.logs[n] = disk.logs[n]
<1>1. /\ work.at = "manifest" /\ UNCHANGED <<up, mem>> /\ vs' = Installed
      /\ \/ \E comp, pend, err : disk' = Collected(Recorded, Installed, comp, pend, err)
         \/ disk' = Recorded
    BY ManifestWrittenStep DEF CleanupCompaction
<1>2. up = "up"
    BY <1>1 DEF TypesInv, WakeInv, Closed, Shape
<1>3. /\ Installed.version = Apply(vs.version, work.edit) /\ Installed.log = EditLog
      /\ Installed.seq = vs.seq
    BY DEF Installed, TypesInv, WakeInv, Shape, Versions
<1>4. /\ Recorded.manifest.version = Apply(disk.manifest.version, work.edit)
      /\ Recorded.manifest.seq = work.seq /\ Recorded.manifest.log = EditLog
      /\ Recorded.logs = disk.logs /\ DOMAIN Recorded = {"logs", "tables", "manifest"}
    BY DEF Recorded, Appended, TypesInv, WakeInv, Shape
<1>5. /\ disk'.manifest = Recorded.manifest
      /\ DOMAIN disk'.logs \subseteq DOMAIN disk.logs
      /\ \A n \in DOMAIN disk'.logs : disk'.logs[n] = disk.logs[n]
    <2>1. CASE disk' = Recorded
        BY <1>4, <2>1
    <2>2. CASE \E comp, pend, err : disk' = Collected(Recorded, Installed, comp, pend, err)
        <3>1. PICK comp, pend, err : disk' = Collected(Recorded, Installed, comp, pend, err)
            BY <2>2
        <3>2. PICK d, v : d = Recorded /\ v = Installed
            OBVIOUS
        <3>3. PICK c : c = Collected(d, v, comp, pend, err)
            OBVIOUS
        <3>4. /\ c.manifest = d.manifest /\ DOMAIN c.logs \subseteq DOMAIN d.logs
              /\ \A n \in DOMAIN c.logs : c.logs[n] = d.logs[n]
            BY <1>4, <3>2, <3>3, CollectedLogs
        <3> QED
            BY <1>4, <3>1, <3>2, <3>3, <3>4
    <2> QED
        BY <1>1, <2>1, <2>2
<1> QED
    BY <1>1, <1>2, <1>3, <1>4, <1>5

LEMMA ManifestWrittenMemory ==
    ASSUME TypesInv, ManifestWritten
    PROVE  /\ imm' = 0 \/ (imm' = imm /\ memtable' = memtable)
           /\ memtable'[mem] = memtable[mem]
<1>1. CASE imm' = imm /\ memtable' = memtable
    BY <1>1
<1>2. CASE imm' = 0 /\ memtable' = InUse(memtable, 0, reading)
    <2>1. mem \in DOMAIN memtable
        BY ManifestWrittenVersion DEF TypesInv, Places
    <2> QED
        BY <1>2, <2>1 DEF InUse
<1> QED
    BY <1>1, <1>2 DEF ManifestWritten, memVars

\* What is in a version with an edit.
LEMMA AppliedFiles ==
    ASSUME NEW v, NEW edit, NEW l \in Level, NEW f \in Apply(v, edit)[l]
    PROVE  \/ f \in v[l] /\ <<l, f>> \notin edit.del
           \/ <<l, f>> \in edit.add \/ \E p \in edit.add : p[1] = l /\ p[2] = f
BY DEF Apply

LEMMA AppliedEntries ==
    ASSUME NEW v, NEW edit
    PROVE  VersionEntries(Apply(v, edit)) \subseteq VersionEntries(v) \cup EditEntries(edit)
<1> SUFFICES ASSUME NEW l \in Level, NEW f \in Apply(v, edit)[l]
             PROVE  f.ents \subseteq VersionEntries(v) \cup EditEntries(edit)
    BY DEF VersionEntries, AllEntries
<1>1. f \in v[l] \/ f \in {p[2] : p \in edit.add}
    BY DEF Apply
<1> QED
    BY <1>1 DEF VersionEntries, EditEntries, AllEntries

LEMMA ManifestWrittenNumbered ==
    ASSUME TypesInv, Numbering, ManifestWritten
    PROVE  Numbering'
<1>1. /\ work.at = "manifest" /\ up = "up" /\ UNCHANGED <<up, mem>>
      /\ vs'.version = Apply(vs.version, work.edit) /\ vs'.log = EditLog
      /\ vs'.seq = vs.seq
      /\ disk'.manifest.version = Apply(disk.manifest.version, work.edit)
      /\ disk'.manifest.seq = work.seq /\ disk'.manifest.log = EditLog
      /\ DOMAIN disk'.logs \subseteq DOMAIN disk.logs
      /\ \A n \in DOMAIN disk'.logs : disk'.logs[n] = disk.logs[n]
    BY ManifestWrittenVersion
<1>2. /\ work'.at \in {"none", "merge"} /\ work'.edit = NoEdit
      /\ work'.comp = work.comp \/ work'.comp = NoCompaction
    BY ManifestWrittenWork
<1>3. /\ imm' = 0 \/ (imm' = imm /\ memtable' = memtable)
      /\ memtable'[mem] = memtable[mem]
    BY ManifestWrittenMemory
<1>4. Coming' = Coming
    BY BackgroundComing DEF Background
<1>5. /\ disk.manifest.version = vs.version /\ disk.manifest.log = vs.log
      /\ UpTo(VersionEntries(vs.version), disk.manifest.seq)
      /\ disk.manifest.seq <= work.seq /\ work.seq <= vs.seq
      /\ UpTo(EditEntries(work.edit), work.seq)
      /\ UpTo(InWork, vs.seq) /\ (imm # 0 => UpTo(memtable[imm], vs.seq))
      /\ UpTo((LogEntries(disk) \cup memtable[mem]) \ Coming, vs.seq)
    BY <1>1 DEF Numbering
<1>6. LogEntries(disk') \subseteq LogEntries(disk)
    <2>1. /\ disk.manifest.log \in Nat /\ mem \in Nat /\ disk.manifest.log <= mem
          /\ disk.manifest.log = vs.log
        BY <1>1, LiveWithout
    <2>2. DOMAIN disk.logs \subseteq Nat
        BY DEF TypesInv, WakeInv, Numbered
    <2>3. \A n \in DOMAIN disk.logs : n >= disk'.manifest.log => n >= disk.manifest.log
        BY <1>1, <2>1, <2>2 DEF EditLog
    <2> QED
        BY <1>1, <2>3, LogsShrink
<1>7. InWork' \subseteq InWork
    <2>1. NoCompaction.rest = {} /\ AllEntries(NoCompaction.outputs) = {}
        BY DEF NoCompaction, AllEntries
    <2> QED
        BY <1>2, <2>1, NothingAdded DEF InWork
<1>8. VersionEntries(disk'.manifest.version) \subseteq VersionEntries(vs.version) \cup EditEntries(work.edit)
    BY <1>1, <1>5, AppliedEntries
<1>9. OneEach(Known')
    <2>1. EditEntries(work.edit) \subseteq InWork
        BY DEF InWork
    <2>2. Known' \subseteq Known
        BY <1>1, <1>3, <1>5, <1>6, <1>7, <1>8, <2>1 DEF Known, InMemory
    <2> QED
        BY <2>2, OneEachSome DEF Numbering
<1>10. UpTo(VersionEntries(disk'.manifest.version), work.seq)
    <2>1. 0 .. MaxSeq \subseteq Nat
        BY LevelDBAssumption
    <2>2. disk.manifest.seq \in Nat /\ work.seq \in Nat
        BY <2>1 DEF TypesInv, Contents, TypedWork
    <2>3. VersionEntries(vs.version) \in SUBSET Written
        BY VersionWritten DEF TypesInv, Contents
    <2>4. UpTo(VersionEntries(vs.version), work.seq)
        BY <1>5, <2>2, <2>3, UpToMore
    <2> QED
        BY <1>5, <1>8, <2>4 DEF UpTo
<1>11. UpTo((LogEntries(disk') \cup memtable'[mem]) \ Coming', vs.seq)
    BY <1>3, <1>4, <1>5, <1>6 DEF UpTo
<1>12. UpTo(InWork', vs.seq) /\ (imm' # 0 => UpTo(memtable'[imm'], vs.seq))
    BY <1>3, <1>5, <1>7 DEF UpTo
<1> QED
    BY <1>1, <1>2, <1>5, <1>9, <1>10, <1>11, <1>12 DEF Numbering

-----------------------------------------------------------------------------
(* A crash and what comes after it, as far as the numbers go. *)

LEMMA CrashLogs ==
    ASSUME TypesInv, Crash
    PROVE  LogEntries(disk') \subseteq LogEntries(disk)
<1>1. CASE disk' = disk
    BY <1>1
<1>2. CASE \E cut \in [DOMAIN disk.logs -> UNION {Cuts(disk.logs[n]) : n \in DOMAIN disk.logs}] :
            /\ \A n \in DOMAIN cut : cut[n] \in Cuts(disk.logs[n])
            /\ disk' = [disk EXCEPT !.logs = cut]
    <2>1. PICK cut \in [DOMAIN disk.logs -> UNION {Cuts(disk.logs[n]) : n \in DOMAIN disk.logs}] :
            /\ \A n \in DOMAIN cut : cut[n] \in Cuts(disk.logs[n])
            /\ disk' = [disk EXCEPT !.logs = cut]
        BY <1>2
    <2>2. disk'.logs = cut /\ disk'.manifest = disk.manifest
        BY <2>1 DEF TypesInv, WakeInv, Shape
    <2>3. \A n \in DOMAIN disk'.logs : /\ n \in DOMAIN disk.logs
                                       /\ Readable(disk'.logs[n]) \subseteq Readable(disk.logs[n])
        <3> SUFFICES ASSUME NEW n \in DOMAIN cut
                     PROVE  /\ n \in DOMAIN disk.logs
                            /\ Readable(cut[n]) \subseteq Readable(disk.logs[n])
            BY <2>2
        <3>1. n \in DOMAIN disk.logs /\ cut[n] \in Cuts(disk.logs[n])
            BY <2>1
        <3>2. disk.logs[n] \in Log
            BY <3>1 DEF TypesInv, Contents, TypedLogs
        <3> QED
            BY <3>1, <3>2, ReadableCut
    <2> QED
        BY <2>2, <2>3, LogsShrink
<1> QED
    BY <1>1, <1>2 DEF Crash

LEMMA NothingUnderWay ==
    ASSUME work' = NoWork
    PROVE  InWork' = {}
<1>1. NoWork.comp = NoCompaction /\ NoWork.edit = NoEdit
    BY DEF NoWork
<1>2. NoCompaction.rest = {} /\ AllEntries(NoCompaction.outputs) = {}
    BY DEF NoCompaction, AllEntries
<1> QED
    BY <1>1, <1>2, NothingAdded DEF InWork

LEMMA CrashNumbered ==
    ASSUME TypesInv, Numbering, Crash
    PROVE  Numbering'
<1>1. up' = "down" /\ imm' = 0 /\ work' = NoWork /\ NoWork.at = "none"
    BY DEF Crash, NoWork
<1>2. disk'.manifest = disk.manifest
    BY CrashStep DEF TypesInv
<1>3. LogEntries(disk') \subseteq LogEntries(disk)
    BY CrashLogs
<1>4. InWork' = {} /\ InMemory' = {}
    BY <1>1, NothingUnderWay DEF InMemory
<1>5. OneEach(Known')
    <2>1. Known' \subseteq Known
        BY <1>2, <1>3, <1>4 DEF Known
    <2> QED
        BY <2>1, OneEachSome DEF Numbering
<1> QED
    BY <1>1, <1>2, <1>5 DEF Numbering

LEMMA CrashNamed ==
    ASSUME TypesInv, Numbering, LogNamed, Crash
    PROVE  LogNamed'
<1>1. up' = "down" /\ up # "down" /\ disk'.manifest = disk.manifest
      /\ DOMAIN disk'.logs = DOMAIN disk.logs
    BY CrashStep DEF Crash, TypesInv
<1>2. disk.manifest.log \in DOMAIN disk.logs
    <2>1. CASE up = "up"
        BY <2>1, LiveWithout DEF TypesInv, Places
    <2> QED
        BY <1>1, <2>1 DEF LogNamed
<1> QED
    BY <1>1, <1>2 DEF LogNamed

LEMMA NewestSeqIs ==
    ASSUME NEW ents \in SUBSET Written, NEW s \in 0 .. MaxSeq
    PROVE  UpTo(ents, NewestSeq(ents, s)) /\ s <= NewestSeq(ents, s)
<1>1. 0 .. MaxSeq \subseteq Nat /\ \A e \in ents : e.seq \in 0 .. MaxSeq
    BY LevelDBAssumption DEF Written
<1>2. CASE \E e \in ents : e.seq > s
    <2> DEFINE seqs == {e.seq : e \in ents}
    <2>1. seqs \in SUBSET (0 .. MaxSeq) /\ seqs # {}
        BY <1>1, <1>2
    <2> HIDE DEF seqs
    <2>2. IsFiniteSet(seqs) /\ seqs \in SUBSET Nat
        <3>1. IsFiniteSet(0 .. MaxSeq)
            BY LevelDBAssumption, FS_Interval
        <3> QED
            BY <1>1, <2>1, <3>1, FS_Subset
    <2>3. \E n \in seqs : \A o \in seqs : o <= n
        BY <2>1, <2>2, FiniteMax
    <2>4. \E e \in ents : \A f \in ents : f.seq <= e.seq
        BY <2>3 DEF seqs
    <2>5. PICK a : a = CHOOSE e \in ents : \A f \in ents : f.seq <= e.seq
        OBVIOUS
    <2>6. a \in ents /\ \A f \in ents : f.seq <= a.seq
        BY <2>4, <2>5
    <2>7. NewestSeq(ents, s) = a.seq
        BY <1>2, <2>5 DEF NewestSeq
    <2>8. s <= a.seq
        BY <1>1, <1>2, <2>6
    <2> QED
        BY <2>6, <2>7, <2>8 DEF UpTo
<1>3. CASE ~\E e \in ents : e.seq > s
    <2>1. NewestSeq(ents, s) = s
        BY <1>3 DEF NewestSeq
    <2>2. \A e \in ents : e.seq <= s
        BY <1>1, <1>3
    <2>3. s <= s
        BY <1>1
    <2> QED
        BY <2>1, <2>2, <2>3 DEF UpTo
<1> QED
    BY <1>2, <1>3

\* What a recovery reads, and where it puts it.
LEMMA RecoverTables ==
    ASSUME TypesInv, Recover
    PROVE  \E tables :
              /\ AllEntries(tables) = LogEntries(disk) /\ Full(tables)
              /\ vs'.version = disk.manifest.version /\ vs'.log = disk.manifest.log
              /\ vs'.seq = NewestSeq(LogEntries(disk), disk.manifest.seq)
              /\ work'.at = "open" /\ work'.comp = NoCompaction
              /\ work'.edit.add = OnLevel(0, tables) /\ work'.edit.del = {}
              /\ disk.manifest.log \in DOMAIN disk.logs => disk.manifest.log <= mem'
<1> DEFINE m == disk.manifest
           logs == {n \in LiveLogs(disk) : Readable(disk.logs[n]) # {}}
           num(n) == m.next + Cardinality({o \in logs : o <= n})
           tables == {[num |-> num(n), ents |-> Readable(disk.logs[n])] : n \in logs}
           used == {m.next + Cardinality(logs)} \cup LiveLogs(disk)
           last == CHOOSE n \in used : \A o \in used : o <= n
           new == last + 1
<1>1. /\ vs' = [version |-> m.version, seq |-> NewestSeq(AllEntries(tables), m.seq),
                next |-> new + 1, log |-> m.log]
      /\ mem' = new
      /\ work' = [NoWork EXCEPT !.at = "open", !.seq = vs'.seq, !.next = new + 1,
                                !.edit = [NoEdit EXCEPT !.add = {0} \X tables]]
    BY DEF Recover
<1>2. AllEntries(tables) = LogEntries(disk)
    <2> HIDE DEF num
    <2>1. AllEntries(tables) = UNION {Readable(disk.logs[n]) : n \in logs}
        <3>1. \A f \in tables : \E n \in logs : f.ents = Readable(disk.logs[n])
            OBVIOUS
        <3>2. ASSUME NEW n \in logs PROVE \E f \in tables : f.ents = Readable(disk.logs[n])
            <4> HIDE DEF logs
            <4>1. [num |-> num(n), ents |-> Readable(disk.logs[n])] \in tables
                OBVIOUS
            <4> HIDE DEF tables
            <4> QED
                BY <4>1
        <3> HIDE DEF tables, logs
        <3>3. \A e : e \in AllEntries(tables) <=> \E f \in tables : e \in f.ents
            BY DEF AllEntries
        <3>4. \A e : e \in UNION {Readable(disk.logs[n]) : n \in logs}
                        <=> \E n \in logs : e \in Readable(disk.logs[n])
            <4> DEFINE read == {Readable(disk.logs[n]) : n \in logs}
            <4>1. \A r : r \in read <=> \E n \in logs : r = Readable(disk.logs[n])
                OBVIOUS
            <4> HIDE DEF read
            <4>2. \A e : e \in UNION read <=> \E r \in read : e \in r
                OBVIOUS
            <4>3. \A e : e \in UNION read <=> \E n \in logs : e \in Readable(disk.logs[n])
                BY <4>1, <4>2
            <4> QED
                BY <4>3 DEF read
        <3>5. \A e : e \in AllEntries(tables) <=> e \in UNION {Readable(disk.logs[n]) : n \in logs}
            BY <3>1, <3>2, <3>3, <3>4
        <3> QED
            BY <3>5
    <2>2. UNION {Readable(disk.logs[n]) : n \in logs} = LogEntries(disk)
        BY DEF LogEntries
    <2> QED
        BY <2>1, <2>2
<1>3. Full(tables)
    <2> HIDE DEF num
    <2> QED
        BY DEF Full
<1>4. m.log \in DOMAIN disk.logs => m.log <= new
    <2>1. IsFiniteSet(logs) /\ IsFiniteSet(LiveLogs(disk)) /\ LiveLogs(disk) \subseteq Nat
        BY FS_Subset DEF LiveLogs, TypesInv, WakeInv, Numbered, Finite
    <2>2. m.next \in Nat
        BY DEF TypesInv, WakeInv, Numbered
    <2>3. m.log \in DOMAIN disk.logs => m.log \in LiveLogs(disk) /\ m.log \in Nat
        BY DEF LiveLogs, TypesInv, WakeInv, Numbered
    <2> HIDE DEF logs, m
    <2>4. Cardinality(logs) \in Nat
        BY <2>1, FS_CardinalityType
    <2>5. used \subseteq Nat /\ used # {}
        BY <2>1, <2>2, <2>4
    <2>6. IsFiniteSet(used)
        BY <2>1, FS_AddElement, FS_Singleton, FS_Union
    <2>7. m.log \in DOMAIN disk.logs => m.log \in used
        BY <2>3
    <2> HIDE DEF used
    <2>8. \E n \in used : \A o \in used : o <= n
        BY <2>5, <2>6, FiniteMax
    <2>9. last \in used /\ \A o \in used : o <= last
        BY <2>8
    <2> HIDE DEF last
    <2> QED
        BY <2>3, <2>5, <2>7, <2>9
<1> HIDE DEF tables, new
<1>5. vs'.version = m.version /\ vs'.log = m.log /\ vs'.seq = NewestSeq(AllEntries(tables), m.seq)
    BY <1>1
<1>6. /\ work'.at = "open" /\ work'.comp = NoCompaction
      /\ work'.edit.add = {0} \X tables /\ work'.edit.del = {}
    BY <1>1 DEF NoWork, NoEdit
<1>7. {0} \X tables = OnLevel(0, tables)
    BY DEF OnLevel
<1> QED
    BY <1>1, <1>2, <1>3, <1>4, <1>5, <1>6, <1>7

LEMMA RecoverLogs ==
    ASSUME TypesInv, Recover
    PROVE  /\ LogEntries(disk') \subseteq LogEntries(disk) /\ DOMAIN disk.logs \subseteq DOMAIN disk'.logs
           /\ memtable'[mem'] = {} /\ mem' \in Nat
<1>1. PICK new \in Nat :
              /\ mem' = new /\ memtable' = [n \in {new} |-> {}]
              /\ disk'.logs = [n \in DOMAIN disk.logs \cup {new} |->
                                IF n = new THEN NoLog ELSE disk.logs[n]]
    <2>1. PICK tables \in SUBSET File, new \in Nat :
              /\ mem' = new /\ memtable' = [n \in {new} |-> {}]
              /\ disk'.logs = [n \in DOMAIN disk.logs \cup {new} |->
                                IF n = new THEN NoLog ELSE disk.logs[n]]
        BY RecoverReads
    <2> QED
        BY <2>1
<1>2. disk'.manifest = disk.manifest
    BY RecoverStep DEF TypesInv
<1>3. \A n \in DOMAIN disk'.logs :
            \/ Readable(disk'.logs[n]) = {}
            \/ n \in DOMAIN disk.logs /\ Readable(disk'.logs[n]) \subseteq Readable(disk.logs[n])
    BY <1>1, NothingLogged
<1> QED
    BY <1>1, <1>2, <1>3, LogsShrink

LEMMA RecoverNumbered ==
    ASSUME TypesInv, Numbering, LogNamed, Recover
    PROVE  Numbering' /\ LogNamed'
<1>1. PICK tables :
              /\ AllEntries(tables) = LogEntries(disk) /\ Full(tables)
              /\ vs'.version = disk.manifest.version /\ vs'.log = disk.manifest.log
              /\ vs'.seq = NewestSeq(LogEntries(disk), disk.manifest.seq)
              /\ work'.at = "open" /\ work'.comp = NoCompaction
              /\ work'.edit.add = OnLevel(0, tables) /\ work'.edit.del = {}
              /\ disk.manifest.log \in DOMAIN disk.logs => disk.manifest.log <= mem'
    BY RecoverTables
<1>2. /\ LogEntries(disk') \subseteq LogEntries(disk) /\ DOMAIN disk.logs \subseteq DOMAIN disk'.logs
      /\ memtable'[mem'] = {}
    BY RecoverLogs
<1>3. /\ up = "down" /\ up' = "opening" /\ UNCHANGED <<imm, group>>
      /\ disk'.manifest = disk.manifest
    BY RecoverStep DEF TypesInv
<1>4. imm' = 0
    BY <1>3 DEF TypesInv, WakeInv, Closed
<1>5. InWork' = LogEntries(disk)
    <2>1. PICK edit : edit = work'.edit
        OBVIOUS
    <2>2. EditEntries(edit) = LogEntries(disk)
        BY <1>1, <2>1, LevelAdded
    <2>3. NoCompaction.rest = {} /\ AllEntries(NoCompaction.outputs) = {}
        BY DEF NoCompaction, AllEntries
    <2> QED
        BY <1>1, <2>1, <2>2, <2>3 DEF InWork
<1>6. OneEach(Known')
    <2>1. InMemory' = {}
        BY <1>2, <1>4 DEF InMemory
    <2>2. Known' \subseteq Known
        BY <1>2, <1>3, <1>5, <2>1 DEF Known
    <2> QED
        BY <2>2, OneEachSome DEF Numbering
<1>7. UpTo(LogEntries(disk), vs'.seq) /\ disk.manifest.seq <= vs'.seq
    BY <1>1, LogsWritten, NewestSeqIs DEF TypesInv, Contents
<1>8. UpTo((LogEntries(disk') \cup memtable'[mem']) \ Coming', vs'.seq)
    BY <1>2, <1>7 DEF UpTo
<1>9. Numbering'
    BY <1>1, <1>3, <1>4, <1>5, <1>6, <1>7, <1>8 DEF Numbering
<1>10. LogNamed'
    BY <1>1, <1>2, <1>3 DEF LogNamed
<1> QED
    BY <1>9, <1>10

LEMMA OpenedShape ==
    ASSUME TypesInv, Opened
    PROVE  /\ up = "opening" /\ up' = "up" /\ UNCHANGED <<mem, imm, memtable, group>>
           /\ imm = 0 /\ work' = NoWork
           /\ vs'.version = Apply(vs.version, work.edit) /\ vs'.log = mem /\ vs'.seq = vs.seq
           /\ disk'.manifest = vs'
           /\ DOMAIN disk'.logs \subseteq DOMAIN disk.logs
           /\ \A n \in DOMAIN disk'.logs : disk'.logs[n] = disk.logs[n]
<1>1. /\ up = "opening" /\ up' = "up" /\ UNCHANGED <<imm, group>>
      /\ vs' = Reopened
      /\ Reopened.version = Apply(vs.version, work.edit)
      /\ DOMAIN Renewed = DOMAIN disk /\ Renewed.manifest = Reopened
      /\ Renewed.logs = disk.logs
      /\ disk' = Collected(Renewed, Reopened, NoCompaction, {}, FALSE)
      /\ work' = NoWork
    BY OpenedStep DEF TypesInv
<1>2. mem' = mem /\ memtable' = memtable
    BY DEF Opened, memVars
<1>3. imm = 0
    BY <1>1 DEF TypesInv, WakeInv, Closed
<1>4. Reopened.log = mem /\ Reopened.seq = vs.seq
    BY DEF Reopened, TypesInv, WakeInv, Shape, Versions
<1>5. /\ disk'.manifest = Reopened /\ DOMAIN disk'.logs \subseteq DOMAIN disk.logs
      /\ \A n \in DOMAIN disk'.logs : disk'.logs[n] = disk.logs[n]
    <2>1. PICK d, v : d = Renewed /\ v = Reopened
        OBVIOUS
    <2>2. PICK none, err : none = {} /\ err = FALSE
        OBVIOUS
    <2>3. PICK c : c = Collected(d, v, NoCompaction, none, err)
        OBVIOUS
    <2>4. DOMAIN d = {"logs", "tables", "manifest"}
        BY <1>1, <2>1 DEF TypesInv, WakeInv, Shape
    <2>5. /\ c.manifest = d.manifest /\ DOMAIN c.logs \subseteq DOMAIN d.logs
          /\ \A n \in DOMAIN c.logs : c.logs[n] = d.logs[n]
        BY <2>3, <2>4, CollectedLogs
    <2> QED
        BY <1>1, <2>1, <2>2, <2>3, <2>5
<1> QED
    BY <1>1, <1>2, <1>3, <1>4, <1>5

LEMMA OpenedNumbered ==
    ASSUME TypesInv, Numbering, LogNamed, Opened
    PROVE  Numbering' /\ LogNamed'
<1>1. /\ up = "opening" /\ up' = "up" /\ UNCHANGED <<mem, imm, memtable, group>>
      /\ imm = 0 /\ work' = NoWork
      /\ vs'.version = Apply(vs.version, work.edit) /\ vs'.log = mem /\ vs'.seq = vs.seq
      /\ disk'.manifest = vs'
      /\ DOMAIN disk'.logs \subseteq DOMAIN disk.logs
      /\ \A n \in DOMAIN disk'.logs : disk'.logs[n] = disk.logs[n]
    BY OpenedShape
<1>2. /\ disk.manifest.version = vs.version /\ disk.manifest.log = vs.log
      /\ disk.manifest.seq <= vs.seq
      /\ UpTo(VersionEntries(vs.version), disk.manifest.seq)
      /\ UpTo(InWork, vs.seq)
      /\ UpTo((LogEntries(disk) \cup memtable[mem]) \ Coming, vs.seq)
    BY <1>1 DEF Numbering
<1>3. Coming = {} /\ Coming' = {}
    BY <1>1 DEF Coming, TypesInv, WakeInv, Closed
<1>4. LogEntries(disk') \subseteq LogEntries(disk)
    <2>1. disk.manifest.log \in Nat /\ disk.manifest.log <= mem /\ mem \in Nat
          /\ DOMAIN disk.logs \subseteq Nat
        BY <1>1 DEF LogNamed, TypesInv, Places, WakeInv, Numbered
    <2>2. disk'.manifest.log = mem
        BY <1>1
    <2>3. \A n \in DOMAIN disk.logs : n >= disk'.manifest.log => n >= disk.manifest.log
        BY <2>1, <2>2
    <2> QED
        BY <1>1, <2>3, LogsShrink
<1>5. InWork' = {} /\ NoWork.at = "none"
    BY <1>1, NothingUnderWay DEF NoWork
<1>6. EditEntries(work.edit) \subseteq InWork
    BY DEF InWork
<1>7. VersionEntries(vs'.version) \subseteq VersionEntries(vs.version) \cup EditEntries(work.edit)
    BY <1>1, AppliedEntries
<1>8. OneEach(Known')
    <2>1. InMemory' = InMemory
        BY <1>1 DEF InMemory
    <2>2. Known' \subseteq Known
        BY <1>1, <1>2, <1>4, <1>5, <1>6, <1>7, <2>1 DEF Known
    <2> QED
        BY <2>2, OneEachSome DEF Numbering
<1>9. vs.seq \in Nat /\ disk.manifest.seq \in Nat /\ vs.seq <= vs.seq
    <2>1. 0 .. MaxSeq \subseteq Nat
        BY LevelDBAssumption
    <2> QED
        BY <2>1 DEF TypesInv, Room, Contents
<1>10. UpTo(VersionEntries(vs'.version), vs'.seq)
    <2>1. VersionEntries(vs.version) \in SUBSET Written
        BY VersionWritten DEF TypesInv, Contents
    <2>2. UpTo(VersionEntries(vs.version), vs.seq)
        BY <1>2, <1>9, <2>1, UpToMore
    <2> QED
        BY <1>1, <1>2, <1>6, <1>7, <2>2 DEF UpTo
<1>11. UpTo((LogEntries(disk') \cup memtable'[mem']) \ Coming', vs'.seq)
    BY <1>1, <1>2, <1>3, <1>4 DEF UpTo
<1>12. UpTo(InWork', vs'.seq)
    BY <1>5 DEF UpTo
<1>13. Numbering'
    BY <1>1, <1>5, <1>8, <1>9, <1>10, <1>11, <1>12 DEF Numbering
<1>14. LogNamed'
    BY <1>1 DEF LogNamed
<1> QED
    BY <1>13, <1>14

-----------------------------------------------------------------------------
(* Writers and readers leave the levels alone. *)

\* What the writers and the readers may do.
Quiet ==
    /\ work' = work /\ up' = up
    /\ vs'.version = vs.version
    /\ disk'.manifest = disk.manifest
    /\ imm' # 0 => memtable'[imm'] # {}

LEMMA QuietFits ==
    ASSUME Filled, Fitting, Quiet
    PROVE  Filled' /\ Fitting'
BY DEF Filled, Fitting, Quiet

LEMMA QuietFront ==
    ASSUME TypesInv, Filled, up = "up",
           NEW q, NEW calls, AtFront(q, calls), UNCHANGED frontRest
    PROVE  Quiet
<1>1. UNCHANGED <<up, work>>
    BY DEF frontRest
<1>2. CASE UNCHANGED <<vs, disk, mem, imm, memtable>>
    BY <1>1, <1>2 DEF Quiet, Filled
<1>3. CASE SwitchMemTable /\ ~HasRoom
    <2>1. mem \in DOMAIN memtable /\ mem # vs.next
        BY DEF TypesInv, Places, WakeInv, Shape
    <2>2. imm' = mem /\ memtable'[mem] = memtable[mem]
        BY <1>3, <2>1 DEF SwitchMemTable
    <2>3. memtable[mem] # {}
        <3>1. Cardinality({}) = 0 /\ BufferSize \in Nat
            BY FS_EmptySet, LevelDBAssumption
        <3> QED
            BY <1>3, <3>1 DEF HasRoom
    <2>4. vs'.version = vs.version /\ disk'.manifest = disk.manifest
        BY <1>3 DEF SwitchMemTable, TypesInv, WakeInv, Shape, Versions
    <2> QED
        BY <1>1, <2>2, <2>3, <2>4 DEF Quiet
<1>4. UNCHANGED <<vs, disk, mem, imm, memtable>> \/ (SwitchMemTable /\ ~HasRoom)
    BY DEF AtFront, fileVars, memVars
<1> QED
    BY <1>2, <1>3, <1>4

LEMMA QuietWriter ==
    ASSUME TypesInv, Filled, NEW w \in Writer,
           \/ \E b \in Batch, sync \in SyncOption : Write(w, b, sync)
           \/ Proceed(w) \/ Return(w)
    PROVE  Quiet
<1>1. CASE up = "up" /\ UNCHANGED frontRest /\ \E q, calls : AtFront(q, calls)
    BY <1>1, QuietFront
<1>2. CASE UNCHANGED <<fileVars, memVars>> /\ UNCHANGED frontRest
    <2>1. UNCHANGED <<vs, disk, imm, memtable, work, up>>
        BY <1>2 DEF fileVars, memVars, frontRest
    <2> QED
        BY <2>1 DEF Quiet, Filled
<1>3. CASE \E b \in Batch, sync \in SyncOption : Write(w, b, sync)
    BY <1>1, <1>2, <1>3 DEF Write
<1>4. CASE Proceed(w)
    <2>1. up = "up"
        BY <1>4 DEF Proceed, TypesInv, WakeInv, Closed
    <2> QED
        BY <1>1, <1>4, <2>1 DEF Proceed
<1>5. CASE Return(w)
    <2>1. UNCHANGED <<vs, disk, imm, memtable, work, up>>
        BY <1>5 DEF Return, fileVars, memVars, frontRest
    <2> QED
        BY <2>1 DEF Quiet, Filled
<1> QED
    BY <1>3, <1>4, <1>5

LEMMA QuietUnlocked ==
    ASSUME TypesInv, Filled, AddRecord \/ Sync \/ Insert \/ Finish
    PROVE  Quiet
<1>1. /\ UNCHANGED <<up, work, imm, mem>> /\ vs'.version = vs.version
      /\ disk'.manifest = disk.manifest
    BY DEF AddRecord, Sync, Insert, Finish, LogRec, groupRest, workVars, memVars,
       TypesInv, WakeInv, Shape, Versions
<1>2. imm # 0 => imm \in DOMAIN memtable /\ imm # mem
    BY DEF TypesInv, Places
<1>3. imm # 0 => memtable'[imm] = memtable[imm]
    <2>1. memtable' = memtable \/ memtable' = [memtable EXCEPT ![mem] = @ \cup GroupEntries]
        BY DEF AddRecord, Sync, Insert, Finish, memVars
    <2> QED
        BY <1>2, <2>1
<1> QED
    BY <1>1, <1>3 DEF Quiet, Filled

LEMMA QuietReading ==
    ASSUME TypesInv, Filled, Reading
    PROVE  Quiet
<1>1. UNCHANGED <<up, vs, disk, mem, imm, work>>
    BY DEF Reading, GetSnapshot, ReleaseSnapshot, BeginRead, EndRead, readRest, fileVars, writeVars
<1>2. memtable' = memtable \/ memtable' = InUse(memtable, imm, reading')
    BY DEF Reading, GetSnapshot, ReleaseSnapshot, BeginRead, EndRead
<1>3. imm # 0 => imm \in DOMAIN memtable
    BY DEF TypesInv, Places
<1>4. imm # 0 => memtable'[imm] = memtable[imm]
    BY <1>2, <1>3 DEF InUse
<1> QED
    BY <1>1, <1>4 DEF Quiet, Filled

\* While the database is open the manifest names a log that is there.
LEMMA NamedStill ==
    ASSUME LogNamed, up' = "up" \/ UNCHANGED <<up, mem, disk>>
    PROVE  LogNamed'
BY DEF LogNamed

LEMMA WriterNamed ==
    ASSUME TypesInv, LogNamed,
           \/ \E w \in Writer, b \in Batch, sync \in SyncOption : Write(w, b, sync)
           \/ Writing \/ Background \/ Reading
    PROVE  LogNamed'
<1>1. CASE \E w \in Writer, b \in Batch, sync \in SyncOption : Write(w, b, sync)
    BY <1>1, NamedStill DEF Write, frontRest
<1>2. CASE \E w \in Writer : Proceed(w) \/ Return(w)
    BY <1>2, NamedStill DEF Proceed, Return, frontRest, TypesInv, WakeInv, Closed, fileVars, memVars
<1>3. CASE AddRecord \/ Sync \/ Insert \/ Finish
    BY <1>3, NamedStill DEF AddRecord, Sync, Insert, Finish, groupRest, TypesInv, WakeInv, Closed
<1>4. CASE Background
    <2>1. up' = up
        BY <1>4, BackgroundSame DEF TypesInv
    <2>2. up = "up"
        BY <1>4 DEF Background, NothingToDo, BeginFlush, EndOfTable, Pick, WriteOutput,
           InstallCompactionResults, ManifestWritten, ManifestFails, TypesInv, WakeInv, Closed, Shape
    <2> QED
        BY <2>1, <2>2, NamedStill
<1>5. CASE Reading
    BY <1>5, NamedStill DEF Reading, GetSnapshot, ReleaseSnapshot, BeginRead, EndRead, readRest,
       fileVars
<1> QED
    BY <1>1, <1>2, <1>3, <1>4, <1>5 DEF Writing

-----------------------------------------------------------------------------
(* No file is empty. *)

LEMMA NothingFilled ==
    /\ Full({p[2] : p \in NoEdit.add}) /\ Full(NoCompaction.outputs)
    /\ Full({})
BY NothingAdded DEF Full, NoCompaction

LEMMA FullSome == ASSUME NEW S, NEW T \in SUBSET S, Full(S) PROVE Full(T)
BY DEF Full

\* Those of the background thread, but for the manifest.
LEMMA MergingFilled ==
    ASSUME TypesInv, Numbering, Filled, Merging
    PROVE  Filled'
<1>1. /\ up = "up" /\ UNCHANGED <<imm, memtable>>
      /\ disk'.manifest = disk.manifest /\ disk.manifest.version = vs.version
    BY MergingStill DEF Numbering
<1>2. Full({p[2] : p \in work'.edit.add}) /\ Full(work'.comp.outputs)
    <2>1. CASE work' = NoWork
        BY <2>1, NothingFilled, NoWorkShape
    <2>2. CASE BeginFlush
        BY <2>2 DEF BeginFlush, TypesInv, WakeInv, Shape, Filled
    <2>3. CASE EndOfTable
        <3>1. CASE work'.edit = NoEdit /\ work'.comp = work.comp
            BY <3>1, NothingFilled DEF Filled
        <3>2. CASE \E l : /\ work'.edit.add = OnLevel(l, {[num |-> work.num, ents |-> memtable[imm]]})
                          /\ work'.comp = work.comp
            <4>1. PICK edit : edit = work'.edit
                OBVIOUS
            <4>2. PICK f : f = [num |-> work.num, ents |-> memtable[imm]]
                OBVIOUS
            <4>3. PICK l : edit.add = OnLevel(l, {f})
                BY <3>2, <4>1, <4>2
            <4>4. {p[2] : p \in edit.add} = {f}
                BY <4>3, LevelAdded
            <4>5. f.ents # {}
                BY <2>3, <4>2, EndOfTableWork DEF Filled
            <4> QED
                BY <3>2, <4>1, <4>4, <4>5 DEF Full, Filled
        <3> QED
            BY <2>3, <3>1, <3>2, EndOfTableWork
    <2>4. CASE Pick
        <3> DEFINE Choice(l, inputs) ==
                \/ work'.edit = NoEdit /\ work'.comp.outputs = {}
                \/ work'.comp = NoCompaction /\ work'.edit.add = OnLevel(l + 1, inputs[1])
        <3>1. PICK l \in Lower : \E f \in vs.version[l] :
                \E inputs \in SetupOtherInputs(vs.version, l, Picked(vs.version, l, f)) : Choice(l, inputs)
            BY <2>4, PickWork
        <3>2. PICK f \in vs.version[l] :
                \E inputs \in SetupOtherInputs(vs.version, l, Picked(vs.version, l, f)) : Choice(l, inputs)
            BY <3>1
        <3>3. PICK inputs \in SetupOtherInputs(vs.version, l, Picked(vs.version, l, f)) : Choice(l, inputs)
            BY <3>2
        <3>4. l \in Level /\ Picked(vs.version, l, f) \subseteq vs.version[l]
            <4>1. l \in Level
                BY LevelsTyped
            <4> QED
                BY <4>1 DEF Picked, GetOverlappingInputs, Overlapping
        <3>5. inputs[1] \subseteq vs.version[l]
            BY <3>3, <3>4, BothFound
        <3>6. Full(inputs[1])
            BY <1>1, <3>4, <3>5, FullSome DEF Filled
        <3>7. CASE work'.comp = NoCompaction /\ work'.edit.add = OnLevel(l + 1, inputs[1])
            <4>1. PICK edit : edit = work'.edit
                OBVIOUS
            <4>2. {p[2] : p \in edit.add} = inputs[1]
                BY <3>7, <4>1, LevelAdded
            <4> QED
                BY <3>6, <3>7, <4>1, <4>2, NothingFilled
        <3> QED
            BY <3>3, <3>7, NothingFilled
    <2>5. CASE WriteOutput
        <3>1. CASE \E e \in work.comp.rest :
                /\ work'.edit = work.edit
                /\ work'.comp.outputs = work.comp.outputs \cup
                        {[num |-> vs.next, ents |-> {d \in work.comp.rest : ~Precedes(e, d)}]}
            <4>1. PICK e \in work.comp.rest :
                /\ work'.edit = work.edit
                /\ work'.comp.outputs = work.comp.outputs \cup
                        {[num |-> vs.next, ents |-> {d \in work.comp.rest : ~Precedes(e, d)}]}
                BY <3>1
            <4>2. e \in Written
                BY DEF TypesInv, Contents, TypedWork, TypedMerge
            <4>3. ~Precedes(e, e)
                BY <4>2, OrderOfEntries
            <4>4. {d \in work.comp.rest : ~Precedes(e, d)} # {}
                BY <4>3
            <4>5. PICK f : f = [num |-> vs.next, ents |-> {d \in work.comp.rest : ~Precedes(e, d)}]
                OBVIOUS
            <4>6. f.ents # {} /\ work'.comp.outputs = work.comp.outputs \cup {f}
                BY <4>1, <4>4, <4>5
            <4> QED
                BY <4>1, <4>6 DEF Full, Filled
        <3> QED
            BY <2>1, <2>5, <3>1, WriteOutputWork
    <2>6. CASE InstallCompactionResults
        <3>1. /\ work'.comp = work.comp
              /\ work'.edit.add = OnLevel(work.comp.level + 1, work.comp.outputs)
            BY <2>6, InstallWork
        <3>2. PICK edit : edit = work'.edit
            OBVIOUS
        <3>3. PICK l, outputs : l = work.comp.level + 1 /\ outputs = work.comp.outputs
            OBVIOUS
        <3>4. {p[2] : p \in edit.add} = outputs
            BY <3>1, <3>2, <3>3, LevelAdded
        <3> QED
            BY <3>1, <3>2, <3>3, <3>4 DEF Filled
    <2>7. CASE NothingToDo
        BY <2>1, <2>7 DEF NothingToDo, EndOfCall
    <2> QED
        BY <2>2, <2>3, <2>4, <2>5, <2>6, <2>7 DEF Merging
<1> QED
    BY <1>1, <1>2 DEF Filled

LEMMA AppliedFull ==
    ASSUME NEW v, NEW edit, \A l \in Level : Full(v[l]), Full({p[2] : p \in edit.add})
    PROVE  \A l \in Level : Full(Apply(v, edit)[l])
BY DEF Apply, Full

LEMMA ManifestWrittenFilled ==
    ASSUME TypesInv, Filled, ManifestWritten
    PROVE  Filled'
<1>1. disk'.manifest.version = Apply(disk.manifest.version, work.edit)
    BY ManifestWrittenVersion
<1>2. /\ work'.edit = NoEdit
      /\ work'.comp = work.comp \/ work'.comp = NoCompaction
    BY ManifestWrittenWork
<1>3. imm' = 0 \/ (imm' = imm /\ memtable' = memtable)
    BY ManifestWrittenMemory
<1>4. \A l \in Level : Full(disk'.manifest.version[l])
    BY <1>1, AppliedFull DEF Filled
<1>5. Full({p[2] : p \in work'.edit.add}) /\ Full(work'.comp.outputs)
    BY <1>2, NothingFilled DEF Filled
<1> QED
    BY <1>3, <1>4, <1>5 DEF Filled

LEMMA RestartFilled ==
    ASSUME TypesInv, Numbering, Filled, Crash \/ Recover \/ Opened
    PROVE  Filled'
<1>1. CASE Crash
    <2>1. work' = NoWork /\ imm' = 0
        BY <1>1 DEF Crash
    <2>2. disk'.manifest = disk.manifest
        BY <1>1, CrashStep DEF TypesInv
    <2> QED
        BY <2>1, <2>2, NothingFilled, NoWorkShape DEF Filled
<1>2. CASE Recover
    <2>1. disk'.manifest = disk.manifest /\ imm' = 0
        BY <1>2, RecoverStep DEF TypesInv, WakeInv, Closed
    <2>2. PICK tables : Full(tables) /\ work'.comp = NoCompaction /\ work'.edit.add = OnLevel(0, tables)
        BY <1>2, RecoverTables
    <2>3. PICK edit : edit = work'.edit
        OBVIOUS
    <2>4. {p[2] : p \in edit.add} = tables
        BY <2>2, <2>3, LevelAdded
    <2> QED
        BY <2>1, <2>2, <2>3, <2>4, NothingFilled DEF Filled
<1>3. CASE Opened
    <2>1. /\ imm' = 0 /\ work' = NoWork
          /\ disk'.manifest.version = Apply(vs.version, work.edit)
        BY <1>3, OpenedShape
    <2>2. vs.version = disk.manifest.version
        BY <1>3, OpenedShape DEF Numbering
    <2>3. \A l \in Level : Full(disk'.manifest.version[l])
        BY <2>1, <2>2, AppliedFull DEF Filled
    <2> QED
        BY <2>1, <2>3, NothingFilled, NoWorkShape DEF Filled
<1> QED
    BY <1>1, <1>2, <1>3

-----------------------------------------------------------------------------
(* The levels stay in order. *)

LEMMA CurrentOrderly ==
    ASSUME TypesInv, Numbering, Filled, Fitting, up # "down"
    PROVE  Orderly(vs.version)
<1>1. disk.manifest.version = vs.version
    BY DEF Numbering
<1>2. TypedVersion(vs.version) /\ FilesFinite(vs.version)
    BY DEF TypesInv, Contents, WakeInv, Finite
<1>3. OneEach(VersionEntries(vs.version))
    <2>1. VersionEntries(vs.version) \subseteq Known
        BY <1>1 DEF Known
    <2> QED
        BY <2>1, OneEachSome DEF Numbering
<1>4. \A l \in Level : Full(vs.version[l])
    BY <1>1 DEF Filled
<1> QED
    BY <1>2, <1>3, <1>4 DEF Orderly, Fitting

\* Files of known entries have ends.
LEMMA KnownBounded ==
    ASSUME TypesInv, Numbering, NEW S, Full(S), AllEntries(S) \subseteq Known
    PROVE  \A f \in S : Bounded(f)
<1>1. AllEntries(S) \subseteq Written
    BY KnownWritten
<1>2. OneEach(AllEntries(S))
    BY OneEachSome DEF Numbering
<1> QED
    BY <1>1, <1>2, FilesBounded DEF Proper

LEMMA NothingMerges == ASSUME NEW v PROVE Merges(v, NoCompaction)
<1>1. /\ NoCompaction.inputs[1] = {} /\ NoCompaction.inputs[2] = {}
      /\ NoCompaction.rest = {} /\ NoCompaction.outputs = {}
    BY DEF NoCompaction
<1>2. AllEntries({}) = {} /\ {} \cup {} = {}
    BY DEF AllEntries
<1>3. Joined({})
    BY DEF Joined
<1> QED
    BY <1>1, <1>2, <1>3 DEF Merges, Disjoint, Beside

\* The levels with an edit that adds files to one of them.
LEMMA AppliedOn ==
    ASSUME NEW v, NEW edit, NEW l, NEW S, edit.add = OnLevel(l, S), NEW m \in Level
    PROVE  Apply(v, edit)[m] = {f \in v[m] : <<m, f>> \notin edit.del}
                               \cup (IF m = l THEN S ELSE {})
<1>1. {p[2] : p \in {q \in edit.add : q[1] = m}} = IF m = l THEN S ELSE {}
    <2>1. CASE m = l
        <3>1. {q \in edit.add : q[1] = m} = edit.add
            BY <2>1 DEF OnLevel
        <3> QED
            BY <2>1, <3>1, LevelAdded
    <2>2. CASE m # l
        <3>1. {q \in edit.add : q[1] = m} = {}
            BY <2>2 DEF OnLevel
        <3> QED
            BY <2>2, <3>1
    <2> QED
        BY <2>1, <2>2
<1> QED
    BY <1>1 DEF Apply

LEMMA AppliedAdds ==
    ASSUME NEW v, NEW edit, NEW l, NEW S, edit.del = {}, edit.add = OnLevel(l, S),
           NEW m \in Level
    PROVE  Apply(v, edit)[m] = v[m] \cup (IF m = l THEN S ELSE {})
<1>2. Apply(v, edit)[m] = {f \in v[m] : <<m, f>> \notin edit.del} \cup (IF m = l THEN S ELSE {})
    BY ONLY edit.add = OnLevel(l, S), m \in Level, AppliedOn
<1>3. \A f : f \in Apply(v, edit)[m] <=> f \in v[m] \cup (IF m = l THEN S ELSE {})
    BY <1>2
<1> QED
    BY <1>3

LEMMA AppliedLeveled ==
    ASSUME NEW v, Leveled(v), NEW edit, NEW l \in Level, NEW S, edit.add = OnLevel(l, S),
           l # 0 => /\ Disjoint(S)
                    /\ \A h \in v[l], f \in S : <<l, h>> \in edit.del \/ Apart(h, f)
    PROVE  Leveled(Apply(v, edit))
<1> SUFFICES ASSUME NEW m \in Level \ {0} PROVE Disjoint(Apply(v, edit)[m])
    BY DEF Leveled
<1>1. Apply(v, edit)[m] = {f \in v[m] : <<m, f>> \notin edit.del} \cup (IF m = l THEN S ELSE {})
    BY AppliedOn
<1>2. Disjoint(v[m])
    BY DEF Leveled
<1>3. CASE m = l
    BY <1>1, <1>2, <1>3 DEF Disjoint, Apart
<1>4. CASE m # l
    BY <1>1, <1>2, <1>4 DEF Disjoint
<1> QED
    BY <1>3, <1>4

\* What has its entries among some that a file is beside of is apart from that file.
LEMMA BesideApart ==
    ASSUME NEW h, NEW ents, Beside(h, ents), NEW f, Bounded(f), f.ents \subseteq ents
    PROVE  Apart(h, f)
BY DEF Beside, Apart, Bounded

\* A file that none of some joined files overlaps is beside them.
LEMMA AloneBeside ==
    ASSUME NEW f, Bounded(f), NEW both, Joined(both), \A g \in both : Bounded(g),
           \A g \in both : ~Overlap(g, Smallest(f).key, Largest(f).key)
    PROVE  Beside(f, AllEntries(both))
<1> DEFINE lo == Smallest(f).key
           hi == Largest(f).key
<1>1. lo \in Nat /\ hi \in Nat /\ lo <= hi
    BY DEF Bounded
<1>2. \A g \in both : /\ Smallest(g).key \in Nat /\ Largest(g).key \in Nat
                      /\ Smallest(g).key <= Largest(g).key
                      /\ hi < Smallest(g).key \/ Largest(g).key < lo
    BY <1>1 DEF Bounded, Overlap
<1> HIDE DEF lo, hi
<1>3. \A g \in both : ~Covers(g, lo)
    BY <1>1, <1>2 DEF Covers
<1>4. \/ \A g \in both : lo < Smallest(g).key
      \/ \A g \in both : Largest(g).key < lo
    BY <1>1, <1>3 DEF Joined
<1>5. CASE \A g \in both : lo < Smallest(g).key
    <2>1. ASSUME NEW g \in both, NEW e \in g.ents PROVE Precedes(Largest(f), e)
        <3>1. hi < Smallest(g).key
            BY <1>1, <1>2, <1>5
        <3>2. Smallest(g).key <= e.key /\ e.key \in Nat /\ Smallest(g).key \in Nat
            BY <2>1 DEF Bounded
        <3>3. hi < e.key
            BY <1>1, <3>1, <3>2
        <3> QED
            BY <3>3 DEF Precedes, hi
    <2> QED
        BY <2>1 DEF Beside, AllEntries
<1>6. CASE \A g \in both : Largest(g).key < lo
    <2>1. ASSUME NEW g \in both, NEW e \in g.ents PROVE Precedes(e, Smallest(f))
        <3>1. Largest(g).key < lo
            BY <1>6
        <3>2. e.key <= Largest(g).key /\ e.key \in Nat /\ Largest(g).key \in Nat
            BY <2>1 DEF Bounded
        <3>3. e.key < lo
            BY <1>1, <3>1, <3>2
        <3> QED
            BY <3>3 DEF Precedes, lo
    <2> QED
        BY <2>1 DEF Beside, AllEntries
<1> QED
    BY <1>4, <1>5, <1>6

\* A file on a level but the first that overlaps none of it and none above.
LEMMA FlushFits ==
    ASSUME NEW v, Orderly(v), NEW f, Bounded(f), NEW l \in Level,
           l \in PickLevelForMemTableOutput(v, Smallest(f).key, Largest(f).key),
           NEW edit, edit.del = {}, edit.add = OnLevel(l, {f}),
           NEW c, Merges(v, c), c.level \in Lower
    PROVE  Leveled(Apply(v, edit)) /\ Merges(Apply(v, edit), c)
<1> DEFINE lo == Smallest(f).key
           hi == Largest(f).key
<1>1. l # 0 => \A m \in 0 .. l : \A g \in v[m] : ~Overlap(g, lo, hi)
    BY DEF PickLevelForMemTableOutput, Overlapping, Overlap
<1>2. \A m \in Level : \A g \in v[m] : Bounded(g)
    BY LevelsProper
<1>3. l \in Nat /\ l \in 0 .. l
    BY VersionSetAssumption DEF Level
<1>4. l # 0 => \A h \in v[l] : Apart(h, f)
    <2> SUFFICES ASSUME l # 0, NEW h \in v[l] PROVE Apart(h, f)
        OBVIOUS
    <2>1. ~Overlap(h, lo, hi) /\ Bounded(h)
        BY <1>1, <1>2, <1>3
    <2>2. hi < Smallest(h).key \/ Largest(h).key < lo
        BY <2>1 DEF Overlap, Bounded
    <2> QED
        BY <2>2 DEF Apart, Precedes
<1>5. Disjoint({f})
    BY DEF Disjoint
<1>6. Leveled(Apply(v, edit))
    <2>1. Leveled(v)
        BY DEF Orderly
    <2> QED
        BY <1>4, <1>5, <2>1, AppliedLeveled
<1>7. c.level \in Level /\ c.level + 1 \in Level \ {0} /\ c.level \in Nat
    BY LowerLevels, VersionSetAssumption DEF Level
<1>8. \A m \in Level : Apply(v, edit)[m] = v[m] \cup (IF m = l THEN {f} ELSE {})
    <2>1. PICK S : S = {f}
        OBVIOUS
    <2>2. edit.add = OnLevel(l, S)
        BY <2>1
    <2>3. \A m \in Level : Apply(v, edit)[m] = v[m] \cup (IF m = l THEN S ELSE {})
        BY <2>2, AppliedAdds
    <2> QED
        BY <2>1, <2>3
<1> DEFINE both == c.inputs[1] \cup c.inputs[2]
<1>9. /\ c.inputs[1] \subseteq v[c.level] /\ c.inputs[2] \subseteq v[c.level + 1]
      /\ Joined(both)
      /\ c.rest \cup AllEntries(c.outputs) \subseteq AllEntries(both)
      /\ \A h \in v[c.level + 1] \ c.inputs[2] : Beside(h, AllEntries(both))
      /\ \A e \in AllEntries(c.outputs), d \in c.rest : Precedes(e, d)
      /\ Disjoint(c.outputs)
    BY DEF Merges
<1>10. l = c.level + 1 => Beside(f, AllEntries(both))
    <2> SUFFICES ASSUME l = c.level + 1 PROVE Beside(f, AllEntries(both))
        OBVIOUS
    <2>1. l # 0 /\ c.level \in 0 .. l
        BY <1>7
    <2>2. \A g \in both : (g \in v[c.level] \/ g \in v[l])
        BY <1>9
    <2>3. \A g \in both : Bounded(g) /\ ~Overlap(g, lo, hi)
        BY <1>1, <1>2, <1>3, <1>7, <2>1, <2>2
    <2> HIDE DEF both
    <2> QED
        BY <1>9, <2>3, AloneBeside
<1>11. /\ c.inputs[1] \subseteq Apply(v, edit)[c.level]
       /\ c.inputs[2] \subseteq Apply(v, edit)[c.level + 1]
    BY <1>7, <1>8, <1>9
<1>12. \A h \in Apply(v, edit)[c.level + 1] \ c.inputs[2] : Beside(h, AllEntries(both))
    BY <1>7, <1>8, <1>9, <1>10
<1>13. Merges(Apply(v, edit), c)
    BY <1>9, <1>11, <1>12 DEF Merges
<1> QED
    BY <1>6, <1>13

\* What is picked can be merged, or moved.
LEMMA PickFits ==
    ASSUME NEW v, Orderly(v), NEW l \in Lower, NEW f \in v[l],
           NEW inputs \in SetupOtherInputs(v, l, Picked(v, l, f)),
           NEW c, c.level = l, c.inputs = inputs, c.outputs = {},
           c.rest \subseteq AllEntries(inputs[1] \cup inputs[2])
    PROVE  Merges(v, c)
<1>1. /\ inputs[1] \subseteq v[l] /\ inputs[1] # {}
      /\ inputs[2] = OverlappingInputs(v, l + 1, inputs[1])
      /\ Joined(inputs[1] \cup inputs[2])
    BY InputsJoined
<1>2. inputs[2] \subseteq v[l + 1]
    BY <1>1 DEF OverlappingInputs, Overlapping
<1>3. \A h \in v[l + 1] \ inputs[2] : Beside(h, AllEntries(inputs[1] \cup inputs[2]))
    <2>1. PICK S \in SUBSET v[l] : S = inputs[1]
        BY <1>1
    <2>2. \A h \in v[l + 1] \ OverlappingInputs(v, l + 1, S) :
                Beside(h, AllEntries(S \cup OverlappingInputs(v, l + 1, S)))
        BY <1>1, <2>1, InputsBeside
    <2> QED
        BY <1>1, <2>1, <2>2
<1>4. AllEntries({}) = {} /\ Disjoint({})
    BY DEF AllEntries, Disjoint
<1> QED
    BY <1>1, <1>2, <1>3, <1>4 DEF Merges

LEMMA MoveFits ==
    ASSUME NEW v, Orderly(v), NEW l \in Lower, NEW f \in v[l],
           NEW inputs \in SetupOtherInputs(v, l, Picked(v, l, f)),
           Cardinality(inputs[1]) = 1, inputs[2] = {},
           NEW edit, edit.add = OnLevel(l + 1, inputs[1])
    PROVE  Leveled(Apply(v, edit))
<1>1. /\ inputs[1] \subseteq v[l] /\ inputs[1] # {}
      /\ inputs[2] = OverlappingInputs(v, l + 1, inputs[1])
    BY InputsJoined
<1>2. l \in Level /\ l + 1 \in Level \ {0}
    BY LowerLevels
<1>3. \E g : inputs[1] = {g}
    <2>1. IsFiniteSet(inputs[1])
        BY <1>1, <1>2, FS_Subset DEF Orderly, FilesFinite
    <2> QED
        BY <2>1, FS_Singleton
<1>4. PICK g : inputs[1] = {g}
    BY <1>3
<1>5. Bounded(g) /\ g \in v[l]
    BY <1>1, <1>2, <1>4, LevelsProper
<1>6. \A h \in v[l + 1] : Apart(h, g)
    <2> SUFFICES ASSUME NEW h \in v[l + 1] PROVE Apart(h, g)
        OBVIOUS
    <2>1. PICK S \in SUBSET v[l] : S = inputs[1] /\ S = {g}
        BY <1>1, <1>4
    <2>2. OverlappingInputs(v, l + 1, S) = {}
        BY <1>1, <2>1
    <2>3. h \in v[l + 1] \ OverlappingInputs(v, l + 1, S)
        BY <2>2
    <2>4. Beside(h, AllEntries(S \cup OverlappingInputs(v, l + 1, S)))
        BY <2>1, <2>3, InputsBeside
    <2>5. g.ents \subseteq AllEntries(S \cup OverlappingInputs(v, l + 1, S))
        BY <2>1 DEF AllEntries
    <2> QED
        BY <1>5, <2>4, <2>5, BesideApart
<1>7. Disjoint({g})
    BY DEF Disjoint
<1>8. PICK m \in Level : m = l + 1
    BY <1>2
<1>9. edit.add = OnLevel(m, {g}) /\ \A h \in v[m] : Apart(h, g)
    BY <1>4, <1>6, <1>8
<1>10. Leveled(v)
    BY DEF Orderly
<1> QED
    BY <1>7, <1>9, <1>10, AppliedLeveled

\* An output is after the others and before what is left.
LEMMA OutputFits ==
    ASSUME NEW v, NEW c, Merges(v, c),
           c.rest \subseteq Written, OneEach(c.rest), \A g \in c.outputs : Bounded(g),
           NEW e \in c.rest, NEW f, Bounded(f), f.ents = {d \in c.rest : ~Precedes(e, d)},
           NEW cc, cc.level = c.level, cc.inputs = c.inputs,
           cc.rest = {d \in c.rest : Precedes(e, d)}, cc.outputs = c.outputs \cup {f}
    PROVE  Merges(v, cc)
<1> DEFINE both == c.inputs[1] \cup c.inputs[2]
<1>1. /\ c.inputs[1] \subseteq v[c.level] /\ c.inputs[2] \subseteq v[c.level + 1]
      /\ Joined(both)
      /\ c.rest \cup AllEntries(c.outputs) \subseteq AllEntries(both)
      /\ \A h \in v[c.level + 1] \ c.inputs[2] : Beside(h, AllEntries(both))
      /\ \A a \in AllEntries(c.outputs), d \in c.rest : Precedes(a, d)
      /\ Disjoint(c.outputs)
    BY DEF Merges
<1>2. AllEntries(cc.outputs) = AllEntries(c.outputs) \cup f.ents
    BY DEF AllEntries
<1>3. cc.rest \cup AllEntries(cc.outputs) \subseteq AllEntries(both)
    BY <1>1, <1>2
<1>4. \A a \in AllEntries(cc.outputs), d \in cc.rest : Precedes(a, d)
    <2> SUFFICES ASSUME NEW a \in AllEntries(cc.outputs), NEW d \in cc.rest
                 PROVE  Precedes(a, d)
        OBVIOUS
    <2>1. CASE a \in AllEntries(c.outputs)
        BY <1>1, <2>1
    <2>2. CASE a \in f.ents
        <3>1. a \in c.rest /\ ~Precedes(e, a) /\ d \in c.rest /\ Precedes(e, d)
            BY <2>2
        <3>2. a \in Written /\ e \in Written /\ d \in Written
            BY <3>1
        <3>3. a.seq = e.seq => a = e
            BY <3>1 DEF OneEach
        <3>4. a = e \/ Precedes(a, e)
            BY <3>1, <3>2, <3>3, OrderOfEntries
        <3> QED
            BY <3>1, <3>2, <3>4, OrderOfEntries
    <2> QED
        BY <1>2, <2>1, <2>2
<1>5. \A g \in c.outputs : Apart(g, f)
    <2> SUFFICES ASSUME NEW g \in c.outputs PROVE Apart(g, f)
        OBVIOUS
    <2>1. Largest(g) \in AllEntries(c.outputs)
        BY DEF Bounded, AllEntries
    <2>2. Smallest(f) \in c.rest
        BY DEF Bounded
    <2> QED
        BY <1>1, <2>1, <2>2 DEF Apart
<1>6. Disjoint(cc.outputs)
    BY <1>1, <1>5 DEF Disjoint, Apart
<1> QED
    BY <1>1, <1>3, <1>4, <1>6 DEF Merges

\* The outputs take the place of the inputs.
LEMMA OutputsFit ==
    ASSUME NEW v, Leveled(v), NEW c, Merges(v, c), c.level \in Lower,
           \A g \in c.outputs : Bounded(g),
           NEW edit, edit.add = OnLevel(c.level + 1, c.outputs),
           \A f \in c.inputs[2] : <<c.level + 1, f>> \in edit.del
    PROVE  Leveled(Apply(v, edit))
<1>1. PICK m \in Level : m = c.level + 1
    BY LowerLevels
<1>2. PICK S : S = c.outputs
    OBVIOUS
<1> DEFINE ents == AllEntries(c.inputs[1] \cup c.inputs[2])
<1>3. /\ AllEntries(S) \subseteq ents
      /\ \A h \in v[m] \ c.inputs[2] : Beside(h, ents)
      /\ Disjoint(S)
    BY <1>1, <1>2 DEF Merges
<1> HIDE DEF ents
<1>4. \A h \in v[m], f \in S : <<m, h>> \in edit.del \/ Apart(h, f)
    <2> SUFFICES ASSUME NEW h \in v[m], NEW f \in S, <<m, h>> \notin edit.del
                 PROVE  Apart(h, f)
        OBVIOUS
    <2>1. Beside(h, ents)
        BY <1>1, <1>3
    <2>2. f.ents \subseteq ents /\ Bounded(f)
        BY <1>2, <1>3 DEF AllEntries
    <2> QED
        BY <2>1, <2>2, BesideApart
<1>5. edit.add = OnLevel(m, S)
    BY <1>1, <1>2
<1> QED
    BY <1>3, <1>4, <1>5, AppliedLeveled

LEMMA MergingFits ==
    ASSUME TypesInv, Numbering, Filled, Fitting, Merging
    PROVE  Fitting'
<1>1. /\ up = "up" /\ vs'.version = vs.version
      /\ disk'.manifest.version = disk.manifest.version
    BY MergingStill
<1>2. Orderly(vs.version) /\ Leveled(vs.version) /\ Leveled(disk.manifest.version)
      /\ Merges(vs.version, work.comp)
    BY <1>1, CurrentOrderly DEF Fitting
<1>3. \A f \in work.comp.outputs : Bounded(f)
    <2>1. AllEntries(work.comp.outputs) \subseteq Known
        BY DEF Known, InWork
    <2> QED
        BY <2>1, KnownBounded DEF Filled
<1>4. work.comp.level \in Lower /\ work.comp.rest \subseteq Written /\ OneEach(work.comp.rest)
    <2>1. work.comp.rest \subseteq Known
        BY DEF Known, InWork
    <2>2. OneEach(work.comp.rest)
        BY <2>1, OneEachSome DEF Numbering
    <2> QED
        BY <2>2, WorkShaped DEF TypedMerge
<1> SUFFICES
        /\ Merges(vs.version, work'.comp)
        /\ work'.at \in {"manifest", "open"} => Leveled(Apply(vs.version, work'.edit))
        /\ work'.at = "manifest" /\ work'.kind = "flush" =>
                Merges(Apply(vs.version, work'.edit), work'.comp)
    BY <1>1, <1>2 DEF Fitting
<1>5. CASE work' = NoWork
    BY <1>5, NothingMerges, NoWorkShape
<1>6. CASE BeginFlush
    <2>1. work'.comp = work.comp /\ work'.at = "table"
        BY <1>6 DEF BeginFlush, TypesInv, WakeInv, Shape
    <2> QED
        BY <1>2, <2>1
<1>7. CASE EndOfTable
    <2>1. CASE work'.at \in {"none", "merge"} /\ work'.comp = work.comp
        BY <1>2, <2>1
    <2>2. CASE \E l \in 0 .. MaxMemCompactLevel :
                    LET table == [num |-> work.num, ents |-> memtable[imm]]
                    IN  /\ l \in PickLevelForMemTableOutput(vs.version, Smallest(table).key,
                                                            Largest(table).key)
                        /\ work'.edit.del = {} /\ work'.edit.add = OnLevel(l, {table})
                        /\ work'.comp = work.comp
        <3>1. PICK f : f = [num |-> work.num, ents |-> memtable[imm]]
            OBVIOUS
        <3>2. PICK l \in 0 .. MaxMemCompactLevel :
                /\ l \in PickLevelForMemTableOutput(vs.version, Smallest(f).key, Largest(f).key)
                /\ work'.edit.del = {} /\ work'.edit.add = OnLevel(l, {f})
                /\ work'.comp = work.comp
            BY <2>2, <3>1
        <3>3. l \in Level
            BY VersionSetAssumption DEF Level
        <3>4. Bounded(f)
            <4>1. f.ents # {} /\ f.ents \subseteq Known
                BY <1>7, <3>1, EndOfTableWork DEF Filled, Known, InMemory
            <4>2. PICK S : S = {f}
                OBVIOUS
            <4>3. Full(S) /\ AllEntries(S) \subseteq Known
                BY <4>1, <4>2 DEF Full, AllEntries
            <4> QED
                BY <4>2, <4>3, KnownBounded
        <3>5. PICK edit, c, v : edit = work'.edit /\ c = work.comp /\ v = vs.version
            OBVIOUS
        <3>6. Leveled(Apply(v, edit)) /\ Merges(Apply(v, edit), c)
            <4>1. Orderly(v) /\ Merges(v, c) /\ c.level \in Lower
                BY <1>2, <1>4, <3>5
            <4>2. /\ edit.del = {} /\ edit.add = OnLevel(l, {f})
                  /\ l \in PickLevelForMemTableOutput(v, Smallest(f).key, Largest(f).key)
                BY <3>2, <3>5
            <4> QED
                BY <3>3, <3>4, <4>1, <4>2, FlushFits
        <3> QED
            BY <1>2, <3>2, <3>5, <3>6
    <2> QED
        BY <1>7, <2>1, <2>2, EndOfTableWork
<1>8. CASE Pick
    <2> DEFINE Merge(l, inputs) ==
                /\ work'.at = "merge"
                /\ work'.comp.level = l /\ work'.comp.inputs = inputs
                /\ work'.comp.rest \subseteq AllEntries(inputs[1] \cup inputs[2])
                /\ work'.comp.outputs = {}
               Move(l, inputs) ==
                /\ Cardinality(inputs[1]) = 1 /\ inputs[2] = {}
                /\ work'.at = "manifest" /\ work'.kind = "move"
                /\ work'.comp = NoCompaction
                /\ work'.edit.add = OnLevel(l + 1, inputs[1])
    <2>1. PICK l \in Lower : \E f \in vs.version[l] :
            \E inputs \in SetupOtherInputs(vs.version, l, Picked(vs.version, l, f)) :
                Merge(l, inputs) \/ Move(l, inputs)
        BY <1>8, PickWork
    <2>2. PICK f \in vs.version[l] :
            \E inputs \in SetupOtherInputs(vs.version, l, Picked(vs.version, l, f)) :
                Merge(l, inputs) \/ Move(l, inputs)
        BY <2>1
    <2>3. PICK inputs \in SetupOtherInputs(vs.version, l, Picked(vs.version, l, f)) :
                Merge(l, inputs) \/ Move(l, inputs)
        BY <2>2
    <2>4. PICK v, c, edit : v = vs.version /\ c = work'.comp /\ edit = work'.edit
        OBVIOUS
    <2>5. CASE Merge(l, inputs)
        <3>1. Merges(v, c)
            BY <1>2, <2>3, <2>4, <2>5, PickFits
        <3> QED
            BY <2>4, <2>5, <3>1
    <2>6. CASE Move(l, inputs)
        <3>1. Leveled(Apply(v, edit))
            BY <1>2, <2>3, <2>4, <2>6, MoveFits
        <3> QED
            BY <2>4, <2>6, <3>1, NothingMerges
    <2> QED
        BY <2>3, <2>5, <2>6
<1>9. CASE WriteOutput
    <2>1. CASE \E e \in work.comp.rest :
                /\ work'.at = "merge"
                /\ work'.comp.level = work.comp.level /\ work'.comp.inputs = work.comp.inputs
                /\ work'.comp.rest = {d \in work.comp.rest : Precedes(e, d)}
                /\ work'.comp.outputs = work.comp.outputs \cup
                        {[num |-> vs.next, ents |-> {d \in work.comp.rest : ~Precedes(e, d)}]}
        <3>1. PICK v, c, cc, next : v = vs.version /\ c = work.comp /\ cc = work'.comp /\ next = vs.next
            OBVIOUS
        <3>2. PICK e \in c.rest :
                /\ work'.at = "merge"
                /\ cc.level = c.level /\ cc.inputs = c.inputs
                /\ cc.rest = {d \in c.rest : Precedes(e, d)}
                /\ cc.outputs = c.outputs \cup {[num |-> next, ents |-> {d \in c.rest : ~Precedes(e, d)}]}
            BY <2>1, <3>1
        <3>3. PICK f : f = [num |-> next, ents |-> {d \in c.rest : ~Precedes(e, d)}]
            OBVIOUS
        <3>4. f.ents = {d \in c.rest : ~Precedes(e, d)} /\ cc.outputs = c.outputs \cup {f}
            BY <3>2, <3>3
        <3>5. Bounded(f)
            <4>1. c.rest \subseteq Known /\ c.rest \subseteq Written
                BY <1>4, <3>1 DEF Known, InWork
            <4>2. ~Precedes(e, e)
                BY <4>1, OrderOfEntries
            <4>3. f.ents # {} /\ f.ents \subseteq Known
                BY <3>4, <4>1, <4>2
            <4>4. PICK S : S = {f}
                OBVIOUS
            <4>5. Full(S) /\ AllEntries(S) \subseteq Known
                BY <4>3, <4>4 DEF Full, AllEntries
            <4> QED
                BY <4>4, <4>5, KnownBounded
        <3>6. Merges(v, c) /\ c.rest \subseteq Written /\ OneEach(c.rest) /\ \A g \in c.outputs : Bounded(g)
            BY <1>2, <1>3, <1>4, <3>1
        <3>7. Merges(v, cc)
            BY <3>2, <3>4, <3>5, <3>6, OutputFits
        <3> QED
            BY <3>1, <3>2, <3>7
    <2> QED
        BY <1>5, <1>9, <2>1, WriteOutputWork
<1>10. CASE InstallCompactionResults
    <2>1. /\ work'.at = "manifest" /\ work'.kind = "merge" /\ work'.comp = work.comp
          /\ work'.edit.add = OnLevel(work.comp.level + 1, work.comp.outputs)
          /\ \A f \in work.comp.inputs[2] : <<work.comp.level + 1, f>> \in work'.edit.del
        BY <1>10, InstallWork
    <2>2. PICK v, c, edit : v = vs.version /\ c = work.comp /\ edit = work'.edit
        OBVIOUS
    <2>3. Leveled(Apply(v, edit))
        BY <1>2, <1>3, <1>4, <2>1, <2>2, OutputsFit
    <2> QED
        BY <1>2, <2>1, <2>2, <2>3
<1>11. CASE NothingToDo
    BY <1>5, <1>11 DEF NothingToDo, EndOfCall
<1> QED
    BY <1>6, <1>7, <1>8, <1>9, <1>10, <1>11 DEF Merging

LEMMA ManifestWrittenFits ==
    ASSUME TypesInv, Numbering, Fitting, ManifestWritten
    PROVE  Fitting'
<1>1. /\ work.at = "manifest" /\ up = "up"
      /\ vs'.version = Apply(vs.version, work.edit)
      /\ disk'.manifest.version = Apply(disk.manifest.version, work.edit)
    BY ManifestWrittenVersion
<1>2. disk.manifest.version = vs.version
    BY <1>1 DEF Numbering
<1>3. Leveled(vs'.version) /\ Leveled(disk'.manifest.version)
    BY <1>1, <1>2 DEF Fitting
<1>4. /\ work'.at \in {"none", "merge"}
      /\ (work.kind = "flush" /\ work'.comp = work.comp) \/ work'.comp = NoCompaction
    BY ManifestWrittenWork
<1>5. Merges(vs'.version, work'.comp)
    <2>1. CASE work.kind = "flush" /\ work'.comp = work.comp
        BY <1>1, <2>1 DEF Fitting
    <2>2. CASE work'.comp = NoCompaction
        BY <2>2, NothingMerges
    <2> QED
        BY <1>4, <2>1, <2>2
<1> QED
    BY <1>3, <1>4, <1>5 DEF Fitting

LEMMA RestartFits ==
    ASSUME TypesInv, Numbering, Fitting, Crash \/ Recover \/ Opened
    PROVE  Fitting'
<1>1. CASE Crash
    <2>1. work' = NoWork /\ vs'.version = NoFiles
        BY <1>1 DEF Crash
    <2>2. disk'.manifest = disk.manifest
        BY <1>1, CrashStep DEF TypesInv
    <2>3. Leveled(NoFiles)
        BY DEF Leveled, NoFiles, Disjoint
    <2> QED
        BY <2>1, <2>2, <2>3, NothingMerges, NoWorkShape DEF Fitting
<1>2. CASE Recover
    <2>1. disk'.manifest = disk.manifest /\ vs'.version = disk.manifest.version
        BY <1>2, RecoverStep DEF TypesInv
    <2>2. PICK tables : /\ work'.at = "open" /\ work'.comp = NoCompaction
                        /\ work'.edit.add = OnLevel(0, tables)
        BY <1>2, RecoverTables
    <2>3. PICK v, edit : v = disk.manifest.version /\ edit = work'.edit
        OBVIOUS
    <2>4. PICK l \in Level : l = 0
        BY LevelsTyped
    <2>5. Leveled(v) /\ edit.add = OnLevel(l, tables)
        BY <2>2, <2>3, <2>4 DEF Fitting
    <2>6. Leveled(Apply(v, edit))
        BY <2>4, <2>5, AppliedLeveled
    <2> QED
        BY <2>1, <2>2, <2>3, <2>5, <2>6, NothingMerges DEF Fitting
<1>3. CASE Opened
    <2>1. /\ up = "opening" /\ work' = NoWork /\ vs'.version = Apply(vs.version, work.edit)
          /\ disk'.manifest = vs'
        BY <1>3, OpenedShape
    <2>2. work.at = "open"
        BY <2>1 DEF TypesInv, WakeInv, Closed
    <2>3. Leveled(vs'.version)
        BY <2>1, <2>2 DEF Fitting
    <2> QED
        BY <2>1, <2>3, NothingMerges, NoWorkShape DEF Fitting
<1> QED
    BY <1>1, <1>2, <1>3

LEMMA InitLevels == ASSUME Init PROVE LevelsInv
<1>1. /\ up = "up" /\ vs = [version |-> NoFiles, seq |-> 0, next |-> 4, log |-> 3]
      /\ mem = 3 /\ imm = 0 /\ memtable = [n \in {3} |-> {}]
      /\ group = NoGroup /\ work = NoWork
      /\ disk = [logs |-> [n \in {3} |-> NoLog], tables |-> {}, manifest |-> vs]
    BY DEF Init
<1>2. TypesInv
    BY InitTypes
<1>3. VersionEntries(NoFiles) = {} /\ LogEntries(disk) = {}
    <2>1. \A n \in LiveLogs(disk) : Readable(disk.logs[n]) = {}
        BY <1>1, NothingLogged DEF LiveLogs
    <2> QED
        BY <2>1 DEF VersionEntries, NoFiles, AllEntries, LogEntries
<1>4. /\ NoWork.comp = NoCompaction /\ NoWork.edit = NoEdit /\ NoWork.at = "none"
      /\ NoCompaction.rest = {} /\ AllEntries(NoCompaction.outputs) = {}
    BY DEF NoWork, NoCompaction, AllEntries
<1>5. InWork = {} /\ memtable[mem] = {} /\ InMemory = {}
    BY <1>1, <1>4, NothingAdded DEF InWork, InMemory
<1>6. disk.manifest = vs /\ vs.version = NoFiles /\ vs.seq = 0
    BY <1>1
<1>7. Numbering
    <2>1. Known = {}
        BY <1>3, <1>5, <1>6 DEF Known
    <2>2. OneEach({}) /\ UpTo({}, 0)
        BY DEF OneEach, UpTo
    <2>3. (LogEntries(disk) \cup memtable[mem]) \ Coming = {}
        BY <1>3, <1>5
    <2>4. work.at # "manifest" /\ imm = 0
        BY <1>1, <1>4
    <2> QED
        BY <1>3, <1>5, <1>6, <2>1, <2>2, <2>3, <2>4 DEF Numbering
<1>8. LogNamed
    BY <1>1 DEF LogNamed
<1>9. Filled
    <2>1. \A l \in Level : Full(NoFiles[l])
        BY NothingFilled DEF NoFiles
    <2> QED
        BY <1>1, <1>4, <1>6, <2>1, NothingFilled DEF Filled
<1>10. Fitting
    <2>1. Leveled(NoFiles)
        BY DEF Leveled, NoFiles, Disjoint
    <2> QED
        BY <1>1, <1>4, <1>6, <2>1, NothingMerges DEF Fitting
<1> QED
    BY <1>2, <1>7, <1>8, <1>9, <1>10 DEF LevelsInv

LEMMA NextLevels ==
    ASSUME "manifest" \notin Faults, LevelsInv, [Next]_vars
    PROVE  LevelsInv'
<1>1. TypesInv /\ Numbering /\ LogNamed /\ Filled /\ Fitting
    BY DEF LevelsInv
<1>2. TypesInv'
    BY <1>1, NextTypes
<1> SUFFICES Numbering' /\ LogNamed' /\ Filled' /\ Fitting'
    BY <1>2 DEF LevelsInv
<1>3. CASE \E w \in Writer, b \in Batch, sync \in SyncOption : Write(w, b, sync)
    <2>1. PICK w \in Writer : \E b \in Batch, sync \in SyncOption : Write(w, b, sync)
        BY <1>3
    <2> QED
        BY <1>1, <1>3, <2>1, WriterNumbered, WriterNamed, QuietWriter, QuietFits
<1>4. CASE \E w \in Writer : Proceed(w) \/ Return(w)
    <2>1. PICK w \in Writer : Proceed(w) \/ Return(w)
        BY <1>4
    <2>2. Writing
        BY <1>4 DEF Writing
    <2> QED
        BY <1>1, <2>1, <2>2, WriterNumbered, WriterNamed, QuietWriter, QuietFits
<1>5. CASE AddRecord \/ Sync \/ Insert \/ Finish
    <2>1. Writing
        BY <1>5 DEF Writing
    <2> QED
        BY <1>1, <1>5, <2>1, UnlockedNumbered, FinishNumbered, WriterNamed, QuietUnlocked, QuietFits
<1>6. CASE Merging
    <2>1. Background
        BY <1>6 DEF Merging, Background
    <2> QED
        BY <1>1, <1>6, <2>1, MergingNumbered, WriterNamed, MergingFilled, MergingFits
<1>7. CASE ManifestWritten
    <2>1. Background
        BY <1>7 DEF Background
    <2> QED
        BY <1>1, <1>7, <2>1, ManifestWrittenNumbered, WriterNamed, ManifestWrittenFilled,
           ManifestWrittenFits
<1>8. CASE Reading
    BY <1>1, <1>8, ReadingNumbered, WriterNamed, QuietReading, QuietFits
<1>9. CASE Crash
    BY <1>1, <1>9, CrashNumbered, CrashNamed, RestartFilled, RestartFits
<1>10. CASE Recover
    BY <1>1, <1>10, RecoverNumbered, RestartFilled, RestartFits
<1>11. CASE Opened
    BY <1>1, <1>11, OpenedNumbered, RestartFilled, RestartFits
<1>12. CASE UNCHANGED vars
    <2>1. UNCHANGED <<up, vs, disk, mem, imm, memtable, queue, call, group, work>>
        BY <1>12 DEF vars, fileVars, memVars, writeVars, workVars
    <2>2. Coming' = Coming
        BY <1>1, <2>1, ComingSame
    <2>3. Numbering'
        BY <1>1, <2>1, <2>2, NumberingStill
    <2>4. Quiet
        BY <1>1, <2>1 DEF Quiet, Filled
    <2> QED
        BY <1>1, <2>1, <2>3, <2>4, NamedStill, QuietFits
<1>13. ~ManifestFails
    BY DEF ManifestFails
<1> QED
    BY <1>3, <1>4, <1>5, <1>6, <1>7, <1>8, <1>9, <1>10, <1>11, <1>12, <1>13
       DEF Next, Writing, Background, Merging

LEMMA LevelsAreApart == LevelsInv => LevelsAreDisjoint
BY DEF LevelsInv, Fitting, Leveled, Disjoint, Apart, LevelsAreDisjoint

\* As long as no write of the manifest fails, the files of a level but the first never
\* overlap, whatever is written, flushed, merged and moved, whatever else fails and
\* wherever a crash comes between ("Must not overlap", VersionSet::Builder::MaybeAddFile).
THEOREM LevelsStayDisjoint ==
    ASSUME "manifest" \notin Faults
    PROVE  Spec => []LevelsAreDisjoint
<1>1. Init => LevelsInv
    BY InitLevels
<1>2. LevelsInv /\ [Next]_vars => LevelsInv'
    BY NextLevels
<1>3. LevelsInv => LevelsAreDisjoint
    BY LevelsAreApart
<1> QED
    BY <1>1, <1>2, <1>3, PTL DEF Spec

=============================================================================
