------------------------------ MODULE LevelDB ------------------------------
(***************************************************************************)
(* The database of leveldb (db/db_impl.cc): writers that queue up and are  *)
(* written in groups by the one in front, the log and the memtables, the   *)
(* background thread that writes memtables to tables and merges tables,    *)
(* the manifest, snapshots and readers, the deletion of obsolete files,    *)
(* errors of the file system, crashes and recovery.  An action is what a   *)
(* thread does from one release of mutex_ to the next.                     *)
(***************************************************************************)
EXTENDS VersionSet, Sequences, SequencesExt

CONSTANTS
    Writer, Reader,         \* the threads that call Write, and Get or iterators
    Batch,                  \* the batches that are written: sequences of operations
    SyncOption,             \* the values of WriteOptions::sync
    BufferSize,             \* write_buffer_size, in entries
    SlowdownTrigger,        \* kL0_SlowdownWritesTrigger
    StopTrigger,            \* kL0_StopWritesTrigger
    MaxSeq,                 \* (bound) how many operations are ever written
    MaxFile,                \* (bound) the file numbers for tables tried again
    MaxCrashes,             \* (bound) how many crashes there are
    MaxSnapshots,           \* (bound) how many snapshots are held at a time
    Faults                  \* what may go wrong, some of AllFaults

AllFaults == {"newfile", "append", "tear", "sync", "table", "manifest", "machine"}

ASSUME LevelDBAssumption ==
    /\ \A b \in Batch : b \in Seq([key : Key, del : BOOLEAN]) /\ b # <<>>
    /\ SyncOption \subseteq BOOLEAN
    /\ BufferSize \in Nat /\ MaxSeq \in Nat /\ MaxFile \in Nat /\ MaxCrashes \in Nat
    /\ MaxSnapshots \in Nat
    /\ SlowdownTrigger \in Nat /\ StopTrigger \in Nat
    /\ CompactionTrigger <= SlowdownTrigger /\ SlowdownTrigger <= StopTrigger
    /\ Faults \subseteq AllFaults

VARIABLES
    up,         \* whether the database is open: "down", "opening" or "up"
    vs,         \* the VersionSet: current version, last sequence, next file, log number
    mem, imm,   \* mem_ and imm_, as the number of their logs; 0 is none
    memtable,   \* the entries of the memtables in use
    queue,      \* writers_
    call,       \* what each thread asks for, and where it waits
    group,      \* what the writer in front is doing outside of mutex_
    scheduled,  \* background_compaction_scheduled_
    work,       \* what the background thread is doing
    pending,    \* pending_outputs_
    due,        \* compaction_level_ of the current version, if its score is 1 or more
    hot,        \* file_to_compact_ of the current version
    bgError,    \* bg_error_ is not ok
    snapshots,  \* snapshots_, with what the database held
    reading,    \* what the readers hold on to
    disk,       \* the files: logs, tables and the manifest
    crashes,    \* how many crashes there were
    acked,      \* (history) the entries whose Write has returned ok
    deletions   \* (history) the deletions that were written to a log

fileVars == <<vs, disk, pending>>
memVars == <<mem, imm, memtable>>
writeVars == <<queue, call, group>>
workVars == <<scheduled, work>>
pickVars == <<due, hot>>
readVars == <<snapshots, reading>>
history == <<acked, deletions>>
vars == <<up, fileVars, memVars, writeVars, workVars, pickVars, readVars, bgError,
          crashes, history>>

NoLog == [recs |-> <<>>, synced |-> 0]
NoCall == [batch |-> <<>>, sync |-> FALSE, delayed |-> FALSE, asleep |-> "no",
           done |-> FALSE]
NoGroup == [at |-> "none", n |-> 0, ok |-> TRUE, syncError |-> FALSE]
NoCompaction == [level |-> 0, inputs |-> <<{}, {}>>, version |-> NoFiles,
                 rest |-> {}, outputs |-> {}]
NoWork == [at |-> "none", kind |-> "none", num |-> 0, edit |-> NoEdit,
           seq |-> 0, next |-> 0, comp |-> NoCompaction]
NoRead == [seq |-> 0, mem |-> 0, imm |-> 0, version |-> NoFiles, saw |-> <<>>]

\* A database that has just been made: NewDB, Recover and a first log.
Init ==
    /\ up = "up"
    /\ vs = [version |-> NoFiles, seq |-> 0, next |-> 4, log |-> 3]
    /\ mem = 3 /\ imm = 0 /\ memtable = [n \in {3} |-> {}]
    /\ queue = <<>> /\ call = [w \in Writer |-> NoCall] /\ group = NoGroup
    /\ scheduled = FALSE /\ work = NoWork /\ pending = {} /\ due = {} /\ hot = {}
    /\ bgError = FALSE /\ snapshots = {} /\ reading = [r \in Reader |-> NoRead]
    /\ disk = [logs |-> [n \in {3} |-> NoLog], tables |-> {}, manifest |-> vs]
    /\ crashes = 0 /\ acked = {} /\ deletions = {}

-----------------------------------------------------------------------------
(* Reading the database. *)

\* Get: the memtable, the one that is being written out, then the tables.
Lookup(m, i, v, k, s) ==
    LET inMem == Newest(memtable[m], k, s)
        inImm == IF i = 0 THEN {} ELSE Newest(memtable[i], k, s)
    IN  IF inMem # {} THEN inMem
        ELSE IF inImm # {} THEN inImm ELSE VersionGet(v, k, s)

\* A key is shown by the number of the write that set it, 0 if there is none.
Shown(found) == IF \E e \in found : ~e.del THEN (CHOOSE e \in found : TRUE).seq ELSE 0

View(m, i, v, s) == [k \in Key |-> Shown(Lookup(m, i, v, k, s))]

Current(s) == View(mem, imm, vs.version, s)

\* The memtables that somebody refers to.
InUse(mt, i, rd) ==
    LET used == {mem, i} \cup UNION {{rd[r].mem, rd[r].imm} : r \in Reader}
    IN  [n \in DOMAIN mt \cap used |-> mt[n]]

-----------------------------------------------------------------------------
(* Scheduling. *)

\* (mutant) A memtable to be written out is no work.
ScheduledForTables(already, err, i, d, h) == already \/ (~err /\ (d # {} \/ h # {}))

\* MaybeScheduleCompaction, for given values of what it looks at.
Scheduled(already, err, i, d, h) == already \/ (~err /\ (i # 0 \/ d # {} \/ h # {}))

\* (mutant) Nobody is woken.
NoSignal(calls) == calls

\* background_work_finished_signal_.SignalAll()
SignalAll(calls) ==
    [w \in Writer |->
        IF calls[w].asleep = "bg" THEN [calls[w] EXCEPT !.asleep = "no"] ELSE calls[w]]

\* Finalize: the level whose score is the best, if it is 1 or more. That of a level
\* but the first depends on the bytes in it.
Finalize(v) ==
    (IF Cardinality(v[0]) >= CompactionTrigger THEN {{0}} ELSE {{}})
    \cup {{l} : l \in {m \in 1 .. NumLevels - 2 : v[m] # {}}}

-----------------------------------------------------------------------------
(* Writers. *)

\* The writers that are left when n are done with, the new head awake.
Popped(q, n, calls) ==
    LET rest == SubSeq(q, n + 1, Len(q))
        first == {q[i] : i \in 2 .. n}
    IN  [w \in Writer |->
            IF w = q[1] THEN NoCall
            ELSE IF w \in first
                 THEN [calls[w] EXCEPT !.done = TRUE, !.asleep = "no"]
                 ELSE IF rest # <<>> /\ w = rest[1]
                      THEN [calls[w] EXCEPT !.asleep = "no"] ELSE calls[w]]

\* (mutant) A write to be synced joins a group that is not.
AnyGroup(q, calls) == 1 .. Len(q)

\* BuildBatchGroup: how many writers are taken, up to a size; one that wants a sync
\* does not join a group without.
GroupSizes(q, calls) ==
    {n \in 1 .. Len(q) : \A i \in 1 .. n : calls[q[i]].sync => calls[q[1]].sync}

\* (mutant) The writer does not wait for the previous memtable to be written out.
WaitsForLevel0Only == Cardinality(vs.version[0]) >= StopTrigger

\* MakeRoomForWrite waits for the background thread.
MustWait == imm # 0 \/ Cardinality(vs.version[0]) >= StopTrigger

HasRoom == Cardinality(memtable[mem]) <= BufferSize

\* A new log and memtable; the old memtable is to be written out.
SwitchMemTable ==
    /\ mem' = vs.next /\ imm' = mem
    /\ memtable' = [n \in DOMAIN memtable \cup {vs.next} |->
                        IF n = vs.next THEN {} ELSE memtable[n]]
    /\ vs' = [vs EXCEPT !.next = @ + 1]
    /\ disk' = [disk EXCEPT !.logs = [n \in DOMAIN @ \cup {vs.next} |->
                                        IF n = vs.next THEN NoLog ELSE @[n]]]
    /\ scheduled' = Scheduled(scheduled, bgError, mem, due, hot)

\* What the writer in front does with the lock: MakeRoomForWrite, then it goes on to
\* write a group, or fails, or waits.
AtFront(q, calls) ==
    LET w == q[1]
        slow == ~calls[w].delayed /\ Cardinality(vs.version[0]) >= SlowdownTrigger
        fail == /\ queue' = Tail(q) /\ call' = Popped(q, 1, calls)
                /\ UNCHANGED <<group, fileVars, memVars, scheduled>>
        go == /\ \E n \in GroupSizes(q, calls) :
                    group' = [NoGroup EXCEPT !.at = "append", !.n = n]
              /\ queue' = q /\ call' = calls
    IN  \/ bgError /\ fail
        \/ /\ ~bgError /\ slow              \* it sleeps for 1 ms without the lock
           /\ queue' = q /\ call' = [calls EXCEPT ![w].delayed = TRUE]
           /\ UNCHANGED <<group, fileVars, memVars, scheduled>>
        \/ /\ ~bgError /\ ~slow /\ HasRoom
           /\ go /\ UNCHANGED <<fileVars, memVars, scheduled>>
        \/ /\ ~bgError /\ ~slow /\ ~HasRoom /\ MustWait
           /\ queue' = q /\ call' = [calls EXCEPT ![w].asleep = "bg"]
           /\ UNCHANGED <<group, fileVars, memVars, scheduled>>
        \/ /\ ~bgError /\ ~slow /\ ~HasRoom /\ ~MustWait
           /\ \/ SwitchMemTable /\ go /\ UNCHANGED pending
              \/ "newfile" \in Faults /\ fail

frontRest == <<up, work, pickVars, readVars, bgError, crashes, history>>

Ops(q) == FlattenSeq([i \in 1 .. Len(q) |-> call[q[i]].batch])

\* Write is called.
Write(w, b, sync) ==
    LET asked == [NoCall EXCEPT !.batch = b, !.sync = sync]
    IN  /\ up = "up" /\ call[w] = NoCall
        /\ vs.seq + Len(Ops(queue)) + Len(b) <= MaxSeq
        /\ \/ /\ queue = <<>>
              /\ AtFront(<<w>>, [call EXCEPT ![w] = asked])
           \/ /\ queue # <<>>
              /\ queue' = Append(queue, w)
              /\ call' = [call EXCEPT ![w] = [asked EXCEPT !.asleep = "cv"]]
              /\ UNCHANGED <<group, fileVars, memVars, scheduled>>
        /\ UNCHANGED frontRest

\* The writer in front is awake and has not begun.
Proceed(w) ==
    /\ queue # <<>> /\ queue[1] = w /\ group = NoGroup /\ call[w].asleep = "no"
    /\ AtFront(queue, call)
    /\ UNCHANGED frontRest

\* A writer whose batch was written by another returns.
Return(w) ==
    /\ call[w].done
    /\ call' = [call EXCEPT ![w] = NoCall]
    /\ UNCHANGED <<queue, group, fileVars, memVars, scheduled, frontRest>>

\* The entries of the group, numbered from the last sequence on.
GroupEntries ==
    LET ops == Ops(SubSeq(queue, 1, group.n))
    IN  {[key |-> ops[i].key, seq |-> vs.seq + i, del |-> ops[i].del] :
            i \in 1 .. Len(ops)}

\* Those of them that the i-th writer of the group has asked for.
EntriesOf(i) ==
    LET upto(n) == vs.seq + Len(Ops(SubSeq(queue, 1, n)))
    IN  {e \in GroupEntries : upto(i - 1) < e.seq /\ e.seq <= upto(i)}

LogRec(r) == disk' = [disk EXCEPT !.logs[mem].recs = Append(@, r)]

groupRest == <<up, queue, call, mem, imm, pending, workVars, pickVars, readVars,
               crashes, acked>>

\* log_->AddRecord. When it fails there is nothing in the log, or a part of the
\* record; a part reads as a record that is not whole.
AddRecord ==
    /\ group.at = "append"
    /\ \/ /\ LogRec(GroupEntries)
          /\ deletions' = deletions \cup {e \in GroupEntries : e.del}
          /\ group' = [group EXCEPT
                        !.at = IF call[queue[1]].sync THEN "sync" ELSE "insert"]
       \/ /\ "append" \in Faults
          /\ group' = [group EXCEPT !.at = "lock", !.ok = FALSE]
          /\ UNCHANGED <<disk, deletions>>
       \/ /\ "tear" \in Faults
          /\ LogRec({})
          /\ group' = [group EXCEPT !.at = "lock", !.ok = FALSE]
          /\ UNCHANGED deletions
    /\ UNCHANGED <<vs, memtable, bgError, groupRest>>

\* logfile_->Sync
Sync ==
    /\ group.at = "sync"
    /\ \/ /\ disk' = [disk EXCEPT !.logs[mem].synced = Len(disk.logs[mem].recs)]
          /\ group' = [group EXCEPT !.at = "insert"]
       \/ /\ "sync" \in Faults
          /\ group' = [group EXCEPT !.at = "lock", !.ok = FALSE, !.syncError = TRUE]
          /\ UNCHANGED disk
    /\ UNCHANGED <<vs, memtable, bgError, deletions, groupRest>>

\* WriteBatchInternal::InsertInto
Insert ==
    /\ group.at = "insert"
    /\ memtable' = [memtable EXCEPT ![mem] = @ \cup GroupEntries]
    /\ group' = [group EXCEPT !.at = "lock"]
    /\ UNCHANGED <<vs, disk, bgError, deletions, groupRest>>

\* The writer in front takes the lock again: the entries are now there to be read,
\* and the writers of the group have their answer. (RecordBackgroundError wakes
\* nobody here: only the writer in front ever waits for the background thread.)
Finish ==
    /\ group.at = "lock"
    /\ bgError' = (bgError \/ group.syncError)
    /\ vs' = [vs EXCEPT !.seq = @ + Cardinality(GroupEntries)]
    /\ queue' = SubSeq(queue, group.n + 1, Len(queue))
    /\ call' = Popped(queue, group.n, call)
    /\ group' = NoGroup
    /\ acked' = IF group.ok
                THEN acked \cup UNION {{[ent |-> e, sync |-> call[queue[i]].sync] :
                                            e \in EntriesOf(i)} : i \in 1 .. group.n}
                ELSE acked
    /\ UNCHANGED <<up, disk, pending, memVars, workVars, pickVars, readVars, crashes,
                   deletions>>

-----------------------------------------------------------------------------
(* The background thread. *)

\* (mutant) The versions of the readers are not counted.
PinnedButByReaders(v, comp) == {v, comp.version}

\* The versions that somebody refers to: the current one, those of the readers and
\* the input of a compaction.
Pinned(v, comp) ==
    {v, comp.version} \cup {reading[r].version : r \in Reader}

\* (mutant) The outputs of a compaction that is under way are not protected.
LiveUnprotected(v, comp, pend) == UNION {Numbers(u) : u \in Pinned(v, comp)}

LiveTables(v, comp, pend) == (UNION {Numbers(u) : u \in Pinned(v, comp)}) \cup pend

\* (mutant) The log that the manifest names is deleted too.
CollectedTooMany(d, v, comp, pend, err) ==
    IF err THEN d
    ELSE [d EXCEPT !.tables = @ \cap LiveTables(v.version, comp, pend),
                   !.logs = [n \in {m \in DOMAIN @ : m > v.log} |-> @[n]]]

\* DeleteObsoleteFiles. After an error nothing is deleted.
Collected(d, v, comp, pend, err) ==
    IF err THEN d
    ELSE [d EXCEPT !.tables = @ \cap LiveTables(v.version, comp, pend),
                   !.logs = [n \in {m \in DOMAIN @ : m >= v.log} |-> @[n]]]

\* The end of BackgroundCall.
EndOfCall(err, i, d, h, calls) ==
    /\ scheduled' = Scheduled(FALSE, err, i, d, h)
    /\ work' = NoWork
    /\ call' = SignalAll(calls)

\* LogAndApply up to the write of the manifest, which is done without the lock. The
\* edit carries the last sequence and the next file as they are now.
LogAndApply(doing, kind, edit) ==
    [doing EXCEPT !.at = "manifest", !.kind = kind, !.edit = edit,
                  !.seq = vs.seq, !.next = vs.next]

workRest == <<up, queue, group, readVars, crashes, history>>

\* BackgroundCall finds an error, or nothing to do.
NothingToDo ==
    /\ scheduled /\ work = NoWork
    /\ bgError \/ (imm = 0 /\ due = {} /\ hot = {})
    /\ EndOfCall(bgError, imm, due, hot, call)
    /\ UNCHANGED <<workRest, fileVars, memVars, pickVars, bgError>>

\* CompactMemTable begins to write the table: in a call of its own, or before the next
\* entry of a merge.
BeginFlush ==
    /\ imm # 0
    /\ \/ scheduled /\ work = NoWork /\ ~bgError
       \/ work.at = "merge" /\ (bgError => vs.next <= MaxFile)
    /\ work' = [work EXCEPT !.at = "table", !.kind = "flush", !.num = vs.next]
    /\ pending' = pending \cup {vs.next}
    /\ vs' = [vs EXCEPT !.next = @ + 1]
    /\ UNCHANGED <<workRest, disk, memVars, call, scheduled, pickVars, bgError>>

\* A merge goes on after a memtable has been written, or the call ends.
GoOn(err, i, d, h) ==
    IF work.comp = NoCompaction THEN EndOfCall(err, i, d, h, call)
    ELSE /\ work' = [NoWork EXCEPT !.at = "merge", !.kind = "merge",
                                   !.comp = work.comp]
         /\ call' = SignalAll(call)
         /\ UNCHANGED scheduled

\* WriteLevel0Table has written the table, or failed.
EndOfTable ==
    LET table == [num |-> work.num, ents |-> memtable[imm]]
        lo == Smallest(table).key
        hi == Largest(table).key
    IN  /\ work.at = "table"
        /\ pending' = pending \ {work.num}
        /\ \/ /\ \E l \in PickLevelForMemTableOutput(vs.version, lo, hi) :
                    work' = LogAndApply(work, "flush", [NoEdit EXCEPT !.add = {<<l, table>>}])
              /\ disk' = [disk EXCEPT !.tables = @ \cup {work.num}]
              /\ UNCHANGED <<bgError, call, scheduled>>
           \/ /\ "table" \in Faults
              /\ bgError' = TRUE
              /\ GoOn(TRUE, imm, due, hot)
              /\ UNCHANGED disk
    /\ UNCHANGED <<workRest, vs, memVars, pickVars>>

\* PickCompaction: some file of the level that is due, or the file that was read in
\* vain too often. A file that nothing overlaps may just be moved.
Pick ==
    /\ scheduled /\ work = NoWork /\ ~bgError /\ imm = 0
    /\ \E p \in IF due # {} THEN due \X UNION {vs.version[l] : l \in due} ELSE hot :
        \E inputs \in SetupOtherInputs(vs.version, p[1], Picked(vs.version, p[1], p[2])) :
            LET l == p[1]
                merged == AllEntries(inputs[1] \cup inputs[2])
                oldest == IF snapshots = {} THEN vs.seq
                          ELSE CHOOSE s \in {h.seq : h \in snapshots} :
                                    \A h \in snapshots : s <= h.seq
                kept == {e \in merged : ~Drops(e, merged, vs.version, l, oldest)}
            IN  \/ work' = [NoWork EXCEPT
                            !.at = "merge", !.kind = "merge",
                            !.comp = [level |-> l, inputs |-> inputs,
                                      version |-> vs.version, rest |-> kept,
                                      outputs |-> {}]]
                \/ /\ Cardinality(inputs[1]) = 1 /\ inputs[2] = {}
                   /\ work' = LogAndApply(NoWork, "move",
                                [del |-> {<<l, f>> : f \in inputs[1]},
                                 add |-> {<<l + 1, f>> : f \in inputs[1]}])
    /\ UNCHANGED <<workRest, fileVars, memVars, call, scheduled, pickVars, bgError>>

\* The end of a compaction, whatever came of it.
CleanupCompaction(d, v, err, dd, h) ==
    LET pend == pending \ {f.num : f \in work.comp.outputs}
    IN  /\ pending' = pend
        /\ disk' = Collected(d, v, NoCompaction, pend, err)
        /\ EndOfCall(err, imm, dd, h, call)

\* DoCompactionWork writes the next output file, or fails to.
WriteOutput ==
    /\ work.at = "merge" /\ work.comp.rest # {}
    /\ \/ /\ \E out \in NextOutputs(work.comp.rest) :
                work' = [work EXCEPT
                            !.comp.rest = @ \ out,
                            !.comp.outputs = @ \cup {[num |-> vs.next, ents |-> out]}]
          /\ pending' = pending \cup {vs.next}
          /\ disk' = [disk EXCEPT !.tables = @ \cup {vs.next}]
          /\ vs' = [vs EXCEPT !.next = @ + 1]
          /\ UNCHANGED <<call, scheduled, bgError>>
       \/ /\ "table" \in Faults
          /\ bgError' = TRUE
          /\ vs' = [vs EXCEPT !.next = @ + 1]
          /\ CleanupCompaction(disk, vs, TRUE, due, hot)
    /\ UNCHANGED <<workRest, memVars, pickVars>>

\* InstallCompactionResults: everything is merged.
InstallCompactionResults ==
    LET c == work.comp
    IN  /\ work.at = "merge" /\ c.rest = {}
        /\ work' = LogAndApply(work, "merge",
                [del |-> UNION {{<<c.level + i - 1, f>> : f \in c.inputs[i]} : i \in 1 .. 2},
                 add |-> {<<c.level + 1, f>> : f \in c.outputs}])
        /\ UNCHANGED <<workRest, fileVars, memVars, call, scheduled, pickVars, bgError>>

\* The log number of an edit: with a memtable written out, that of the current log.
EditLog == IF work.kind = "flush" THEN mem ELSE vs.log

\* The manifest with the edit appended.
Appended ==
    [version |-> Apply(disk.manifest.version, work.edit), seq |-> work.seq,
     next |-> work.next, log |-> EditLog]

\* The manifest is written: the new version is installed.
ManifestWritten ==
    LET new == [vs EXCEPT !.version = Apply(vs.version, work.edit), !.log = EditLog]
        d == [disk EXCEPT !.manifest = Appended]
    IN  /\ work.at = "manifest"
        /\ vs' = new
        /\ due' \in Finalize(new.version) /\ hot' = {}
        /\ \/ /\ work.kind = "flush"
              /\ imm' = 0 /\ memtable' = InUse(memtable, 0, reading)
              /\ disk' = Collected(d, new, work.comp, pending, bgError)
              /\ GoOn(bgError, 0, due', {})
              /\ UNCHANGED <<mem, pending>>
           \/ /\ work.kind = "merge"
              /\ CleanupCompaction(d, new, bgError, due', {})
              /\ UNCHANGED memVars
           \/ /\ work.kind = "move"
              /\ disk' = d
              /\ EndOfCall(bgError, imm, due', {}, call)
              /\ UNCHANGED <<memVars, pending>>
    /\ UNCHANGED <<workRest, bgError>>

\* The write of the manifest fails: the edit may be there or not.
ManifestFails ==
    LET left == {disk, [disk EXCEPT !.manifest = Appended]}
    IN  /\ work.at = "manifest" /\ "manifest" \in Faults
        /\ bgError' = TRUE
        /\ \/ /\ work.kind = "flush"
              /\ disk' \in left
              /\ GoOn(TRUE, imm, due, hot)
              /\ UNCHANGED pending
           \/ /\ work.kind = "merge"
              /\ \E d \in left : CleanupCompaction(d, vs, TRUE, due, hot)
           \/ /\ work.kind = "move"
              /\ disk' \in left
              /\ EndOfCall(TRUE, imm, due, hot, call)
              /\ UNCHANGED pending
    /\ UNCHANGED <<workRest, vs, memVars, pickVars>>

-----------------------------------------------------------------------------
(* Snapshots and readers. *)

readRest == <<up, fileVars, mem, imm, writeVars, work, bgError, crashes, history>>

GetSnapshot ==
    /\ up = "up" /\ Cardinality(snapshots) < MaxSnapshots
    /\ snapshots' = snapshots \cup {[seq |-> vs.seq, saw |-> Current(vs.seq)]}
    /\ UNCHANGED <<readRest, memtable, scheduled, pickVars, reading>>

ReleaseSnapshot ==
    /\ \E h \in snapshots : snapshots' = snapshots \ {h}
    /\ UNCHANGED <<readRest, memtable, scheduled, pickVars, reading>>

\* Get and NewIterator take hold of what they read, now or at a snapshot.
BeginRead(r) ==
    /\ up = "up" /\ reading[r] = NoRead
    /\ \E s \in {vs.seq} \cup {h.seq : h \in snapshots} :
            reading' = [reading EXCEPT ![r] =
                [seq |-> s, mem |-> mem, imm |-> imm, version |-> vs.version,
                 saw |-> Current(s)]]
    /\ UNCHANGED <<readRest, memtable, scheduled, pickVars, snapshots>>

\* The files that are read before another one for the same key. (Version::Get charges
\* the first of them with a seek, RecordReadSample too.)
ReadInVain(v) ==
    UNION {{l} \X {f \in v[l] : \E k \in Key : Covers(f, k) /\
                \E m \in l .. NumLevels - 1 : \E g \in v[m] \ {f} : Covers(g, k)} :
            l \in 0 .. NumLevels - 2}

\* UpdateStats may find that a file has been read in vain too often.
EndRead(r) ==
    /\ reading[r] # NoRead
    /\ reading' = [reading EXCEPT ![r] = NoRead]
    /\ memtable' = InUse(memtable, imm, reading')
    /\ \/ UNCHANGED <<pickVars, scheduled>>
       \/ /\ hot = {} /\ reading[r].version = vs.version
          /\ \E p \in ReadInVain(vs.version) : hot' = {p}
          /\ scheduled' = Scheduled(scheduled, bgError, imm, due, hot')
          /\ UNCHANGED due
    /\ UNCHANGED <<readRest, snapshots>>

-----------------------------------------------------------------------------
(* Crashes and recovery. *)

\* What a log may hold after the machine has crashed: all that was synced.
Cuts(log) ==
    {[log EXCEPT !.recs = SubSeq(@, 1, n)] : n \in log.synced .. Len(log.recs)}

\* The entries of a log that are read again: up to a record that is not whole.
Readable(log) ==
    LET whole(i) == \A j \in 1 .. i : log.recs[j] # {}
    IN  UNION {log.recs[i] : i \in {j \in 1 .. Len(log.recs) : whole(j)}}

LiveLogs(d) == {n \in DOMAIN d.logs : n >= d.manifest.log}

\* The process ends, at any point. What it has written stays; if the machine goes
\* down too, the end of every log that was not synced may be lost.
Crash ==
    /\ up # "down" /\ crashes < MaxCrashes
    /\ crashes' = crashes + 1
    /\ \/ UNCHANGED <<disk, history>>
       \/ /\ "machine" \in Faults
          /\ \E cut \in [DOMAIN disk.logs -> UNION {Cuts(disk.logs[n]) :
                                                        n \in DOMAIN disk.logs}] :
                LET lost == (UNION {Readable(disk.logs[n]) \ Readable(cut[n]) :
                                    n \in LiveLogs(disk)})
                            \ UNION {AllEntries(disk.manifest.version[l]) : l \in Level}
                IN  /\ \A n \in DOMAIN cut : cut[n] \in Cuts(disk.logs[n])
                    /\ disk' = [disk EXCEPT !.logs = cut]
                    /\ deletions' = deletions \ lost
                    /\ acked' = {a \in acked : a.sync}
    /\ up' = "down"
    /\ vs' = [version |-> NoFiles, seq |-> 0, next |-> 0, log |-> 0]
    /\ mem' = 0 /\ imm' = 0 /\ memtable' = <<>>
    /\ queue' = <<>> /\ call' = [w \in Writer |-> NoCall] /\ group' = NoGroup
    /\ scheduled' = FALSE /\ work' = NoWork /\ pending' = {} /\ due' = {} /\ hot' = {}
    /\ bgError' = FALSE /\ snapshots' = {} /\ reading' = [r \in Reader |-> NoRead]

NewestSeq(ents, s) ==
    IF \E e \in ents : e.seq > s
    THEN (CHOOSE e \in ents : \A f \in ents : f.seq <= e.seq).seq ELSE s

\* (mutant) The logs that the manifest does not name are not read.
NamedLog(d) == {n \in LiveLogs(d) : n = d.manifest.log}

\* DB::Open: the manifest is read, and each log that it does not make obsolete is
\* written to a table, in their order; then there is a new log. Nothing refers to the
\* tables before the manifest is written.
Recover ==
    LET m == disk.manifest
        logs == {n \in LiveLogs(disk) : Readable(disk.logs[n]) # {}}
        num(n) == m.next + Cardinality({o \in logs : o <= n})
        tables == {[num |-> num(n), ents |-> Readable(disk.logs[n])] : n \in logs}
        used == {m.next + Cardinality(logs)} \cup LiveLogs(disk)
        new == (CHOOSE n \in used : \A o \in used : o <= n) + 1
    IN  /\ up = "down" /\ up' = "opening"
        /\ vs' = [version |-> m.version, seq |-> NewestSeq(AllEntries(tables), m.seq),
                  next |-> new + 1, log |-> m.log]
        /\ mem' = new /\ memtable' = [n \in {new} |-> {}]
        /\ disk' = [disk EXCEPT
                    !.tables = @ \cup {f.num : f \in tables},
                    !.logs = [n \in DOMAIN @ \cup {new} |->
                                IF n = new THEN NoLog ELSE @[n]]]
        /\ work' = [NoWork EXCEPT !.at = "open", !.seq = vs'.seq, !.next = new + 1,
                                  !.edit = [NoEdit EXCEPT !.add = {0} \X tables]]
        /\ UNCHANGED <<imm, writeVars, scheduled, pending, pickVars, bgError, readVars,
                       crashes, history>>

\* The new manifest is written and CURRENT names it; the rest is deleted.
Opened ==
    LET new == [vs EXCEPT !.version = Apply(vs.version, work.edit), !.log = mem]
    IN  /\ up = "opening" /\ up' = "up"
        /\ vs' = new
        /\ disk' = Collected([disk EXCEPT !.manifest = new], new, NoCompaction, {}, FALSE)
        /\ due' \in Finalize(new.version) /\ hot' = {}
        /\ work' = NoWork
        /\ scheduled' = Scheduled(FALSE, FALSE, 0, due', {})
        /\ UNCHANGED <<memVars, writeVars, pending, bgError, readVars, crashes, history>>

-----------------------------------------------------------------------------
Writing ==
    \/ \E w \in Writer : Proceed(w) \/ Return(w)
    \/ AddRecord \/ Sync \/ Insert \/ Finish

Background ==
    \/ NothingToDo \/ BeginFlush \/ EndOfTable \/ Pick \/ WriteOutput
    \/ InstallCompactionResults \/ ManifestWritten \/ ManifestFails

Reading ==
    \/ GetSnapshot \/ ReleaseSnapshot
    \/ \E r \in Reader : BeginRead(r) \/ EndRead(r)

Next ==
    \/ \E w \in Writer, b \in Batch, sync \in SyncOption : Write(w, b, sync)
    \/ Writing \/ Background \/ Reading
    \/ Crash \/ Recover \/ Opened

Spec == Init /\ [][Next]_vars

\* The threads go on with what they have begun.
FairSpec ==
    /\ Spec
    /\ \A w \in Writer : WF_vars(Proceed(w)) /\ WF_vars(Return(w))
    /\ WF_vars(AddRecord \/ Sync \/ Insert \/ Finish)
    /\ WF_vars(Background)

-----------------------------------------------------------------------------
(* What the database promises. *)

\* Everything that a recovery would find.
OnDisk == (UNION {AllEntries(disk.manifest.version[l]) : l \in Level})
          \cup UNION {Readable(disk.logs[n]) : n \in LiveLogs(disk)}

Kept == [k \in Key |-> Shown(Newest(OnDisk, k, MaxSeq))]

Store == INSTANCE KeyValueStore WITH
    store <- IF up = "up" THEN Current(vs.seq) ELSE Kept,
    kept <- Kept,
    stamp <- IF up = "down" THEN NewestSeq(OnDisk, disk.manifest.seq) ELSE vs.seq,
    asked <- [w \in Writer |-> IF call[w].done THEN <<>> ELSE call[w].batch],
    logged <- IF \/ group.at \in {"sync", "insert"}
                 \/ group.at = "lock" /\ (group.ok \/ group.syncError)
              THEN {queue[i] : i \in 1 .. group.n} ELSE {}

-----------------------------------------------------------------------------
(* Properties *)

TypeOK ==
    /\ up \in {"down", "opening", "up"} /\ bgError \in BOOLEAN /\ scheduled \in BOOLEAN
    /\ vs.version \in [Level -> SUBSET Table] /\ vs.seq \in 0 .. MaxSeq
    /\ up = "up" => mem \in DOMAIN disk.logs /\ vs.log \in DOMAIN disk.logs
    /\ imm # 0 => imm \in DOMAIN memtable \cap DOMAIN disk.logs /\ imm < mem
    /\ pending \subseteq 0 .. vs.next /\ mem <= vs.next

\* What an acknowledged write has written is there, or something newer is: whatever was
\* flushed, merged and dropped since, and after crashes of the process. Crashes of the
\* machine spare what was synced.
AckedIsKept ==
    up = "up" => \A a \in acked :
        LET found == Lookup(mem, imm, vs.version, a.ent.key, vs.seq)
        IN  \/ \E e \in found : e.seq > a.ent.seq \/ e = a.ent
            \/ found = {} /\ \E d \in deletions : d.key = a.ent.key /\ d.seq >= a.ent.seq

\* A snapshot shows what the database held when it was taken, whatever is merged.
SnapshotsAreStable == \A h \in snapshots : Current(h.seq) = h.saw

\* A reader finds the files that it refers to, and in them what the database held
\* when it began, whatever has been written, merged and deleted since.
ReadersAreServed ==
    \A r \in Reader : reading[r] # NoRead =>
        LET o == reading[r]
        IN  /\ Numbers(o.version) \subseteq disk.tables
            /\ View(o.mem, o.imm, o.version, o.seq) = o.saw

\* At any time the database could be opened again: the tables that the manifest names
\* are there ("missing files" in Recover).
Recoverable == Numbers(disk.manifest.version) \subseteq disk.tables

\* The files of a level but the first do not overlap ("Must not overlap" in
\* VersionSet::Builder), now and when the manifest is read again.
LevelsAreDisjoint ==
    \A v \in {vs.version, disk.manifest.version} : \A l \in Level \ {0} :
        \A f, g \in v[l] : f # g => \/ Precedes(Largest(f), Smallest(g))
                                    \/ Precedes(Largest(g), Smallest(f))

\* A thread that waits for the background thread is woken by it: it waits only while a
\* call of it is scheduled.
NoLostWakeup == (\E w \in Writer : call[w].asleep = "bg") => scheduled

\* Writes are atomic and in order, and a crash of the process keeps what was written,
\* whatever is flushed, merged and deleted: the database implements KeyValueStore.
IsKeyValueStore == Store!Spec

\* Every Write returns, unless the process ends.
WriteReturns == \A w \in Writer : call[w] # NoCall ~> call[w] = NoCall

=============================================================================
