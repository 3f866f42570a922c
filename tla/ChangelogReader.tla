-------------------------- MODULE ChangelogReader --------------------------
(***************************************************************************)
(* The changelog reader of one MDT (src/src/chglog_reader/chglog_reader.c) *)
(* with its three neighbours: the changelog the MDT keeps, the pipeline,   *)
(* and the database.                                                       *)
(*                                                                         *)
(* The reader thread receives records, drops or merges the redundant ones  *)
(* in op_queue, and pushes the others to the pipeline.  The last stage of  *)
(* the pipeline calls log_record_callback in the order of the pushes; it   *)
(* saves the number of the last committed record in the database and       *)
(* clears the records up to it from the changelog.  The process may stop   *)
(* or crash, and starts again from the number that was saved.              *)
(*                                                                         *)
(* The pipeline keeps what EntryPipeline shows of it: operations on the    *)
(* same entry are applied in order, callbacks are called in order.         *)
(***************************************************************************)
EXTENDS RecordApply, Sequences, SequencesExt

CONSTANTS
    Scenarios,       \* what may happen to the file system (see LogAssumption)
    queue_max_size,
    batch_ack_count,
    commit_update_max_delta,
    mds_has_lu543,   \* the MDT tells which entry a rename overwrites
    StackFlag,       \* what GET_FID_FROM_DB may be in an uninitialized variable
    Retained,        \* another reader keeps the MDT from purging records
    MaxPending       \* bound: operations in the pipeline

\* log: the records that are written, in order; names: the names in the file
\* system before the first one; known: the entries that the database knows at
\* that time; one_shot: whether the reader stops at the end of the changelog;
\* max: the bounds on stops by a signal, on crashes, on failing requests of the
\* reader and on failures to apply an operation to the database.
ASSUME LogAssumption ==
    \A sc \in Scenarios :
       /\ \A k \in DOMAIN sc.log : /\ sc.log[k].fid \in Fids \cup {NoFid, Root}
                                    /\ sc.log[k].sfid \in Fids \cup {NoFid}
                                    /\ sc.log[k].name \in Names \cup {NoName}
       /\ Range(sc.names) \subseteq Fids
       /\ sc.known \subseteq Range(sc.names)
       /\ sc.one_shot \in BOOLEAN
       /\ sc.max \in [stops : Nat, crashes : Nat, errors : Nat, db_errors : Nat]
ASSUME ReaderAssumption ==
    /\ {queue_max_size, batch_ack_count, MaxPending} \subseteq Nat \ {0}
    /\ commit_update_max_delta \in Nat
    /\ {mds_has_lu543, Retained} \subseteq BOOLEAN
    /\ StackFlag \in SUBSET BOOLEAN \ {{}}

VARIABLES
    scenario,    \* what happens, a member of Scenarios
    fs,          \* the file system
    written,     \* how many records of Log the MDT has written
    cleared,     \* the MDT: the last record this reader cleared
    db,          \* the MAIN and NAMES tables
    stored,      \* the database: CL_LAST_COMMITTED_REC
    pos,         \* chglog_hdlr: the last record it gave
    info,        \* reader_thr_info_t: the record numbers and force_stop
    op_queue,    \* records to be pushed, with op_queue_count in info
    cl_rename,   \* a RENAME that waits for its EXT
    rpc,         \* where the reader thread is
    pushing,     \* the operation process_op_queue has just pushed
    pipe,        \* operations in the pipeline
    cb,          \* where log_record_callback is
    handled,     \* history: records whose effect is in the database
    given,       \* history: records received since the last start
    faults       \* stops, crashes and errors so far

mdtVars == <<scenario, fs, written, cleared>>
dbVars == <<db, stored, handled>>
readerVars == <<pos, op_queue, cl_rename, rpc, pushing, given>>
vars == <<mdtVars, dbVars, readerVars, info, pipe, cb, faults>>

Log == scenario.log
one_shot == scenario.one_shot
Numbers == 0..Len(Log)

\* A record number that is read from a log record that was freed: the memory
\* allocator has overwritten it.
Garbage == 1000

\* The file system before the first record
FirstFs == [names |-> scenario.names, ver |-> [f \in Fids |-> 0]]

NoOp == [type |-> "NONE", fid |-> NoFid, name |-> NoName, last |-> FALSE,
         get_fid_from_db |-> FALSE, index |-> 0, recs |-> {}, done |-> FALSE]

\* Fault: a fake record acknowledges the record it is made from.
FakeIndexSame(n) == n

\* insert_into_hash: the operation for a record.  recs are the records whose
\* effect it has on the database.
NewOp(rec, index, recs) ==
    [type |-> rec.type, fid |-> rec.fid, name |-> rec.name, last |-> rec.last,
     get_fid_from_db |-> FALSE, index |-> index, recs |-> recs, done |-> FALSE]

\* updated: last_commit_update.step_time is set
FirstInfo == [last_read |-> 0, last_push |-> 0, last_commit |-> 0,
              last_commit_update |-> 0, updated |-> FALSE, last_clear |-> 0,
              op_queue_count |-> 0, force_stop |-> FALSE,
              mds_has_lu543 |-> mds_has_lu543]

Init ==
    /\ scenario \in Scenarios
    /\ fs = FirstFs
    /\ written = 0
    /\ cleared = 0
    /\ db = [main |-> [f \in scenario.known |->
                          [nlink |-> Cardinality(NamesOf(FirstFs, f)), ver |-> 0]],
             names |-> Restrict(scenario.names,
                          {n \in DOMAIN scenario.names :
                              scenario.names[n] \in scenario.known})]
    /\ stored = 0
    /\ pos = 0
    /\ info = FirstInfo
    /\ op_queue = <<>>
    /\ cl_rename = 0
    /\ rpc = "loop"
    /\ pushing = NoOp
    /\ pipe = <<>>
    /\ cb = "idle"
    /\ handled = {}
    /\ given = {}
    /\ faults = [stops |-> 0, crashes |-> 0, errors |-> 0, db_errors |-> 0]

-----------------------------------------------------------------------------
(* The MDT *)

WriteRecord ==
    /\ written < Len(Log)
    /\ written' = written + 1
    /\ fs' = FsStep(fs, Log[written + 1], written + 1)
    /\ UNCHANGED <<scenario, cleared, dbVars, readerVars, info, pipe, cb, faults>>

\* llapi_changelog_start: the handle gives the records from start on that
\* have not been purged.
StartFrom(start) ==
    LET purged == IF Retained THEN 0 ELSE cleared
    IN IF start - 1 > purged THEN start - 1 ELSE purged

\* llapi_changelog_clear: record 0 stands for all of them.
ClearUpTo(n) ==
    IF n = 0 THEN written ELSE IF n > cleared THEN n ELSE cleared

-----------------------------------------------------------------------------
(* can_ignore_record *)

DataTypes == {"TRUNC", "CLOSE", "MTIME"}
MdTypes == {"CTIME", "SETATTR"}

\* record_filters: the queued records that make one of this type redundant
IgnoreMask(type) ==
    CASE type \in {"TRUNC", "CLOSE"} -> DataTypes \cup {"CREATE"}
      [] type = "MTIME" -> DataTypes \cup {"CREATE", "MKNOD", "MKDIR"}
      [] type \in MdTypes -> MdTypes \cup {"CREATE", "MKNOD", "MKDIR"}
      [] type = "UNLINK" -> {"CREATE", "MKNOD"}
      [] type = "RMDIR" -> {"MKDIR"}
      [] OTHER -> {}

\* Places of op_queue that are hashed by the entry of the record; the search
\* goes from the last to the first.
Same(rec) == {i \in DOMAIN op_queue : /\ op_queue[i].fid = rec.fid
                                      /\ ~op_queue[i].get_fid_from_db}
LastOf(S) == CHOOSE i \in S : \A j \in S : j <= i

\* The queued record that makes this one redundant, or 0
Match(rec) ==
    LET S == {i \in Same(rec) : op_queue[i].type \in IgnoreMask(rec.type)}
    IN IF S = {} THEN 0 ELSE LastOf(S)

IgnoreAlways(rec) == rec.type \in {"MARK", "IOCTL"}
IgnoreMasked(rec) ==
    rec.type \in DataTypes \cup MdTypes /\ Match(rec) # 0
\* only if no other record of the entry comes in between
IgnoreCancel(rec) ==
    /\ rec.type \in {"UNLINK", "RMDIR"}
    /\ Match(rec) # 0
    /\ Match(rec) = LastOf(Same(rec))

\* Acknowledging the queued record acknowledges the next one too.
Merged(i, n) ==
    [op_queue EXCEPT ![i].recs = @ \cup {n},
                     ![i].index = IF n = @ + 1 THEN n ELSE @]

-----------------------------------------------------------------------------
(* process_log_rec *)

\* The number that a fake record acknowledges: the 2 records that are made of
\* record n are not both processed yet.
FakeIndex(n) == n - 1

\* cl_rename2unlink_flags: the flag that asks for the entry to be found by
\* name is or-ed to an uninitialized variable.
GetFidFlags(lu543) == IF lu543 THEN StackFlag ELSE {TRUE}

\* create_fake_unlink_record: the entry that a rename overwrites, if any
FakeUnlinks(rec, n, lu543) ==
    IF rec.fid = NoFid THEN {<<>>}
    ELSE {<<[NewOp([rec EXCEPT !.type = "UNLINK"], FakeIndex(n), {})
                EXCEPT !.get_fid_from_db = flag]>> : flag \in GetFidFlags(lu543)}

\* create_fake_rename_record
FakeRename(rec, n) ==
    NewOp([rec EXCEPT !.fid = rec.sfid, !.name = rec.sname], FakeIndex(n), {})

NewExt(rec, n) ==
    NewOp([rec EXCEPT !.type = "EXT", !.fid = rec.sfid], n, {n})

\* Fault: one more queued record is counted, however many there are.
EnqueueOne(ops, lu543) ==
    /\ op_queue' = op_queue \o ops
    /\ info' = [info EXCEPT !.last_read = pos + 1,
                            !.op_queue_count = @ + 1,
                            !.mds_has_lu543 = lu543]

Enqueue(ops, lu543) ==
    /\ op_queue' = op_queue \o ops
    /\ info' = [info EXCEPT !.last_read = pos + 1,
                            !.op_queue_count = @ + Len(ops),
                            !.mds_has_lu543 = lu543]

RenameOneRecord(rec) == rec.type = "RENAME" /\ rec.sfid # NoFid

\* An EXT that names no entry, or another one than RENAME, shows LU-543.
HasLu543(rec) ==
    info.mds_has_lu543 \/ rec.fid = NoFid \/ rec.fid # Log[cl_rename].fid

\* A record that is not redundant
Keep(rec, n) ==
    \/ /\ RenameOneRecord(rec)
       /\ \E unlinks \in FakeUnlinks(rec, n, TRUE) :
             Enqueue(unlinks \o <<FakeRename(rec, n), NewExt(rec, n)>>, TRUE)
       /\ cl_rename' = 0
    \/ /\ rec.type = "RENAME" /\ ~RenameOneRecord(rec)
       /\ Enqueue(<<>>, info.mds_has_lu543)
       /\ cl_rename' = n
    \/ /\ rec.type = "EXT" /\ cl_rename = 0
       /\ Enqueue(<<>>, info.mds_has_lu543)
       /\ UNCHANGED cl_rename
    \/ /\ rec.type = "EXT" /\ cl_rename # 0
       /\ \E unlinks \in FakeUnlinks(rec, n, HasLu543(rec)) :
             Enqueue(unlinks \o <<NewOp(Log[cl_rename], cl_rename, {cl_rename}),
                                  NewOp([rec EXCEPT !.fid = Log[cl_rename].fid],
                                        n, {n})>>,
                     HasLu543(rec))
       /\ cl_rename' = 0
    \/ /\ rec.type \notin {"RENAME", "EXT"}
       /\ Enqueue(<<NewOp(rec, n, {n})>>, info.mds_has_lu543)
       /\ UNCHANGED cl_rename

\* Fault: one record too many is queued.
QueueOverfull == info.op_queue_count > queue_max_size

\* The reader pushes records before it receives others.
QueueFull == info.op_queue_count >= queue_max_size

\* cl_get_one gives a record and process_log_rec handles it.
ProcessLogRec ==
    LET n == pos + 1
        rec == Log[n]
    IN /\ rpc = "loop"
       /\ ~info.force_stop
       /\ ~QueueFull
       /\ pos < written
       /\ pos' = n
       /\ given' = given \cup {n}
       /\ \/ /\ IgnoreAlways(rec)
             /\ handled' = handled \cup {n}
             /\ Enqueue(<<>>, info.mds_has_lu543)
             /\ UNCHANGED cl_rename
          \/ /\ IgnoreMasked(rec)
             /\ op_queue' = Merged(Match(rec), n)
             /\ info' = [info EXCEPT !.last_read = n]
             /\ UNCHANGED <<cl_rename, handled>>
          \/ /\ IgnoreCancel(rec)
             /\ handled' = handled \cup {n} \cup op_queue[Match(rec)].recs
             /\ op_queue' = RemoveAt(op_queue, Match(rec))
             /\ info' = [info EXCEPT !.last_read = n, !.op_queue_count = @ - 1]
             /\ UNCHANGED cl_rename
          \/ /\ ~(IgnoreAlways(rec) \/ IgnoreMasked(rec) \/ IgnoreCancel(rec))
             /\ Keep(rec, n)
             /\ UNCHANGED handled
       /\ UNCHANGED <<mdtVars, db, stored, rpc, pushing, pipe, cb, faults>>

\* One failure is one less to come.
Fail == /\ faults.errors < scenario.max.errors
        /\ faults' = [faults EXCEPT !.errors = @ + 1]

\* cl_get_one at the end of the changelog, or when its channel is broken: it
\* is opened again after the last record that was read.
Reopen ==
    /\ rpc = "loop"
    /\ ~info.force_stop
    /\ ~QueueFull
    /\ ~one_shot
    /\ \/ pos >= written /\ UNCHANGED faults
       \/ Fail
    /\ pos' = StartFrom(info.last_read + 1)
    /\ UNCHANGED <<mdtVars, dbVars, op_queue, cl_rename, rpc, pushing, given,
                   info, pipe, cb>>

\* Fault: the queue is dropped in one-shot mode too.
LeaveLoopDrop ==
    /\ rpc = "loop"
    /\ \/ info.force_stop /\ UNCHANGED faults
       \/ one_shot /\ ~QueueFull /\ pos >= written /\ UNCHANGED faults
    /\ rpc' = "done"
    /\ UNCHANGED <<mdtVars, dbVars, pos, op_queue, cl_rename, pushing, given,
                   info, pipe, cb>>

\* The loop of chglog_reader_thr ends: in one-shot mode the queue is flushed,
\* else it is dropped.
LeaveLoop ==
    /\ rpc = "loop"
    /\ \/ info.force_stop /\ UNCHANGED faults
       \/ /\ one_shot
          /\ ~QueueFull
          /\ (pos >= written /\ UNCHANGED faults) \/ Fail
    /\ rpc' = IF one_shot THEN "push all" ELSE "done"
    /\ UNCHANGED <<mdtVars, dbVars, pos, op_queue, cl_rename, pushing, given,
                   info, pipe, cb>>

-----------------------------------------------------------------------------
(* process_op_queue *)

\* Fault: only a full queue is pushed.
StartPushFull ==
    /\ rpc = "loop"
    /\ ~info.force_stop
    /\ QueueFull
    /\ rpc' = "push"
    /\ UNCHANGED <<mdtVars, dbVars, pos, op_queue, cl_rename, pushing, given,
                   info, pipe, cb, faults>>

\* The queue is full, or the check interval is over.
StartPush ==
    /\ rpc = "loop"
    /\ ~info.force_stop
    /\ op_queue # <<>>
    /\ rpc' = "push"
    /\ UNCHANGED <<mdtVars, dbVars, pos, op_queue, cl_rename, pushing, given,
                   info, pipe, cb, faults>>

\* EntryProcessor_Push waits for a place in the pipeline.
PushOp ==
    /\ rpc \in {"push", "push all"}
    /\ op_queue # <<>>
    /\ Len(pipe) < MaxPending
    /\ pipe' = Append(pipe, Head(op_queue))
    /\ op_queue' = Tail(op_queue)
    /\ pushing' = Head(op_queue)
    /\ rpc' = IF rpc = "push" THEN "pushed" ELSE "pushed all"
    /\ UNCHANGED <<mdtVars, dbVars, pos, cl_rename, given, info, cb, faults>>

\* The log record is still there as long as the operation is.
Released == \A i \in DOMAIN pipe : [pipe[i] EXCEPT !.done = FALSE] # pushing

UpdateLastPush ==
    /\ rpc \in {"pushed", "pushed all"}
    /\ \E n \in {pushing.index} \cup (IF Released THEN {Garbage} ELSE {}) :
          info' = [info EXCEPT !.last_push = n, !.op_queue_count = @ - 1]
    /\ rpc' = IF rpc = "pushed" THEN "push" ELSE "push all"
    /\ pushing' = NoOp
    /\ UNCHANGED <<mdtVars, dbVars, pos, op_queue, cl_rename, given, pipe, cb,
                   faults>>

\* The queue is below its limit and its first record, if any, is young.
EndPush ==
    /\ \/ rpc = "push" /\ ~QueueFull /\ rpc' = "loop"
       \/ rpc = "push all" /\ op_queue = <<>> /\ rpc' = "done"
    /\ UNCHANGED <<mdtVars, dbVars, pos, op_queue, cl_rename, pushing, given,
                   info, pipe, cb, faults>>

-----------------------------------------------------------------------------
(* The pipeline *)

\* Operations on one entry are processed in order.  Nothing passes one whose
\* entry is to be found by name, but it may pass others itself.
CanApply(i) ==
    /\ ~pipe[i].done
    /\ \/ pipe[i].get_fid_from_db
       \/ \A j \in 1..(i - 1) :
             pipe[j].done \/ (pipe[j].fid # pipe[i].fid /\ ~pipe[j].get_fid_from_db)

\* From GET_INFO_DB to DB_APPLY.  A failed request is logged, and the
\* operation goes on to the callback all the same.
ApplyOp ==
    \E i \in DOMAIN pipe :
       /\ rpc # "down"
       /\ CanApply(i)
       /\ IF IsDropped(db, pipe[i])
          THEN /\ pipe' = RemoveAt(pipe, i)
               /\ handled' = handled \cup pipe[i].recs
               /\ UNCHANGED <<db, faults>>
          ELSE /\ pipe' = [pipe EXCEPT ![i].done = TRUE]
               /\ \/ /\ db' \in Outcomes(db, fs, pipe[i])
                     /\ handled' = handled \cup pipe[i].recs
                     /\ UNCHANGED faults
                  \/ /\ faults.db_errors < scenario.max.db_errors
                     /\ faults' = [faults EXCEPT !.db_errors = @ + 1]
                     /\ UNCHANGED <<db, handled>>
       /\ UNCHANGED <<mdtVars, stored, readerVars, info, cb>>

-----------------------------------------------------------------------------
(* log_record_callback, called by the last stage, one record at a time *)

\* store_last_commit, unless forced: only if enough records were committed
\* since the last time, or if enough time passed (always the case at first).
StoreDue(commit) ==
    {commit - info.last_commit_update >= commit_update_max_delta
        \/ ~info.updated} \cup {TRUE}

\* store_rec_stats saves nothing for record 0, and succeeds.
StoreCommit(commit) ==
    /\ stored' = IF commit = 0 THEN stored ELSE commit
    /\ info' = [info EXCEPT !.last_commit = commit, !.last_commit_update = commit,
                            !.updated = TRUE]

\* Records are cleared by batches, up to the last one that was pushed.
\* Record numbers are unsigned.
KeepBatch(n) ==
    /\ batch_ack_count > 1
    /\ n < info.last_push
    /\ n >= info.last_clear
    /\ n - info.last_clear < batch_ack_count

\* clear_changelog_records: nothing if no record was committed
Cleared ==
    IF info.last_commit = 0 THEN cleared ELSE ClearUpTo(info.last_commit)

Commit ==
    /\ rpc # "down"
    /\ cb = "idle"
    /\ pipe # <<>>
    /\ Head(pipe).done
    /\ LET n == Head(pipe).index
       IN \E due \in StoreDue(n) :
          \/ /\ due
             /\ StoreCommit(n)
             /\ UNCHANGED faults
             /\ IF KeepBatch(n) THEN cb' = cb /\ pipe' = Tail(pipe)
                                ELSE cb' = "clear, saved" /\ pipe' = pipe
          \/ /\ \/ ~due /\ UNCHANGED faults
                \/ due /\ Fail
             /\ info' = [info EXCEPT !.last_commit = n]
             /\ UNCHANGED stored
             /\ IF KeepBatch(n) THEN cb' = cb /\ pipe' = Tail(pipe)
                                ELSE cb' = "clear" /\ pipe' = pipe
    /\ UNCHANGED <<mdtVars, db, handled, readerVars>>

\* An error of the MDT is only logged.
ClearRecords ==
    /\ rpc # "down"
    /\ cb \in {"clear", "clear, saved"}
    /\ \/ /\ cleared' = Cleared
          /\ info' = [info EXCEPT !.last_clear = info.last_commit]
          /\ UNCHANGED faults
       \/ Fail /\ UNCHANGED <<cleared, info>>
    /\ IF cb = "clear" THEN cb' = "store" /\ pipe' = pipe
                       ELSE cb' = "idle" /\ pipe' = Tail(pipe)
    /\ UNCHANGED <<scenario, fs, written, dbVars, readerVars>>

StoreAfterClear ==
    /\ rpc # "down"
    /\ cb = "store"
    /\ cb' = "idle"
    /\ pipe' = Tail(pipe)
    /\ \/ StoreCommit(info.last_commit) /\ UNCHANGED faults
       \/ Fail /\ UNCHANGED <<stored, info>>
    /\ UNCHANGED <<mdtVars, db, handled, readerVars>>

-----------------------------------------------------------------------------
(* Starting and stopping *)

\* What the process forgets
Down ==
    /\ rpc' = "down"
    /\ pos' = 0
    /\ info' = FirstInfo
    /\ op_queue' = <<>>
    /\ cl_rename' = 0
    /\ pushing' = NoOp
    /\ pipe' = <<>>
    /\ cb' = "idle"

\* cl_reader_terminate, from the signal handler
Terminate ==
    /\ rpc # "down"
    /\ ~info.force_stop
    /\ faults.stops < scenario.max.stops
    /\ faults' = [faults EXCEPT !.stops = @ + 1]
    /\ info' = [info EXCEPT !.force_stop = TRUE]
    /\ UNCHANGED <<mdtVars, dbVars, readerVars, pipe, cb>>

\* The pipeline is stopped, or flushed at the end of a one-shot run, and
\* cl_reader_done clears the last records.
Done ==
    /\ rpc = "done"
    /\ cb = "idle"
    /\ info.force_stop \/ pipe = <<>>
    /\ cleared' = Cleared
    /\ Down
    /\ UNCHANGED <<scenario, fs, written, dbVars, given, faults>>

Crash ==
    /\ rpc # "down"
    /\ faults.crashes < scenario.max.crashes
    /\ faults' = [faults EXCEPT !.crashes = @ + 1]
    /\ Down
    /\ UNCHANGED <<mdtVars, dbVars, given>>

\* retrieve_last_commit
StartRecord == IF stored = 0 THEN 0 ELSE stored + 1

\* cl_reader_start: from the record after the last one that was saved, or
\* from the first one if the database cannot tell.
Start ==
    /\ rpc = "down"
    /\ ~one_shot
    /\ \/ pos' = StartFrom(StartRecord) /\ UNCHANGED faults
       \/ Fail /\ pos' = StartFrom(0)
    /\ rpc' = "loop"
    /\ given' = {}
    /\ UNCHANGED <<mdtVars, dbVars, op_queue, cl_rename, pushing, info, pipe, cb>>

-----------------------------------------------------------------------------
Reader == \/ ProcessLogRec \/ Reopen \/ LeaveLoop
          \/ StartPush \/ PushOp \/ UpdateLastPush \/ EndPush

Callback == Commit \/ ClearRecords \/ StoreAfterClear

Next == \/ WriteRecord \/ Reader \/ ApplyOp \/ Callback
        \/ Terminate \/ Done \/ Crash \/ Start

Spec == Init /\ [][Next]_vars

(***************************************************************************)
(* The reader thread and the workers of the pipeline go on running.  The   *)
(* check interval ends infinitely often, and then records of the queue are *)
(* older than queue_max_age at last, so that they are pushed.  A request   *)
(* that may fail succeeds in the end: the bound on errors sees to it.  The *)
(* MDT writes the second half of a rename.                                 *)
(***************************************************************************)
HalfRename ==
    \E k \in 1..written : /\ Log[k].type = "RENAME" /\ ~RenameOneRecord(Log[k])
                          /\ \A n \in k..written : Log[n].type # "EXT"

Fairness ==
    /\ WF_vars(HalfRename /\ WriteRecord)
    /\ WF_vars(ProcessLogRec)
    /\ WF_vars(StartPush)
    /\ SF_vars(PushOp)
    /\ WF_vars(UpdateLastPush)
    /\ WF_vars(EndPush)
    /\ WF_vars(LeaveLoop)
    /\ WF_vars(ApplyOp)
    /\ WF_vars(Callback)
    /\ WF_vars(Done)
    /\ WF_vars(Start)
FairSpec == Spec /\ Fairness

-----------------------------------------------------------------------------
(* Properties *)

\* A record is acknowledged even if the database failed to apply it (see
\* ApplyOp): nothing is promised of its effect then.
DbFailed == faults.db_errors > 0

OpSet == [type : STRING, fid : Fids \cup {NoFid, Root},
          name : Names \cup {NoName}, last : BOOLEAN,
          get_fid_from_db : BOOLEAN, index : Numbers, recs : SUBSET Numbers,
          done : BOOLEAN]

\* The state of the reader, of the MDT and of the database has its shape, and
\* op_queue_count (which process_op_queue decrements after the push) is the
\* number of queued records.
TypeOK ==
    /\ {written, cleared, stored, pos, cl_rename} \subseteq Numbers
    /\ {info.last_read, info.last_commit, info.last_commit_update,
        info.last_clear} \subseteq Numbers
    /\ info.last_push \in Numbers \cup {Garbage}
    /\ info.force_stop \in BOOLEAN
    /\ \A i \in DOMAIN op_queue : op_queue[i] \in OpSet
    /\ \A i \in DOMAIN pipe : pipe[i] \in OpSet
    /\ info.op_queue_count =
          Len(op_queue) + (IF rpc \in {"pushed", "pushed all"} THEN 1 ELSE 0)
    /\ rpc \in {"loop", "push", "pushed", "push all", "pushed all", "done", "down"}
    /\ cb \in {"idle", "clear", "clear, saved", "store"}
    /\ DOMAIN db.main \subseteq Fids
    /\ DOMAIN db.names \subseteq Names

\* The first half of a rename in two records, and the one that the second half
\* n of such a rename follows, with other records in between or not
FirstHalves == {k \in DOMAIN Log : Log[k].type = "RENAME" /\ ~RenameOneRecord(Log[k])}
HalvesOf(n) ==
    {k \in FirstHalves : /\ k < n /\ Log[n].type = "EXT"
                         /\ \A j \in k+1 .. n-1 : Log[j].type \notin {"RENAME", "EXT"}}

\* The second half of a rename whose first half was not recorded
Orphans == {n \in DOMAIN Log : Log[n].type = "EXT" /\ HalvesOf(n) = {}}

\* The second halves of the renames in two records, once the process has been
\* stopped or has died.  If the number of the first half was saved, the next
\* start reads the second half alone, with no cl_rename, and drops it.
Torn == IF faults.stops + faults.crashes = 0 THEN {}
        ELSE {n \in DOMAIN Log : Log[n].type = "EXT"} \ Orphans

\* A record that the MDT may purge, or that the next start will skip, has had
\* its effect on the database, whatever the process was doing when it died
\* (log_record_callback, the numbers that fake and merged records acknowledge,
\* cl_reader_start).  A rename in two records is not promised this: its fake
\* UNLINK acknowledges the first half, which is still queued, and a restart
\* from there loses the second half as well.
NoRecordLost ==
    DbFailed \/ \A n \in 1..written :
                   n <= cleared \/ n <= stored
                   => n \in handled \cup Orphans \cup FirstHalves \cup Torn

\* The entries that the database has heard of
Seen == scenario.known \cup UNION {{Log[k].fid, Log[k].sfid} : k \in 1..written}

\* Nothing is left to be done.
Quiescent ==
    /\ rpc = "loop" /\ pos = written
    /\ op_queue = <<>> /\ pipe = <<>> /\ cl_rename = 0

\* When all records have been processed, the database has the entries, the
\* names and the attributes that the file system has, although records were
\* merged, cancelled, reordered, or processed again after a restart; unless a
\* restart lost the second half of a rename (see Torn).
Converged ==
    Quiescent /\ ~DbFailed /\ Torn \cap 1..written \subseteq handled =>
       /\ DOMAIN db.main = Range(fs.names) \cap Seen
       /\ db.names = Restrict(fs.names, {n \in DOMAIN fs.names : fs.names[n] \in Seen})
       /\ \A f \in DOMAIN db.main : db.main[f].ver = fs.ver[f]

\* One record adds at most 3 operations, and the reader pushes before it
\* reads more: the queue stays within 2 of queue_max_size.
QueueBounded == Len(op_queue) <= queue_max_size + 2

\* The renames whose second half is not the next record
Displaced == FirstHalves \ UNION {HalvesOf(n) \cap {n - 1} : n \in DOMAIN Log}

\* Records are committed in the order of their numbers, fake and merged ones
\* included: last_commit does not go back while the process runs.  The only
\* exception is the first half of a rename that other records separate from the
\* second one: it waits for the second half, behind those records
\* (process_log_rec, "we are re-ordering the CL_RENAME").
CommitForward ==
    [][rpc' # "down" => \/ info'.last_commit >= info.last_commit
                        \/ info'.last_commit \in Displaced]_vars

\* Every record that is written is processed in the end, with no more records
\* needed to push it out of the queue (unless the reader is to stop).
EveryRecordHandled ==
    ~one_shot => []<>(DbFailed \/ 1..written \subseteq handled \cup Orphans)

\* "Expected behavior in one-shot mode is to process all pending changelogs":
\* when the process ends by itself, all the records it was given are in the
\* database, and those it committed are cleared.  The first half of a rename
\* is left for the next run if the changelog ended there.
OneShotComplete ==
    one_shot /\ rpc = "down" /\ ~DbFailed
    /\ faults.stops + faults.crashes + faults.errors = 0
        => \A n \in given :
              /\ \/ n \in handled \cup Orphans
                 \/ n \in FirstHalves /\ \A m \in given : n \notin HalvesOf(m)
              /\ n <= stored => n <= cleared
=============================================================================
