---------------------------- MODULE EntryPipeline ----------------------------
(***************************************************************************)
(* The entry processor: the multi-threaded, multi-stage pipeline through   *)
(* which every file system entry seen by a scan and every changelog record *)
(* goes (src/src/entry_processor/entry_proc_impl.c, entry_proc_tools.c).   *)
(*                                                                         *)
(* A step is what a thread does between two points where it may have to    *)
(* wait: for a stage mutex, for work_avail_lock, for the token semaphore   *)
(* or in pthread_cond_wait.  A mutex that is taken and released within one *)
(* step is only required to be free; one that is kept while waiting for    *)
(* another is recorded in mutex (stages) or work_avail_lock.               *)
(*                                                                         *)
(* What the stage functions decide is a parameter (Exits): the engine is   *)
(* the same for every pipeline flavor.  Allocation failures are left out.  *)
(***************************************************************************)
EXTENDS Integers, Sequences, FiniteSets, SequencesExt

CONSTANTS
    Workers,       \* the nb_thread worker threads
    Pushers,       \* threads that feed the pipeline (scan, changelog readers)
    NoThread,      \* "mutex is free"
    Ops,           \* the operations
    Programs,      \* what each pusher may have to push, in order
    stage_count,
    Sequential,    \* stages with STAGE_FLAG_SEQUENTIAL, others are PARALLEL
    IdConstraint,  \* stages with STAGE_FLAG_ID_CONSTRAINT
    Batchable,     \* stages with a batch function
    max_thread_count,        \* per stage, 0 for no limit
    max_pending_operations,  \* 0 for no limit
    max_batch_size,
    GetIdStage,    \* the stage whose function sets entry_id
    PushStage,     \* pipeline_stage of an operation when it is pushed
    IdAtPush,      \* operations whose entry_id is set when they are pushed
    EntryId,       \* the entry_id of an operation, once it is set
    EntryName,     \* its parent_id/name, or NoName
    NoName,
    Exits,         \* the next stages its stage function may choose, per stage
    Modes          \* the termination modes to be tried

Stages == 0..(stage_count - 1)

\* next_stage -1 with remove = true: the operation leaves the pipeline
Drop == -1

ASSUME ThreadsAssumption ==
    /\ NoThread \notin Workers \cup Pushers
    /\ Workers \cap Pushers = {}
ASSUME StagesAssumption ==
    /\ stage_count \in Nat \ {0}
    /\ Sequential \subseteq Stages
    /\ IdConstraint \subseteq Stages \ Sequential
    /\ Batchable \subseteq Stages \ Sequential
    /\ max_thread_count \in [Stages -> Nat]
    /\ GetIdStage \in Stages
ASSUME LimitsAssumption ==
    /\ max_pending_operations \in Nat
    /\ max_batch_size \in Nat \ {0}
ASSUME OpsAssumption ==
    /\ \A prog \in Programs : prog \in [Pushers -> Seq(Ops)]
    /\ PushStage \in [Ops -> Stages]
    /\ IdAtPush \subseteq Ops
    /\ \A o \in Ops, s \in Stages :
          Exits[o][s] \subseteq {Drop} \cup ((s + 1)..(stage_count - 1))
ASSUME ModesAssumption == Modes \subseteq {"FLUSH", "BREAK"}

VARIABLES
    pipeline,            \* list_by_stage_t of each stage, without statistics
    mutex,               \* who keeps the stage_mutex of each stage
    op,                  \* entry_proc_op_t: stage, being processed, id is set
    id_hash,             \* registered operations, in order, looked up by id
    name_hash,           \* the same for parent_id/name
    force_seq,           \* stages with STAGE_FLAG_FORCE_SEQ
    pipeline_token,      \* the semaphore of pending operations
    work_avail_lock,
    nb_waiting_threads,
    terminate_flag,
    pc,                  \* where each worker is
    scan,                \* locals of next_work_avail and GetNextOp
    listop,              \* the batch a worker was given, until it is moved on
                         \* or, if it is removed, released
    frames,              \* the calls to move_stage_entries in progress
    ppc,                 \* where each pusher is
    topush,              \* what each pusher has still to push
    arrived,             \* history: operations in the order of insertion
    removed              \* operations deleted from the lists

opVars == <<op, id_hash, name_hash>>
workerVars == <<scan, listop, frames>>
pushVars == <<ppc, topush, arrived>>
vars == <<pipeline, mutex, opVars, force_seq, pipeline_token, work_avail_lock,
          nb_waiting_threads, terminate_flag, pc, workerVars, pushVars, removed>>

\* locals that are not in use
NotScanning == [i |-> 0, tot_entries |-> 0, is_empty |-> TRUE]

Init ==
    /\ pipeline = [s \in Stages |->
          [entries |-> << >>, nb_threads |-> 0, nb_unprocessed_entries |-> 0,
           nb_current_entries |-> 0, nb_processed_entries |-> 0]]
    /\ mutex = [s \in Stages |-> NoThread]
    /\ op = [o \in Ops |-> [pipeline_stage |-> PushStage[o],
                            being_processed |-> FALSE,
                            entry_id_is_set |-> o \in IdAtPush]]
    /\ id_hash = << >>
    /\ name_hash = << >>
    /\ force_seq = {}
    /\ pipeline_token = max_pending_operations
    /\ work_avail_lock = NoThread
    /\ nb_waiting_threads = 0
    /\ terminate_flag = "NONE"
    /\ pc = [w \in Workers |-> "start"]
    /\ scan = [w \in Workers |-> NotScanning]
    /\ listop = [w \in Workers |-> << >>]
    /\ frames = [w \in Workers |-> << >>]
    /\ ppc = [p \in Pushers |-> [at |-> "idle", i |-> 0]]
    /\ topush \in Programs
    /\ arrived = << >>
    /\ removed = {}

-----------------------------------------------------------------------------
(* The id constraint manager (entry_proc_tools.c).                         *)

Registered(o) == o \in ToSet(id_hash)
Named(o) == EntryName[o] # NoName

\* id_constraint_register of the operations of a sequence, at the tail
RegisterAll(os) ==
    LET new == SelectSeq(os, LAMBDA o : op[o].entry_id_is_set /\ ~Registered(o))
    IN  /\ id_hash' = id_hash \o new
        /\ name_hash' = name_hash \o SelectSeq(new, Named)

\* Fault: an id found late is not registered.
RegisterNothing(o) == UNCHANGED <<id_hash, name_hash>>

\* id_constraint_register(o, true)
RegisterAtHead(o) ==
    /\ id_hash' = <<o>> \o id_hash
    /\ name_hash' = IF Named(o) THEN <<o>> \o name_hash ELSE name_hash

\* id_constraint_unregister, for those that are registered
UnregisterAll(os) ==
    /\ id_hash' = SelectSeq(id_hash, LAMBDA o : o \notin ToSet(os))
    /\ name_hash' = SelectSeq(name_hash, LAMBDA o : o \notin ToSet(os))

IsFirstOf(o, same) == same = << >> \/ Head(same) = o

\* Fault: an operation is taken for the first one whenever it is registered.
FirstIfRegistered(o) == Registered(o)

\* id_constraint_is_first_op
id_constraint_is_first_op(o) ==
    /\ Registered(o)
    /\ IsFirstOf(o, SelectSeq(id_hash, LAMBDA x : EntryId[x] = EntryId[o]))
    /\ Named(o) =>
          IsFirstOf(o, SelectSeq(name_hash, LAMBDA x : EntryName[x] = EntryName[o]))

-----------------------------------------------------------------------------
\* Fault: an operation that reaches its own stage is counted as processed.
InsertedMiscounted(s, os) ==
    LET above == SelectSeq(os, LAMBDA o : s <= op[o].pipeline_stage) IN
    [pipeline EXCEPT
       ![s].entries = @ \o os,
       ![s].nb_processed_entries = @ + Len(above),
       ![s].nb_unprocessed_entries = @ + Len(os) - Len(above)]

\* The operations of sequence os are added to the tail of stage s: those whose
\* next stage is higher count as processed here.
Inserted(s, os) ==
    LET above == SelectSeq(os, LAMBDA o : s < op[o].pipeline_stage) IN
    [pipeline EXCEPT
       ![s].entries = @ \o os,
       ![s].nb_processed_entries = @ + Len(above),
       ![s].nb_unprocessed_entries = @ + Len(os) - Len(above)]

\* registration of operations that enter stage s
Register(s, os) ==
    IF s \in IdConstraint THEN RegisterAll(os)
    ELSE UNCHANGED <<id_hash, name_hash>>

-----------------------------------------------------------------------------
(* pthread_cond_signal(&work_avail_cond) if n > 0, once the workers are at *)
(* f: one of the threads in pthread_cond_wait, if any, is woken.           *)

Asleep(f) == {v \in Workers : f[v] = "asleep"}

AfterSignal(f, n) ==
    IF n > 0 /\ Asleep(f) # {}
    THEN {[f EXCEPT ![v] = "woken"] : v \in Asleep(f)}
    ELSE {f}

-----------------------------------------------------------------------------
(* EntryProcessor_Push.                                                    *)

NextPush(p) == Head(topush[p])

\* sem_wait(&pipeline_token)
PushToken(p) ==
    /\ ppc[p].at = "idle"
    /\ topush[p] # << >>
    /\ max_pending_operations > 0 => pipeline_token > 0
    /\ pipeline_token' = IF max_pending_operations > 0
                         THEN pipeline_token - 1 ELSE pipeline_token
    /\ ppc' = [ppc EXCEPT ![p] = [at |-> "lock", i |-> 0]]
    /\ UNCHANGED <<pipeline, mutex, opVars, force_seq, work_avail_lock,
                   nb_waiting_threads, terminate_flag, pc, workerVars, topush,
                   arrived, removed>>

\* P(pipeline[i].stage_mutex), of an empty stage before the operation's own
PushSkip(p) ==
    LET i == ppc[p].i IN
    /\ ppc[p].at = "lock"
    /\ mutex[i] = NoThread
    /\ pipeline[i].entries = << >> /\ i < op[NextPush(p)].pipeline_stage
    /\ mutex' = [mutex EXCEPT ![i] = p]
    /\ ppc' = [ppc EXCEPT ![p].i = i + 1]
    /\ UNCHANGED <<pipeline, opVars, force_seq, pipeline_token,
                   work_avail_lock, nb_waiting_threads, terminate_flag, pc,
                   workerVars, topush, arrived, removed>>

\* P of the stage where the operation goes, the insertion and the release of
\* every stage
PushInsert(p) ==
    LET i == ppc[p].i
        o == NextPush(p)
    IN
    /\ ppc[p].at = "lock"
    /\ mutex[i] = NoThread
    /\ pipeline[i].entries # << >> \/ i = op[o].pipeline_stage
    /\ Register(i, <<o>>)
    /\ pipeline' = Inserted(i, <<o>>)
    /\ mutex' = [s \in Stages |-> IF mutex[s] = p THEN NoThread ELSE mutex[s]]
    /\ arrived' = Append(arrived, o)
    /\ topush' = [topush EXCEPT ![p] = Tail(@)]
    /\ ppc' = [ppc EXCEPT ![p].at = "signal"]
    /\ UNCHANGED <<op, force_seq, pipeline_token, work_avail_lock,
                   nb_waiting_threads, terminate_flag, pc, workerVars, removed>>

\* Fault: a push wakes nobody.
PushSilent(p) ==
    /\ ppc[p].at = "signal"
    /\ work_avail_lock = NoThread
    /\ ppc' = [ppc EXCEPT ![p] = [at |-> "idle", i |-> 0]]
    /\ UNCHANGED <<pipeline, mutex, opVars, force_seq, pipeline_token,
                   work_avail_lock, nb_waiting_threads, terminate_flag, pc,
                   workerVars, topush, arrived, removed>>

\* the signal under work_avail_lock
PushSignal(p) ==
    /\ ppc[p].at = "signal"
    /\ work_avail_lock = NoThread
    /\ pc' \in AfterSignal(pc, nb_waiting_threads)
    /\ ppc' = [ppc EXCEPT ![p] = [at |-> "idle", i |-> 0]]
    /\ UNCHANGED <<pipeline, mutex, opVars, force_seq, pipeline_token,
                   work_avail_lock, nb_waiting_threads, terminate_flag,
                   workerVars, topush, arrived, removed>>

-----------------------------------------------------------------------------
(* next_work_avail: one step per stage, from the last to the first, all of *)
(* them under work_avail_lock.                                             *)

StageSize(s) == pipeline[s].nb_current_entries
                  + pipeline[s].nb_unprocessed_entries
                  + pipeline[s].nb_processed_entries

\* an operation without id at the head of a constrained stage, when no entry
\* is counted elsewhere in this stage or, when they were visited, above it
MayForceSeq(s, tot) ==
    LET es == pipeline[s].entries IN
    /\ s \in IdConstraint
    /\ es # << >> /\ ~op[Head(es)].entry_id_is_set
    /\ tot - pipeline[s].nb_unprocessed_entries = 0

\* no operation is taken past entry j
Blocks(s, tot, j) ==
    /\ s \in IdConstraint
    /\ ~op[pipeline[s].entries[j]].entry_id_is_set
    /\ ~(j = 1 /\ MayForceSeq(s, tot))

CanProcess(s, o) ==
    /\ ~op[o].being_processed
    /\ op[o].pipeline_stage <= s
    /\ s \in IdConstraint /\ op[o].entry_id_is_set => id_constraint_is_first_op(o)

\* places of the list of stage s from where a worker may take operations
Candidates(s, tot) ==
    LET es == pipeline[s].entries IN
    IF s \in Sequential
    THEN {j \in DOMAIN es : op[es[j]].pipeline_stage = s}
    ELSE {j \in DOMAIN es : /\ CanProcess(s, es[j])
                            /\ \A k \in 1..j : ~Blocks(s, tot, k)}

\* the operations taken with the one at place j; how far test_batchable goes
\* is not modelled
Batches(s, j) ==
    LET es == pipeline[s].entries
        Ready(k) == ~op[es[k]].being_processed /\ op[es[k]].pipeline_stage = s
    IN  {SubSeq(es, j, n) :
           n \in {k \in j..Len(es) :
                    /\ k - j + 1 <= IF s \in Batchable THEN max_batch_size ELSE 1
                    /\ \A m \in (j + 1)..k : Ready(m)}}

\* nothing can be taken at this stage whatever its list holds
StageClosed(s) ==
    \/ pipeline[s].nb_unprocessed_entries = 0
    \/ s \in Sequential /\ pipeline[s].nb_threads # 0
    \/ /\ s \notin Sequential
       /\ \/ /\ max_thread_count[s] # 0
             /\ pipeline[s].nb_threads >= max_thread_count[s]
          \/ s \in force_seq

\* the stage is left with *p_empty set to false
StageNotEmpty(s) ==
    /\ pipeline[s].nb_unprocessed_entries # 0
    /\ \/ s \in Sequential
       \/ max_thread_count[s] # 0 /\ pipeline[s].nb_threads >= max_thread_count[s]
       \/ s \notin force_seq

\* Fault: any termination flag keeps a worker from looking for work.
GetNextOpUnlessStopping(w) ==
    /\ pc[w] \in {"start", "woken"}
    /\ work_avail_lock = NoThread
    /\ work_avail_lock' = w
    /\ nb_waiting_threads' = IF pc[w] = "start" THEN nb_waiting_threads + 1
                             ELSE nb_waiting_threads
    /\ scan' = [scan EXCEPT ![w] = [i |-> stage_count - 1, tot_entries |-> 0,
                                    is_empty |-> TRUE]]
    /\ pc' = [pc EXCEPT ![w] = IF terminate_flag = "NONE" THEN "scan" ELSE "check"]
    /\ UNCHANGED <<pipeline, mutex, opVars, force_seq, pipeline_token,
                   terminate_flag, listop, frames, pushVars, removed>>

\* P(work_avail_lock) of EntryProcessor_GetNextOp, or of pthread_cond_wait
GetNextOp(w) ==
    /\ pc[w] \in {"start", "woken"}
    /\ work_avail_lock = NoThread
    /\ work_avail_lock' = w
    /\ nb_waiting_threads' = IF pc[w] = "start" THEN nb_waiting_threads + 1
                             ELSE nb_waiting_threads
    /\ scan' = [scan EXCEPT ![w] = [i |-> stage_count - 1, tot_entries |-> 0,
                                    is_empty |-> TRUE]]
    /\ pc' = [pc EXCEPT ![w] = IF terminate_flag = "BREAK" THEN "check" ELSE "scan"]
    /\ UNCHANGED <<pipeline, mutex, opVars, force_seq, pipeline_token,
                   terminate_flag, listop, frames, pushVars, removed>>

\* a stage is visited and nothing is taken
ScanStage(w) ==
    LET s == scan[w].i
        tot == scan[w].tot_entries + StageSize(s)
    IN
    /\ pc[w] = "scan"
    /\ mutex[s] = NoThread
    /\ StageClosed(s) \/ Candidates(s, tot) = {}
    /\ scan' = [scan EXCEPT ![w] =
                  [i |-> IF s = 0 THEN 0 ELSE s - 1, tot_entries |-> tot,
                   is_empty |-> scan[w].is_empty /\ ~StageNotEmpty(s)]]
    /\ force_seq' = IF ~StageClosed(s) /\ MayForceSeq(s, tot)
                    THEN force_seq \cup {s} ELSE force_seq
    /\ pc' = [pc EXCEPT ![w] = IF s = 0 THEN "check" ELSE "scan"]
    /\ UNCHANGED <<pipeline, mutex, opVars, pipeline_token, work_avail_lock,
                   nb_waiting_threads, terminate_flag, listop,
                   frames, pushVars, removed>>

\* a stage is visited, operations are taken, and another thread is woken
\* because there may be more work
TakeWork(w) ==
    LET s == scan[w].i
        tot == scan[w].tot_entries + StageSize(s)
    IN
    /\ pc[w] = "scan"
    /\ mutex[s] = NoThread
    /\ ~StageClosed(s) /\ Candidates(s, tot) # {}
    /\ force_seq' = IF MayForceSeq(s, tot) THEN force_seq \cup {s} ELSE force_seq
    /\ \E b \in Batches(s, CHOOSE j \in Candidates(s, tot) :
                              \A k \in Candidates(s, tot) : j <= k) :
          /\ listop' = [listop EXCEPT ![w] = b]
          /\ op' = [o \in Ops |-> IF o \in ToSet(b)
                                  THEN [op[o] EXCEPT !.being_processed = TRUE]
                                  ELSE op[o]]
          /\ pipeline' = [pipeline EXCEPT
                            ![s].nb_unprocessed_entries = @ - Len(b),
                            ![s].nb_current_entries = @ + Len(b),
                            ![s].nb_threads = @ + 1]
    /\ nb_waiting_threads' = nb_waiting_threads - 1
    /\ pc' \in AfterSignal([pc EXCEPT ![w] = "process"], nb_waiting_threads')
    /\ work_avail_lock' = NoThread
    /\ scan' = [scan EXCEPT ![w] = NotScanning]
    /\ UNCHANGED <<mutex, id_hash, name_hash, pipeline_token, terminate_flag,
                   frames, pushVars, removed>>

\* Fault: a worker that leaves does not wake another one.
LeaveSilently(w) ==
    /\ pc[w] = "check"
    /\ terminate_flag = "BREAK" \/ (terminate_flag = "FLUSH" /\ scan[w].is_empty)
    /\ nb_waiting_threads' = nb_waiting_threads - 1
    /\ pc' = [pc EXCEPT ![w] = "finished"]
    /\ work_avail_lock' = NoThread
    /\ scan' = [scan EXCEPT ![w] = NotScanning]
    /\ UNCHANGED <<pipeline, mutex, opVars, force_seq, pipeline_token,
                   terminate_flag, listop, frames, pushVars, removed>>

\* no work: the worker sees the termination flag and leaves
Leave(w) ==
    /\ pc[w] = "check"
    /\ terminate_flag = "BREAK" \/ (terminate_flag = "FLUSH" /\ scan[w].is_empty)
    /\ nb_waiting_threads' = nb_waiting_threads - 1
    /\ pc' \in AfterSignal([pc EXCEPT ![w] = "finished"], nb_waiting_threads')
    /\ work_avail_lock' = NoThread
    /\ scan' = [scan EXCEPT ![w] = NotScanning]
    /\ UNCHANGED <<pipeline, mutex, opVars, force_seq, pipeline_token,
                   terminate_flag, listop, frames, pushVars, removed>>

\* no work and no reason to leave: the worker goes to pthread_cond_wait, which
\* it has not entered yet
DecideToWait(w) ==
    /\ pc[w] = "check"
    /\ ~(terminate_flag = "BREAK" \/ (terminate_flag = "FLUSH" /\ scan[w].is_empty))
    /\ pc' = [pc EXCEPT ![w] = "wait"]
    /\ scan' = [scan EXCEPT ![w] = NotScanning]
    /\ UNCHANGED <<pipeline, mutex, opVars, force_seq, pipeline_token,
                   work_avail_lock, nb_waiting_threads, terminate_flag, listop,
                   frames, pushVars, removed>>

\* pthread_cond_wait: release work_avail_lock and wait, atomically
Wait(w) ==
    /\ pc[w] = "wait"
    /\ pc' = [pc EXCEPT ![w] = "asleep"]
    /\ work_avail_lock' = NoThread
    /\ UNCHANGED <<pipeline, mutex, opVars, force_seq, pipeline_token,
                   nb_waiting_threads, terminate_flag, workerVars, pushVars,
                   removed>>

-----------------------------------------------------------------------------
(* The stage functions, as far as the engine sees them.                    *)

Current(w) == op[Head(listop[w])].pipeline_stage

NeedsLateId(w) ==
    /\ Current(w) \in IdConstraint
    /\ ~op[Head(listop[w])].entry_id_is_set

\* EntryProc_get_info_db of an UNLINK without id: the id is looked up by
\* parent and name in the database.  If it is found, it is set and registered
\* at the head of the constraint list; if not, the operation is dropped.
LateId(w) ==
    LET o == Head(listop[w]) IN
    /\ pc[w] = "process"
    /\ NeedsLateId(w)
    /\ \/ /\ op' = [op EXCEPT ![o].entry_id_is_set = TRUE]
          /\ RegisterAtHead(o)
          /\ pc' = [pc EXCEPT ![w] = "unblock"]
       \/ /\ UNCHANGED opVars
          /\ pc' = [pc EXCEPT ![w] = "unblock_skip"]
    /\ UNCHANGED <<pipeline, mutex, force_seq, pipeline_token, work_avail_lock,
                   nb_waiting_threads, terminate_flag, workerVars, pushVars,
                   removed>>

\* EntryProcessor_Unblock
Unblock(w) ==
    /\ pc[w] \in {"unblock", "unblock_skip"}
    /\ mutex[Current(w)] = NoThread
    /\ force_seq' = force_seq \ {Current(w)}
    /\ pc' = [pc EXCEPT ![w] = IF pc[w] = "unblock" THEN "process" ELSE "skip"]
    /\ UNCHANGED <<pipeline, mutex, opVars, pipeline_token, work_avail_lock,
                   nb_waiting_threads, terminate_flag, workerVars, pushVars,
                   removed>>

-----------------------------------------------------------------------------
(* EntryProcessor_AcknowledgeBatch and move_stage_entries.                 *)

\* Fault: operations that are done are moved past others that are not.
MovableAnywhere(es, ops, s) ==
    IF s = stage_count - 1 \/ es = << >> THEN << >>
    ELSE IF ~ops[es[Len(es)]].being_processed /\ ops[es[Len(es)]].pipeline_stage > s
         THEN es ELSE << >>

\* the operations move_stage_entries(s) takes from the head of list es, when
\* the operations are as in ops
Movable(es, ops, s) ==
    LET Done(o) == ~ops[o].being_processed /\ ops[o].pipeline_stage > s
        n == Cardinality({k \in DOMAIN es : \A j \in 1..k : Done(es[j])})
    IN  IF s = stage_count - 1 THEN << >> ELSE SubSeq(es, 1, n)

\* a call to move_stage_entries(s) that has cut these operations: it is about
\* to lock stage i (held is false) or has locked and flushed it (held is true)
Frame(s, cut, ops) ==
    [src |-> s, cut |-> cut, held |-> FALSE, i |-> s + 1,
     min |-> Min({ops[o].pipeline_stage : o \in ToSet(cut)})]

Rest(es, cut) == SubSeq(es, Len(cut) + 1, Len(es))

\* the locked part of EntryProcessor_AcknowledgeBatch(listop, n), up to the
\* first other mutex that move_stage_entries needs
Acknowledge(w) ==
    LET b == listop[w]
        s == Current(w)
        In(o) == o \in ToSet(b)
    IN
    /\ pc[w] \in {"process", "skip"}
    /\ pc[w] = "process" => ~NeedsLateId(w)
    /\ mutex[s] = NoThread
    /\ \E n \in IF pc[w] = "skip" THEN {Drop} ELSE Exits[Head(b)][s] :
          LET ops == [o \in Ops |->
                        IF In(o)
                        THEN [pipeline_stage |-> n, being_processed |-> FALSE,
                              entry_id_is_set |-> op[o].entry_id_is_set
                                                  \/ (s = GetIdStage /\ n # Drop)]
                        ELSE op[o]]
              es == IF n = Drop
                    THEN SelectSeq(pipeline[s].entries, LAMBDA o : ~In(o))
                    ELSE pipeline[s].entries
              cut == Movable(es, ops, s)
          IN
          /\ op' = ops
          /\ IF n = Drop
             THEN /\ UnregisterAll(b)
                  /\ removed' = removed \cup ToSet(b)
                  /\ UNCHANGED listop
             ELSE /\ listop' = [listop EXCEPT ![w] = << >>]
                  /\ UNCHANGED <<id_hash, name_hash, removed>>
          /\ pipeline' =
                [pipeline EXCEPT
                   ![s].entries = Rest(es, cut),
                   ![s].nb_threads = @ - 1,
                   ![s].nb_current_entries = @ - Len(b),
                   ![s].nb_processed_entries =
                       @ + (IF n = Drop THEN 0 ELSE Len(b)) - Len(cut)]
          /\ \/ /\ cut # << >>
                /\ mutex' = [mutex EXCEPT ![s] = w]
                /\ frames' = [frames EXCEPT ![w] = <<Frame(s, cut, ops)>>]
                /\ pc' = [pc EXCEPT ![w] = "move"]
             \/ /\ cut = << >>
                /\ pc' = [pc EXCEPT ![w] =
                            IF n = Drop \/ max_thread_count[s] # 0
                            THEN "signal" ELSE "start"]
                /\ UNCHANGED <<mutex, frames>>
    /\ UNCHANGED <<force_seq, pipeline_token, work_avail_lock,
                   nb_waiting_threads, terminate_flag, scan, pushVars>>

TopFrame(w) == frames[w][Len(frames[w])]

\* P(pipeline[i].stage_mutex), and the cut of the recursive call on a stage
\* that is not empty
MoveLock(w) ==
    LET f == TopFrame(w)
        cut == Movable(pipeline[f.i].entries, op, f.i)
        this == [f EXCEPT !.held = TRUE]
    IN
    /\ pc[w] = "move"
    /\ ~f.held
    /\ mutex[f.i] = NoThread
    /\ mutex' = [mutex EXCEPT ![f.i] = w]
    /\ pipeline' = [pipeline EXCEPT ![f.i].entries = Rest(@, cut),
                                    ![f.i].nb_processed_entries = @ - Len(cut)]
    /\ frames' = [frames EXCEPT ![w] =
                    Front(@) \o IF cut = << >> THEN <<this>>
                                ELSE <<this, Frame(f.i, cut, op)>>]
    /\ UNCHANGED <<opVars, force_seq, pipeline_token, work_avail_lock,
                   nb_waiting_threads, terminate_flag, pc, scan, listop,
                   pushVars, removed>>

\* Fault: operations are moved past a stage that is not empty.
MoveOnAlways(w) ==
    LET f == TopFrame(w) IN
    /\ pc[w] = "move"
    /\ f.held
    /\ f.i < f.min
    /\ frames' = [frames EXCEPT ![w] =
                    Append(Front(@), [f EXCEPT !.i = @ + 1, !.held = FALSE])]
    /\ UNCHANGED <<pipeline, mutex, opVars, force_seq, pipeline_token,
                   work_avail_lock, nb_waiting_threads, terminate_flag, pc, scan,
                   listop, pushVars, removed>>

\* the stage is empty and not yet the lowest one the operations are ready for
MoveOn(w) ==
    LET f == TopFrame(w) IN
    /\ pc[w] = "move"
    /\ f.held
    /\ pipeline[f.i].entries = << >> /\ f.i < f.min
    /\ frames' = [frames EXCEPT ![w] =
                    Append(Front(@), [f EXCEPT !.i = @ + 1, !.held = FALSE])]
    /\ UNCHANGED <<pipeline, mutex, opVars, force_seq, pipeline_token,
                   work_avail_lock, nb_waiting_threads, terminate_flag, pc, scan,
                   listop, pushVars, removed>>

\* the operations are inserted and the stages above the source are released;
\* when the outermost call returns, so is the source
MoveInsert(w) ==
    LET f == TopFrame(w)
        last == Len(frames[w]) = 1
    IN
    /\ pc[w] = "move"
    /\ f.held
    /\ pipeline[f.i].entries # << >> \/ f.i = f.min
    /\ Register(f.i, f.cut)
    /\ pipeline' = Inserted(f.i, f.cut)
    /\ mutex' = [s \in Stages |->
                   IF mutex[s] = w /\ (s > f.src \/ last) THEN NoThread ELSE mutex[s]]
    /\ frames' = [frames EXCEPT ![w] = Front(@)]
    /\ pc' = [pc EXCEPT ![w] = IF last THEN "signal" ELSE "move"]
    /\ UNCHANGED <<op, force_seq, pipeline_token, work_avail_lock,
                   nb_waiting_threads, terminate_flag, scan, listop,
                   pushVars, removed>>

\* Fault: the tokens of removed operations are not posted.
SignalNoToken(w) ==
    /\ pc[w] = "signal"
    /\ work_avail_lock = NoThread
    /\ pc' \in AfterSignal([pc EXCEPT ![w] = "start"], nb_waiting_threads)
    /\ listop' = [listop EXCEPT ![w] = << >>]
    /\ UNCHANGED <<pipeline, mutex, opVars, force_seq, pipeline_token,
                   work_avail_lock, nb_waiting_threads, terminate_flag, scan,
                   frames, pushVars, removed>>

\* the signal under work_avail_lock, then the tokens of removed operations
Signal(w) ==
    /\ pc[w] = "signal"
    /\ work_avail_lock = NoThread
    /\ pc' \in AfterSignal([pc EXCEPT ![w] = "start"], nb_waiting_threads)
    /\ pipeline_token' = IF max_pending_operations > 0
                         THEN pipeline_token + Len(listop[w]) ELSE pipeline_token
    /\ listop' = [listop EXCEPT ![w] = << >>]
    /\ UNCHANGED <<pipeline, mutex, opVars, force_seq, work_avail_lock,
                   nb_waiting_threads, terminate_flag, scan, frames, pushVars,
                   removed>>

-----------------------------------------------------------------------------
(* EntryProcessor_Terminate: the flag, and the broadcast that is not made  *)
(* under work_avail_lock.  The callers ask for a flush once the feeding    *)
(* threads are done (rbh_daemon.c), and for a break at any time.           *)
Terminate(m) ==
    /\ \/ /\ m = "FLUSH" /\ terminate_flag = "NONE"
          /\ \A p \in Pushers : ppc[p].at = "idle" /\ topush[p] = << >>
       \/ m = "BREAK" /\ terminate_flag # "BREAK"
    /\ terminate_flag' = m
    /\ pc' = [w \in Workers |-> IF pc[w] = "asleep" THEN "woken" ELSE pc[w]]
    /\ UNCHANGED <<pipeline, mutex, opVars, force_seq, pipeline_token,
                   work_avail_lock, nb_waiting_threads, workerVars, pushVars,
                   removed>>

Push(p) == PushToken(p) \/ PushSkip(p) \/ PushInsert(p) \/ PushSignal(p)

Work(w) ==
    \/ GetNextOp(w) \/ ScanStage(w) \/ TakeWork(w) \/ Leave(w)
    \/ DecideToWait(w) \/ Wait(w) \/ LateId(w) \/ Unblock(w)
    \/ Acknowledge(w) \/ MoveLock(w) \/ MoveOn(w) \/ MoveInsert(w) \/ Signal(w)

Next ==
    \/ \E p \in Pushers : Push(p)
    \/ \E w \in Workers : Work(w)
    \/ \E m \in Modes : Terminate(m)

Spec == Init /\ [][Next]_vars

\* Threads are scheduled, stage functions return and mutexes are released.
\* Termination is never required.
Fairness ==
    /\ \A p \in Pushers : WF_vars(Push(p))
    /\ \A w \in Workers : WF_vars(Work(w))

FairSpec == Spec /\ Fairness

-----------------------------------------------------------------------------
Counters == [entries : Seq(Ops), nb_threads : Nat, nb_unprocessed_entries : Nat,
             nb_current_entries : Nat, nb_processed_entries : Nat]
MoveFrames == [src : Stages, cut : Seq(Ops), held : BOOLEAN, i : Stages, min : Stages]

\* Each variable has its type: counters never go below zero, and an operation
\* is never sent to a stage that does not exist.
TypeOK ==
    /\ pipeline \in [Stages -> Counters]
    /\ mutex \in [Stages -> Workers \cup Pushers \cup {NoThread}]
    /\ op \in [Ops -> [pipeline_stage : Stages \cup {Drop},
                       being_processed : BOOLEAN, entry_id_is_set : BOOLEAN]]
    /\ id_hash \in Seq(Ops)
    /\ name_hash \in Seq(Ops)
    /\ force_seq \subseteq IdConstraint
    /\ pipeline_token \in Nat
    /\ work_avail_lock \in Workers \cup {NoThread}
    /\ nb_waiting_threads \in Nat
    /\ terminate_flag \in {"NONE", "FLUSH", "BREAK"}
    /\ pc \in [Workers -> {"start", "scan", "check", "wait", "asleep", "woken",
                           "process", "unblock", "unblock_skip", "skip", "move",
                           "signal", "finished"}]
    /\ scan \in [Workers -> [i : Stages, tot_entries : Nat,
                             is_empty : BOOLEAN]]
    /\ listop \in [Workers -> Seq(Ops)]
    /\ frames \in [Workers -> Seq(MoveFrames)]
    /\ ppc \in [Pushers -> [at : {"idle", "lock", "signal"}, i : Stages]]
    /\ topush \in [Pushers -> Seq(Ops)]
    /\ arrived \in Seq(Ops)
    /\ removed \subseteq Ops

-----------------------------------------------------------------------------
\* the operations cut from stage s that are on their way to another stage
InTransit(s) ==
    LET fs == {f \in UNION {ToSet(frames[w]) : w \in Workers} : f.src = s}
    IN  IF fs = {} THEN << >> ELSE (CHOOSE f \in fs : TRUE).cut

\* all operations of the pipeline, the most advanced first
Line == FlattenSeq([k \in 1..stage_count |->
            InTransit(stage_count - k) \o pipeline[stage_count - k].entries])

\* No operation is lost, duplicated or overtaken: whatever the interleaving
\* of pushes and moves, the lists of the stages, read from the last stage to
\* the first, hold the operations in the order in which they were pushed
\* ("We must always insert it in the first stage, to keep the good ordering
\* of entries").
OrderKept == Line = SelectSeq(arrived, LAMBDA o : o \notin removed)

Holds(s, P(_)) ==
    Cardinality({j \in DOMAIN pipeline[s].entries : P(pipeline[s].entries[j])})

\* Note1 of entry_proc_impl.c: the three counters of a stage whose mutex is
\* free count the operations of its list that are waiting, being processed
\* and done.
CountersExact ==
    \A s \in Stages :
       LET InHand(o) == op[o].being_processed
           Waiting(o) == ~op[o].being_processed /\ op[o].pipeline_stage <= s
           Done(o) == ~op[o].being_processed /\ op[o].pipeline_stage > s
       IN  mutex[s] = NoThread =>
              /\ pipeline[s].nb_current_entries = Holds(s, InHand)
              /\ pipeline[s].nb_unprocessed_entries = Holds(s, Waiting)
              /\ pipeline[s].nb_processed_entries = Holds(s, Done)

Before(o1, o2) ==
    \E i, j \in DOMAIN arrived : i < j /\ arrived[i] = o1 /\ arrived[j] = o2

Pending(o) == o \in ToSet(arrived) /\ o \notin removed

\* An operation is processed at a sequential stage only when every operation
\* pushed before it has passed that stage ("committing records must be
\* sequential (in the same order as changelog)").
SequentialInOrder ==
    \A o1, o2 \in Ops :
       /\ Pending(o1) /\ Before(o1, o2)
       /\ op[o2].being_processed /\ op[o2].pipeline_stage \in Sequential
       => op[o1].pipeline_stage > op[o2].pipeline_stage

\* operations that enter a constrained stage with their id
IdInTime == IdAtPush \cup {o \in Ops : PushStage[o] <= GetIdStage}

\* Two operations on the same entry never overtake each other: as long as an
\* earlier one is in the pipeline, a later one is neither taken by a
\* constrained stage nor past it.  This is what makes the result in the
\* database independent of the scheduling of the workers.
IdOrder ==
    \A o1, o2 \in IdInTime : \A s \in IdConstraint :
       /\ EntryId[o1] = EntryId[o2]
       /\ Pending(o1) /\ Before(o1, o2) /\ Pending(o2)
       => /\ op[o2].pipeline_stage <= s
          /\ ~(op[o2].being_processed /\ op[o2].pipeline_stage = s)

\* Every token of the limit on pending operations is in one place: in the
\* semaphore, with a pusher that has not inserted yet, with an operation of
\* the pipeline, or with a removed one whose token is about to be posted.
\* Hence the pipeline never holds more than max_pending_operations and no
\* token is lost when operations are dropped, batched or moved.
TokensExact ==
    max_pending_operations > 0 =>
        pipeline_token + Len(Line)
          + Cardinality({p \in Pushers : ppc[p].at = "lock"})
          + Cardinality(removed \cap UNION {ToSet(listop[w]) : w \in Workers})
        = max_pending_operations

\* When every worker has left after a flush was asked for, the pipeline is
\* empty: no worker leaves too early ("Pipeline successfully flushed").
FlushComplete ==
    terminate_flag = "FLUSH" /\ (\A w \in Workers : pc[w] = "finished")
        => Line = << >>

\* Operations of a constrained stage whose id is set are registered, so that
\* neither "Unregistered operation at higher stage" is logged nor the id of
\* an operation is missed by a later one.
ConstraintRegistered ==
    \A s \in IdConstraint \ force_seq : mutex[s] = NoThread =>
       \A o \in ToSet(pipeline[s].entries) :
          op[o].entry_id_is_set => Registered(o)

\* Every operation that a thread has to push goes through the pipeline and
\* leaves it, even when there are fewer tokens than operations, unless the
\* processor is asked to stop without flushing.
EveryOpLeaves ==
    \A p \in Pushers, o \in Ops :
       (o \in ToSet(topush[p])) ~> (o \in removed \/ terminate_flag = "BREAK")

\* EntryProcessor_Terminate returns: once the flag is set every worker leaves
\* ("force idle thread to wake up").
TerminateReturns ==
    (terminate_flag # "NONE") ~> (\A w \in Workers : pc[w] = "finished")
=============================================================================
