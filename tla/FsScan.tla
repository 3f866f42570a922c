------------------------------- MODULE FsScan -------------------------------
(***************************************************************************)
(* The namespace scan (src/src/fs_scan/fs_scan.c, task_tree_mngmt.c,       *)
(* task_stack_mngmt.c).  One task per directory; the scan threads take the *)
(* deepest task of the stack, read its directory, push its entries to the  *)
(* pipeline and make a task of each subdirectory.  The thread that ends    *)
(* the last task below a directory ends that directory too, up to the      *)
(* root, and then has the database drop what the scan has not seen.        *)
(*                                                                         *)
(* A time is the number of the scan it falls in: only md_update <          *)
(* scan_start_time matters.  The pipeline (EntryPipeline) is the set of    *)
(* the entries pushed and not yet stored, and the final operation, which   *)
(* waits for all of them.  Every entry has one name.                       *)
(***************************************************************************)
EXTENDS TaskStack, Functions, TLC

CONSTANTS
    nb_threads_scan,
    Entries,        \* everything the file system may have, except its root
    Dirs,           \* the directories, with the root
    Root,
    NoDir,          \* a NULL path
    Parent,         \* the directory of each entry
    PathTo,         \* each directory and the directories above it
    Ignored,        \* what the configuration's "ignore" rules match
    Scenarios       \* what is run: see ScenarioType

Threads == 0 .. nb_threads_scan - 1

\* A system call fails, the database refuses an entry or the removals, a thread
\* hangs, a changelog record gets behind the final operation, an entry is
\* removed, the daemon is stopped.
AllFaults == {"open", "getdents", "stat", "update", "db", "hang", "behind",
              "removal", "stop"}

ScenarioType ==
    [partial_scan_root : Dirs \cup {NoDir},
     dir_list : SUBSET Dirs,            \* the scan_only directives
     has_deletion_policy : BOOLEAN,
     once : BOOLEAN,                    \* RUNFLG_ONCE
     scan_op_timeout : BOOLEAN,         \* it is set: its default is 0
     known : SUBSET Entries,            \* what the database has before
     present : SUBSET Entries,          \* what the file system has
     scans : Nat,                       \* a bound on the scans of the daemon
     fault_kinds : SUBSET AllFaults,    \* what may go wrong, each at most once
     max_faults : Nat]                  \* a bound on the faults of a behaviour

ASSUME ScanAssumption ==
    /\ nb_threads_scan \in Nat \ {0}
    /\ Root \in Dirs /\ NoDir \notin Dirs
    /\ Dirs \ {Root} \subseteq Entries
    /\ Parent \in [Entries -> Dirs]
    /\ \A d \in Dirs : PathTo[d] = {d} \cup (IF d = Root THEN {} ELSE PathTo[Parent[d]])
    /\ Ignored \subseteq Entries
    /\ Scenarios \subseteq ScenarioType

VARIABLES
    scenario,
    fs,             \* the entries the file system has
    db,             \* md_update of the entries, path_update of their names
    scan_start_time,
    is_first_scan,
    nogc,           \* RUNFLG_NO_GC in fsscan_flags
    root_task,
    last_scan_complete,
    tree,           \* the tasks that are allocated
    stack,          \* tasks_stack
    thr,            \* thread_list and the locals of each thread
    pipe,           \* the pipeline
    gc,             \* the final operation in the pipeline
    waiting_db_op,
    scan_finished,
    stopper,        \* Robinhood_StopScanModule
    missed,         \* what a fault kept the scan from storing (history)
    seen,           \* what the file system had when the scan started (history)
    faults

vars == <<scenario, fs, db, scan_start_time, is_first_scan, nogc, root_task,
          last_scan_complete, tree, stack, thr, pipe, gc, waiting_db_op,
          scan_finished, stopper, missed, seen, faults>>

treeVars == <<root_task, tree, stack>>
endVars  == <<scan_start_time, is_first_scan, last_scan_complete>>
pipeVars == <<db, pipe, gc, waiting_db_op>>
stopVars == <<scan_finished, stopper>>
envVars  == <<scenario, fs, seen>>

-----------------------------------------------------------------------------
(* The tree of directories *)

\* A task: its directory, its partial_scan_root, and the scan it belongs to.
Task(d, r) == [path |-> d, scan_root |-> r, scan |-> scan_start_time]

NoTask == [path |-> NoDir, scan_root |-> NoDir, scan |-> 0]

Depth(d) == Cardinality(PathTo[d]) - 1
InDir(d) == {e \in Entries : Parent[e] = d}
Below(d) == {e \in Entries : d \in PathTo[Parent[e]]}
Subtrees(S) == {e \in Entries : e \in S \/ PathTo[Parent[e]] \cap S # {}}

\* The task's path is strictly upper than its partial_scan_root.
Upper(task) ==
    /\ task.scan_root # NoDir
    /\ task.path \in PathTo[task.scan_root] \ {task.scan_root}

\* The entry of directory d that is on the way to r
NextName(d, r) == CHOOSE e \in PathTo[r] \ {Root} : Parent[e] = d

-----------------------------------------------------------------------------
Init ==
    /\ scenario \in Scenarios
    /\ fs = scenario.present
    /\ db = [md_update |-> [e \in scenario.known |-> 0],
             path_update |-> [e \in scenario.known |-> 0], softrm |-> {}]
    /\ scan_start_time = 0
    /\ is_first_scan = FALSE
    /\ nogc = FALSE
    /\ root_task = NoTask
    /\ last_scan_complete = FALSE
    /\ tree = <<>>
    /\ stack = InitTaskStack
    /\ thr = [t \in Threads |->
                 [pc |-> "loop", p_task |-> NoTask, current_task |-> NoTask,
                  dents |-> {}, resume |-> "loop", complete |-> FALSE, termine_mere |-> FALSE,
                  force_stop |-> FALSE]]
    /\ pipe = {}
    /\ gc = [queued |-> FALSE, entries |-> FALSE, names |-> FALSE, failed |-> FALSE]
    /\ waiting_db_op = FALSE
    /\ scan_finished = FALSE
    /\ stopper = [pc |-> "none", next |-> 0]
    /\ missed = {}
    /\ seen = {}
    /\ faults = {}

Fault(kind) ==
    /\ kind \in scenario.fault_kinds \ faults
    /\ Cardinality(faults) < scenario.max_faults
    /\ faults' = faults \cup {kind}

At(t, label) == thr[t].pc = label
Goto(t, label) == thr' = [thr EXCEPT ![t].pc = label]

\* An operation of the pipeline, with the time it was pushed.
EntryOp(e) == [entry |-> e, time |-> scan_start_time]

NewTask(parent) == [parent_task |-> parent, child_list |-> {},
                    task_finished |-> FALSE, fd |-> FALSE]

-----------------------------------------------------------------------------
(* Starting a scan *)

\* scan_starter calls Robinhood_CheckScanDeadlines: once with RUNFLG_ONCE, which
\* starts the scan, else again and again until FSScan_Terminate.
DeadlinesChecked ==
    stopper.pc = "none" /\ (scenario.once => scan_start_time = 0)

\* Robinhood_CheckScanDeadlines, when the scan interval or the retry delay has
\* elapsed, and StartScan.
StartScan ==
    /\ DeadlinesChecked
    /\ root_task = NoTask
    /\ scan_start_time < scenario.scans
    /\ scan_start_time' = scan_start_time + 1
    /\ root_task' = [path |-> Root, scan_root |-> scenario.partial_scan_root,
                     scan |-> scan_start_time']
    /\ tree' = (root_task' :> NewTask(NoTask)) @@ tree
    /\ stack' = Posted(Pushed(stack, root_task', 0))
    /\ is_first_scan' = (DOMAIN db.md_update = {})
    /\ seen' = fs
    /\ missed' = {}
    /\ UNCHANGED <<scenario, fs, db, nogc, last_scan_complete, thr, pipe, gc,
                   waiting_db_op, stopVars, faults>>

-----------------------------------------------------------------------------
(* Thr_scan: taking a task *)

\* while (!p_info->force_stop)
Loop(t) ==
    /\ At(t, "loop")
    /\ Goto(t, IF thr[t].force_stop THEN "exit" ELSE "take")
    /\ UNCHANGED <<envVars, treeVars, endVars, pipeVars, stopVars, nogc, missed,
                   faults>>

\* GetTask_from_Stack: sem_wait_safe.
WaitTask(t) ==
    /\ At(t, "take")
    /\ stack.sem_tasks > 0
    /\ stack' = Waited(stack)
    /\ Goto(t, "pop")
    /\ UNCHANGED <<envVars, root_task, tree, endVars, pipeVars, stopVars, nogc,
                   missed, faults>>

\* GetTask_from_Stack, under stack_lock.  NextTasks(stack) is never empty: see
\* StackExact.
TakeTask(t) ==
    /\ At(t, "pop")
    /\ NextTasks(stack) # <<>>
    /\ stack' = Popped(stack)
    /\ thr' = [thr EXCEPT ![t].pc = "taken", ![t].p_task = Head(NextTasks(stack))]
    /\ UNCHANGED <<envVars, root_task, tree, endVars, pipeVars, stopVars, nogc,
                   missed, faults>>

\* A thread that was asked to stop drops its task.  What process_one_task does
\* first depends on the task.
AdoptTask(t) ==
    LET task == thr[t].p_task
    IN /\ At(t, "taken")
       /\ thr' =
            IF thr[t].force_stop THEN [thr EXCEPT ![t].pc = "exit"]
            ELSE [thr EXCEPT
                    ![t].current_task = task,
                    ![t].dents = IF Upper(task)
                                 THEN {NextName(task.path, task.scan_root)}
                                 ELSE IF task.path = Root
                                      THEN scenario.dir_list ELSE {},
                    ![t].pc = IF Upper(task) THEN "lookup"
                              ELSE IF task.path = Root /\ scenario.dir_list # {}
                                   THEN "list" ELSE "open"]
       /\ UNCHANGED <<envVars, treeVars, endVars, pipeVars, stopVars, nogc,
                      missed, faults>>

-----------------------------------------------------------------------------
(* process_one_task *)

\* The task's own work is over: RecursiveTaskTermination is called with
\* bool_scan_complete = (task_rc == 0 && !force_stop).
Finished(t, ok) ==
    [thr EXCEPT ![t].pc = "finish", ![t].dents = {},
                ![t].complete = ok /\ ~thr[t].force_stop]

\* Fault: a directory that cannot be opened is taken as one that is gone.
OpenDirAsGone(t) ==
    LET d == thr[t].p_task.path
    IN /\ At(t, "open")
       /\ \/ /\ d \in fs \cup {Root}
             /\ thr' = [thr EXCEPT ![t].pc = "read",
                                    ![t].dents = InDir(d) \cap fs]
             /\ tree' = [tree EXCEPT ![thr[t].p_task].fd = TRUE]
             /\ UNCHANGED faults
          \/ /\ \/ d \notin fs \cup {Root} /\ UNCHANGED faults
                \/ Fault("open")
             /\ thr' = Finished(t, FALSE)
             /\ UNCHANGED tree
       /\ UNCHANGED <<envVars, root_task, stack, endVars, pipeVars, stopVars,
                      missed, nogc>>

\* dir_open: the directory is there, or is gone, or cannot be opened, in which
\* case check_dir_error disables the removal of what the scan has not seen.
OpenDir(t) ==
    LET d == thr[t].p_task.path
    IN /\ At(t, "open")
       /\ \/ /\ d \in fs \cup {Root}
             /\ thr' = [thr EXCEPT ![t].pc = "read",
                                    ![t].dents = InDir(d) \cap fs]
             /\ tree' = [tree EXCEPT ![thr[t].p_task].fd = TRUE]
             /\ UNCHANGED <<nogc, faults>>
          \/ /\ d \notin fs \cup {Root}
             /\ thr' = Finished(t, FALSE)
             /\ UNCHANGED <<tree, nogc, faults>>
          \/ /\ Fault("open")
             /\ nogc' = TRUE
             /\ thr' = Finished(t, FALSE)
             /\ UNCHANGED tree
       /\ UNCHANGED <<envVars, root_task, stack, endVars, pipeVars, stopVars,
                      missed>>

\* dir_open does not return.
Hang(t) ==
    /\ At(t, "open")
    /\ Fault("hang")
    /\ Goto(t, "hung")
    /\ missed' = missed \cup Subtrees({thr[t].p_task.path})
    /\ UNCHANGED <<envVars, treeVars, endVars, pipeVars, stopVars, nogc>>

\* The thread will be found hung: scan_op_timeout is set, and the deadlines are
\* checked after the start of the scan.
Recoverable == scenario.scan_op_timeout /\ ~scenario.once

\* Robinhood_CheckScanDeadlines cancels a thread that is hung;
\* Thr_scan_recovery terminates its task in its place and becomes the thread.
\* (With exit_on_timeout the process exits instead.)
RecoverThread(t) ==
    /\ At(t, "hung")
    /\ Recoverable
    /\ thr' = Finished(t, FALSE)
    /\ UNCHANGED <<envVars, treeVars, endVars, pipeVars, stopVars, nogc, missed,
                   faults>>

\* create_child_task
CreateChildTask(t, d, scan_root) ==
    LET parent == thr[t].p_task
        task == Task(d, scan_root)
    IN /\ tree' = (task :> NewTask(parent))
                      @@ [tree EXCEPT ![parent].child_list = @ \cup {task}]
       /\ stack' = Pushed(stack, task, Depth(d))

\* The end of process_one_entry: t goes on from label "after", through the
\* semaphore when it made a task.
Continue(t, e, after) ==
    [thr EXCEPT ![t].dents = @ \ {e}, ![t].pc = after]
ContinuePost(t, e, after) ==
    [thr EXCEPT ![t].dents = @ \ {e}, ![t].pc = "post", ![t].resume = after]

\* process_one_entry, for an entry that is there: it is ignored, or a task is
\* made for a directory, or another entry is pushed.
ProcessEntry(t, e, after) ==
    \/ /\ e \in Ignored
       /\ thr' = Continue(t, e, after)
       /\ UNCHANGED <<tree, stack, pipe>>
    \/ /\ e \in Dirs \ Ignored
       /\ CreateChildTask(t, e, thr[t].p_task.scan_root)
       /\ thr' = ContinuePost(t, e, after)
       /\ UNCHANGED pipe
    \/ /\ e \in Entries \ (Dirs \cup Ignored)
       /\ pipe' = pipe \cup {EntryOp(e)}
       /\ thr' = Continue(t, e, after)
       /\ UNCHANGED <<tree, stack>>

\* process_one_entry, when stat_entry (or path2id) fails: an entry on a
\* disconnected server is pushed without its attributes, others are skipped.
SkipEntry(t, e, next) ==
    /\ \/ /\ e \notin fs
          /\ UNCHANGED <<pipe, missed, faults>>
       \/ /\ e \in fs
          /\ Fault("stat")
          /\ \/ pipe' = pipe \cup {EntryOp(e)} /\ missed' = missed \cup Below(e)
             \/ missed' = missed \cup Subtrees({e}) /\ UNCHANGED pipe
    /\ thr' = next
    /\ UNCHANGED <<tree, stack>>

\* process_one_dir: each entry of the directory is processed; an error on one
\* of them is only counted.
ReadEntry(t) ==
    /\ At(t, "read")
    /\ ~thr[t].force_stop
    /\ \E e \in thr[t].dents :
          \/ e \in fs /\ ProcessEntry(t, e, "read") /\ UNCHANGED <<missed, faults>>
          \/ SkipEntry(t, e, Continue(t, e, "read"))
    /\ UNCHANGED <<envVars, root_task, endVars, db, gc, waiting_db_op, stopVars,
                   nogc>>

\* process_one_dir: a stop cancels the directory, at any of its entries, "." and
\* ".." included.
CancelDir(t) ==
    /\ At(t, "read")
    /\ thr[t].force_stop
    /\ thr' = Finished(t, FALSE)
    /\ missed' = missed \cup {thr[t].p_task.path} \cup Subtrees(thr[t].dents)
    /\ UNCHANGED <<envVars, treeVars, endVars, pipeVars, stopVars, nogc, faults>>

\* process_one_dir: getdents fails.
GetdentsError(t) ==
    /\ At(t, "read")
    /\ Fault("getdents")
    /\ thr' = Finished(t, FALSE)
    /\ missed' = missed \cup {thr[t].p_task.path} \cup Subtrees(thr[t].dents)
    /\ UNCHANGED <<envVars, treeVars, endVars, pipeVars, stopVars, nogc>>

\* getdents returns 0.
EndOfDir(t) ==
    /\ At(t, "read")
    /\ thr[t].dents = {}
    /\ Goto(t, "dir")
    /\ UNCHANGED <<envVars, treeVars, endVars, pipeVars, stopVars, nogc, missed,
                   faults>>

\* Above the root of a partial scan: only the next name is looked up.
Lookup(t) ==
    /\ At(t, "lookup")
    /\ \E e \in thr[t].dents :
          \/ e \in fs /\ ProcessEntry(t, e, "dir") /\ UNCHANGED <<missed, faults>>
          \/ SkipEntry(t, e, Finished(t, FALSE))
    /\ UNCHANGED <<envVars, root_task, endVars, db, gc, waiting_db_op, stopVars,
                   nogc>>

\* push_dir_list: one task per scan_only directive, up to the first error.
PushDirList(t) ==
    /\ At(t, "list")
    /\ \/ /\ thr[t].dents = {}
          /\ Goto(t, "dir")
          /\ UNCHANGED <<tree, stack, missed, faults>>
       \/ \E r \in thr[t].dents :
             /\ NextName(Root, r) \in fs
             /\ CreateChildTask(t, NextName(Root, r), r)
             /\ thr' = ContinuePost(t, r, "list")
             /\ UNCHANGED <<missed, faults>>
       \/ \E r \in thr[t].dents :
             /\ \/ NextName(Root, r) \notin fs /\ UNCHANGED faults
                \/ NextName(Root, r) \in fs /\ Fault("stat")
             /\ thr' = Finished(t, FALSE)
             /\ missed' = missed \cup Subtrees({NextName(Root, x) : x \in thr[t].dents})
             /\ UNCHANGED <<tree, stack>>
    /\ UNCHANGED <<envVars, root_task, endVars, pipeVars, stopVars, nogc>>

\* Fault: the semaphore is not posted.
PostTaskSilent(t) ==
    /\ At(t, "post")
    /\ Goto(t, thr[t].resume)
    /\ UNCHANGED <<envVars, treeVars, endVars, pipeVars, stopVars, nogc, missed,
                   faults>>

\* InsertTask_to_Stack: sem_post_safe.
PostTask(t) ==
    /\ At(t, "post")
    /\ stack' = Posted(stack)
    /\ Goto(t, thr[t].resume)
    /\ UNCHANGED <<envVars, root_task, tree, endVars, pipeVars, stopVars, nogc,
                   missed, faults>>

\* Fault: the root of the file system is pushed too.
PushDirAlways(t) ==
    /\ At(t, "dir")
    /\ pipe' = pipe \cup {EntryOp(thr[t].p_task.path)}
    /\ thr' = Finished(t, TRUE)
    /\ UNCHANGED <<envVars, treeVars, endVars, db, gc, waiting_db_op, stopVars,
                   nogc, missed, faults>>

\* The directory itself is pushed, unless it is the root of the file system.
PushDir(t) ==
    LET d == thr[t].p_task.path
    IN /\ At(t, "dir")
       /\ pipe' = pipe \cup (IF d = Root THEN {} ELSE {EntryOp(d)})
       /\ thr' = Finished(t, TRUE)
       /\ UNCHANGED <<envVars, treeVars, endVars, db, gc, waiting_db_op, stopVars,
                      nogc, missed, faults>>

-----------------------------------------------------------------------------
(* RecursiveTaskTermination *)

\* FlagTaskAsFinished: a task with running sub-tasks is left to them.
FinishTask(t) ==
    LET task == thr[t].p_task
    IN /\ At(t, "finish")
       /\ tree' = [tree EXCEPT ![task].task_finished = TRUE]
       /\ thr' = IF tree[task].child_list = {}
                 THEN [thr EXCEPT ![t].pc = "merge"]
                 ELSE [thr EXCEPT ![t].pc = "loop", ![t].current_task = NoTask]
       /\ UNCHANGED <<envVars, root_task, stack, endVars, pipeVars, stopVars,
                      nogc, missed, faults>>

\* Fault: a parent is done as soon as it has no sub-task left.
DoneWithoutChild(task, parent) == tree[parent].child_list = {task}

\* RemoveChildTask: the parent and all its sub-tasks are completed.
ParentDone(task, parent) ==
    tree[parent].child_list = {task} /\ tree[parent].task_finished

\* RemoveChildTask, under the parent's lock.
MergeTask(t) ==
    LET task == thr[t].p_task
        parent == tree[task].parent_task
    IN /\ At(t, "merge")
       /\ parent # NoTask
       /\ tree' = [tree EXCEPT ![parent].child_list = @ \ {task}]
       /\ thr' = [thr EXCEPT ![t].pc = "free",
                              ![t].termine_mere = ParentDone(task, parent)]
       /\ UNCHANGED <<envVars, root_task, stack, endVars, pipeVars, stopVars,
                      nogc, missed, faults>>

\* The end of the loop: the task is freed and the thread manages its parent.
FreeTask(t) ==
    LET task == thr[t].p_task
        parent == tree[task].parent_task
    IN /\ At(t, "free")
       /\ tree' = Restrict(tree, DOMAIN tree \ {task})
       /\ thr' = IF thr[t].termine_mere /\ parent # NoTask
                 THEN [thr EXCEPT ![t].pc = "merge", ![t].p_task = parent,
                                  ![t].current_task = parent]
                 ELSE [thr EXCEPT ![t].pc = "loop", ![t].current_task = NoTask]
       /\ UNCHANGED <<envVars, root_task, stack, endVars, pipeVars, stopVars,
                      nogc, missed, faults>>

\* The operation that drops what the scan has not seen, or nothing for an
\* initial scan or when it is disabled.
GcOp ==
    LET nothing == nogc \/ (is_first_scan /\ scenario.partial_scan_root = NoDir)
    IN [queued |-> TRUE, failed |-> FALSE,
        names |-> ~nothing,
        entries |-> ~nothing /\ ~(scenario.partial_scan_root # NoDir
                                    /\ scenario.has_deletion_policy)]

\* TerminateScan up to the final operation, for the mother task: if the scan
\* is complete the operation is pushed.
TerminateScan(t) ==
    /\ At(t, "merge")
    /\ tree[thr[t].p_task].parent_task = NoTask
    /\ gc' = IF thr[t].complete THEN GcOp ELSE gc
    /\ waiting_db_op' = thr[t].complete
    /\ Goto(t, "terminate")
    /\ UNCHANGED <<envVars, treeVars, endVars, db, pipe, stopVars, nogc, missed,
                   faults>>

\* TerminateScan after wait_for_db_callback.  The start time, reset here, is kept
\* to number the next scan.
ScanEnded(t) ==
    /\ At(t, "terminate")
    /\ ~waiting_db_op
    /\ last_scan_complete' = thr[t].complete
    /\ root_task' = NoTask
    /\ scan_finished' = (scan_finished \/ scenario.once)
    /\ thr' = [thr EXCEPT ![t].pc = "free", ![t].termine_mere = TRUE]
    /\ UNCHANGED <<envVars, tree, stack, scan_start_time, is_first_scan, pipeVars,
                   stopper, nogc, missed, faults>>

-----------------------------------------------------------------------------
(* The pipeline and the database *)

\* An operation is stored, or dropped when its entry is gone; when the database
\* refuses it, the error is logged and the operation acknowledged all the same.
\* The operations on an entry are applied in the order they were pushed.
StoreEntry ==
    /\ \E op \in pipe :
          /\ \A other \in pipe : other.entry = op.entry => other.time >= op.time
          /\ pipe' = pipe \ {op}
          /\ \/ /\ db' = [db EXCEPT !.md_update = (op.entry :> op.time) @@ @,
                                    !.path_update = (op.entry :> op.time) @@ @]
                /\ UNCHANGED <<missed, faults>>
             \/ op.entry \notin fs /\ UNCHANGED <<db, missed, faults>>
             \/ /\ Fault("update")
                /\ missed' = missed \cup (IF op.time = scan_start_time
                                         THEN {op.entry} ELSE {})
                /\ UNCHANGED db
    /\ UNCHANGED <<envVars, treeVars, endVars, thr, gc, waiting_db_op, stopVars,
                   nogc>>

Older(f) == {e \in DOMAIN f : f[e] < scan_start_time}
Without(f, S) == Restrict(f, DOMAIN f \ S)

\* clean_names: the names not seen, below the root of a partial scan.
CleanNames ==
    Older(db.path_update) \cap
        (IF scenario.partial_scan_root = NoDir THEN Entries
         ELSE Below(scenario.partial_scan_root))

\* ListMgr_MassRemove (ListMgr_MassSoftRemove with a deletion policy): of the
\* entries not seen, a removal takes those without a name, a soft removal all.
RemovedEntries ==
    IF ~gc.entries THEN {}
    ELSE IF scenario.has_deletion_policy THEN Older(db.md_update)
    ELSE Older(db.md_update) \ (DOMAIN db.path_update \ CleanNames)

\* Fault: the final operation only waits for those of its own scan.
ScanFlushed == \A op \in pipe : op.time < scan_start_time

\* STAGE_RM_OLD_ENTRIES is sequential: the final operation gets there when all
\* those before it are done.
PipeFlushed == pipe = {}

\* EntryProc_rm_old_entries.  The scan is called back in any case.
RmOldEntries ==
    /\ gc.queued
    /\ PipeFlushed
    /\ waiting_db_op' = FALSE
    /\ \/ /\ gc.names
          /\ db' = [md_update |-> Without(db.md_update, RemovedEntries),
                    path_update |-> Without(db.path_update,
                                            CleanNames \cup RemovedEntries),
                    softrm |-> db.softrm \cup (IF scenario.has_deletion_policy
                                               THEN RemovedEntries ELSE {})]
          /\ UNCHANGED faults
       \/ ~gc.names /\ UNCHANGED <<db, faults>>
       \/ Fault("db") /\ UNCHANGED db
    /\ gc' = [gc EXCEPT !.queued = FALSE, !.failed = faults' # faults]
    /\ UNCHANGED <<envVars, treeVars, endVars, thr, pipe, stopVars, nogc, missed>>

\* A changelog record is pushed behind the final operation, which may then stay
\* in the pipeline with it (EntryPipeline, GcReached).
RecordBehind ==
    /\ gc.queued
    /\ Fault("behind")
    /\ UNCHANGED <<envVars, treeVars, endVars, pipeVars, thr, stopVars, nogc, missed>>

\* The file system: an entry is removed while the daemon runs.
RemoveEntry ==
    /\ Fault("removal")
    /\ \E e \in fs :
          /\ e \in Dirs => (InDir(e) \cap fs = {})
          /\ fs' = fs \ {e}
    /\ UNCHANGED <<scenario, seen, treeVars, endVars, pipeVars, thr, stopVars,
                   nogc, missed>>

-----------------------------------------------------------------------------
(* Stopping *)

AllThreadsIdle == \A t \in Threads : thr[t].current_task = NoTask

\* The end of Thr_scan.
ExitThread(t) ==
    /\ At(t, "exit")
    /\ thr' = [thr EXCEPT ![t].pc = "check", ![t].current_task = NoTask]
    /\ UNCHANGED <<envVars, treeVars, endVars, pipeVars, stopVars, nogc, missed,
                   faults>>

\* Fault: the end of the threads is not signalled.
CheckIdleSilent(t) ==
    /\ At(t, "check")
    /\ Goto(t, "gone")
    /\ UNCHANGED <<envVars, treeVars, endVars, pipeVars, stopVars, nogc, missed,
                   faults>>

CheckIdle(t) ==
    /\ At(t, "check")
    /\ Goto(t, "gone")
    /\ scan_finished' = (scan_finished \/ AllThreadsIdle)
    /\ UNCHANGED <<envVars, treeVars, endVars, pipeVars, stopper, nogc, missed,
                   faults>>

\* FSScan_Terminate and Robinhood_StopScanModule: the threads are asked to stop
\* one after the other, then waited for unless none has a task.
StopRequest ==
    /\ stopper.pc = "none"
    /\ scan_start_time > 0
    /\ Fault("stop")
    /\ stopper' = [pc |-> "ask", next |-> 0]
    /\ UNCHANGED <<envVars, treeVars, endVars, pipeVars, thr, scan_finished, nogc,
                   missed>>

AskToStop ==
    /\ stopper.pc = "ask"
    /\ stopper.next \in Threads
    /\ thr' = [thr EXCEPT ![stopper.next].force_stop = TRUE]
    /\ stopper' = [stopper EXCEPT !.next = @ + 1]
    /\ UNCHANGED <<envVars, treeVars, endVars, pipeVars, scan_finished, nogc,
                   missed, faults>>

WaitThreads ==
    /\ stopper.pc = "ask"
    /\ stopper.next \notin Threads
    /\ stopper' = [stopper EXCEPT !.pc = IF AllThreadsIdle THEN "done" ELSE "wait"]
    /\ UNCHANGED <<envVars, treeVars, endVars, pipeVars, thr, scan_finished, nogc,
                   missed, faults>>

StopDone ==
    /\ stopper.pc = "wait"
    /\ scan_finished
    /\ stopper' = [stopper EXCEPT !.pc = "done"]
    /\ UNCHANGED <<envVars, treeVars, endVars, pipeVars, thr, scan_finished, nogc,
                   missed, faults>>

-----------------------------------------------------------------------------
ThreadStep(t) ==
    \/ Loop(t) \/ WaitTask(t) \/ TakeTask(t) \/ AdoptTask(t)
    \/ OpenDir(t) \/ ReadEntry(t) \/ CancelDir(t) \/ GetdentsError(t)
    \/ EndOfDir(t) \/ Lookup(t) \/ PushDirList(t) \/ PostTask(t) \/ PushDir(t)
    \/ FinishTask(t) \/ MergeTask(t) \/ FreeTask(t)
    \/ TerminateScan(t) \/ ScanEnded(t)
    \/ ExitThread(t) \/ CheckIdle(t)

StopStep == AskToStop \/ WaitThreads \/ StopDone

Next ==
    \/ StartScan
    \/ \E t \in Threads : ThreadStep(t) \/ Hang(t) \/ RecoverThread(t)
    \/ StoreEntry \/ RmOldEntries \/ RecordBehind
    \/ RemoveEntry
    \/ StopRequest \/ StopStep

Spec == Init /\ [][Next]_vars

\* Every thread runs unless it is hung, the deadlines are checked until the stop,
\* the pipeline serves the operations (the final one unless a record is behind
\* it), and the thread that stops the scan runs.
Fairness ==
    /\ \A t \in Threads : WF_vars(ThreadStep(t))
    /\ \A t \in Threads : WF_vars(DeadlinesChecked /\ RecoverThread(t))
    /\ WF_vars(StoreEntry)
    /\ WF_vars("behind" \notin faults /\ RmOldEntries)
    /\ WF_vars(StopStep)

FairSpec == Spec /\ Fairness

-----------------------------------------------------------------------------
(* Properties *)

Labels == {"loop", "take", "pop", "taken", "open", "hung", "read", "lookup",
           "list", "post", "dir", "finish", "merge", "free", "terminate", "exit", "check",
           "gone"}

\* The thread has a task; it has merged its task and only has to free it.
Busy(t) == thr[t].pc \notin {"loop", "take", "pop", "exit", "check", "gone"}
Merged(t) == thr[t].pc = "free"

\* The variables have the types of the code's.
TypeOK ==
    /\ scenario \in Scenarios
    /\ faults \subseteq scenario.fault_kinds
    /\ fs \subseteq Entries /\ seen \subseteq Entries /\ missed \subseteq Entries \cup {Root}
    /\ DOMAIN db.md_update \subseteq Entries
    /\ DOMAIN db.path_update \subseteq DOMAIN db.md_update
    /\ Range(db.md_update) \cup Range(db.path_update) \subseteq 0 .. scan_start_time
    /\ \A task \in DOMAIN tree : task.path \in Dirs /\ task.scan \in 1 .. scan_start_time
    /\ \A t \in Threads : thr[t].pc \in Labels
    /\ \A op \in pipe : op.entry \in Entries /\ op.time \in 1 .. scan_start_time

\* The tree of tasks is sound: the parent of an allocated task is allocated and
\* has it among its sub-tasks until it is merged, so a thread never opens a
\* directory through a freed parent and never walks up to one
\* (RecursiveTaskTermination, "We are the last thread to handle it").
TreeSound ==
    /\ \A task \in DOMAIN tree :
          /\ tree[task].child_list \subseteq DOMAIN tree
          /\ \/ tree[task].parent_task = NoTask
             \/ /\ tree[task].parent_task \in DOMAIN tree
                /\ task \in tree[tree[task].parent_task].child_list
             \/ \E t \in Threads : Merged(t) /\ thr[t].p_task = task
    /\ \A t \in Threads :
          /\ Busy(t) => thr[t].p_task \in DOMAIN tree
          /\ Merged(t) /\ thr[t].termine_mere =>
                tree[thr[t].p_task].parent_task \in DOMAIN tree \cup {NoTask}

\* A task is worked on or ended by one thread at a time, and is not in the
\* stack any more.
OneOwner ==
    \A t \in Threads : Busy(t) =>
       /\ thr[t].p_task \notin InStack(stack)
       /\ \A u \in Threads \ {t} : Busy(u) => thr[u].p_task # thr[t].p_task

\* The semaphore never lets a thread into an empty stack ("UNEXPECTED ERROR: NO
\* TASK FOUND"), and the thread finds the deepest task.
StackExact ==
    /\ NbTasks(stack) =
          stack.sem_tasks + Cardinality({t \in Threads : thr[t].pc \in {"post", "pop"}})
    /\ \A i \in 0 .. MAX_TASK_DEPTH :
          stack.tasks_at_depth[i] # <<>> => i <= stack.max_task_depth
    /\ NbTasks(stack) > 0 => NextTasks(stack) # <<>>

\* When a thread terminates the scan, nothing of the scan is left to do: no task
\* in the stack, and no task but the root's and those that are being freed.
TerminatedAlone ==
    \A t \in Threads : thr[t].pc = "terminate" =>
       /\ NbTasks(stack) = 0
       /\ thr[t].p_task = root_task
       /\ \A u \in Threads \ {t} : Busy(u) => Merged(u)
       /\ DOMAIN tree = {root_task} \cup {thr[u].p_task : u \in {u \in Threads : Merged(u)}}

\* What a scan is meant to look at: not what is ignored, and with scan_only
\* directives only what they name.
InScope(e) ==
    /\ (PathTo[Parent[e]] \cup {e}) \cap Ignored = {}
    /\ \/ scenario.dir_list = {}
       \/ scenario.partial_scan_root # NoDir
       \/ \E r \in scenario.dir_list : r \in PathTo[Parent[e]]

\* The end of a scan drops no entry that is still there, unless a fault of this
\* scan kept the threads from seeing it or the database from storing it (see
\* PresentKept).  A directory that cannot be opened is no such fault: it
\* disables the removals (check_dir_error).
ScannedKept ==
    [][\A e \in DOMAIN db.md_update \ DOMAIN db'.md_update :
          e \in fs => e \in missed \/ ~InScope(e)]_vars

\* Fault-free or not, no scan drops an entry that the file system has: "if scan
\* is incomplete (aborted or failed), don't remove old entries in DB".
PresentKept ==
    \A e \in scenario.known \cap fs : InScope(e) => e \in DOMAIN db.md_update

\* A complete scan of the whole file system leaves no entry in the database
\* that was gone when it started, not even one that a late operation of an
\* earlier, aborted scan brings back: the final operation waits for that one too.
StaleDropped ==
    \A t \in Threads :
       /\ thr[t].pc = "terminate" /\ thr[t].complete /\ ~waiting_db_op
       /\ scenario.partial_scan_root = NoDir
       /\ ~nogc /\ ~is_first_scan /\ ~gc.failed
       => DOMAIN db.md_update \subseteq seen

Hung == \E t \in Threads : At(t, "hung")

\* A scan ends, whatever call or request fails, unless it is stopped.  Two things
\* keep it from its end for ever: a thread that hangs when nothing looks for it
\* (Robinhood_CheckScanDeadlines: a one-shot scan, or no scan_op_timeout), and a
\* changelog record behind its final operation.
ScanEnds ==
    (root_task # NoTask) ~>
        \/ root_task = NoTask \/ stopper.pc # "none"
        \/ Hung /\ ~Recoverable
        \/ "behind" \in faults

\* FSScan_Terminate returns: the last thread at work signals the end.  It does
\* not as long as a thread hangs, as the deadlines are not checked any more, or
\* waits for a final operation that has a record behind it.
StopReturns ==
    (stopper.pc # "none") ~> (stopper.pc = "done" \/ Hung \/ "behind" \in faults)
=============================================================================
