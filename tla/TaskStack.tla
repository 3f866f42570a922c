----------------------------- MODULE TaskStack -----------------------------
(***************************************************************************)
(* The stack of scan tasks (src/src/fs_scan/task_stack_mngmt.c): one list  *)
(* of tasks per depth, the greatest depth that has a task, and a semaphore *)
(* that counts the tasks.  Tasks deeper than MAX_TASK_DEPTH share the last *)
(* list.                                                                   *)
(***************************************************************************)
EXTENDS Integers, Sequences, FiniteSetsExt

CONSTANT MAX_TASK_DEPTH

ASSUME DepthAssumption == MAX_TASK_DEPTH \in Nat

InitTaskStack == [tasks_at_depth |-> [i \in 0 .. MAX_TASK_DEPTH |-> <<>>],
                  max_task_depth |-> 0,
                  sem_tasks |-> 0]

\* InsertTask_to_Stack, under stack_lock.  The semaphore is posted afterwards.
Pushed(stack, task, depth) ==
    LET prof == Min({depth, MAX_TASK_DEPTH})
    IN [stack EXCEPT !.tasks_at_depth[prof] = <<task>> \o @,
                     !.max_task_depth = Max({@, prof})]

Posted(stack) == [stack EXCEPT !.sem_tasks = @ + 1]

\* GetTask_from_Stack: a token is taken, then the lock.
Waited(stack) == [stack EXCEPT !.sem_tasks = @ - 1]

\* The task that is taken, if there is one.
NextTasks(stack) == stack.tasks_at_depth[stack.max_task_depth]

\* Fault: the greatest depth stays when its list becomes empty.
PoppedSameLevel(stack) ==
    [stack EXCEPT !.tasks_at_depth[stack.max_task_depth] = Tail(@)]

\* Fault: the last task of a list is not unlinked.
PoppedKeepLast(stack) ==
    LET list == NextTasks(stack)
    IN [stack EXCEPT !.tasks_at_depth[stack.max_task_depth] =
                        IF Len(list) = 1 THEN list ELSE Tail(list)]

\* The rest of the stack.  When a list becomes empty, the next one that is not
\* is looked for upwards, from the current depth to 0.
Popped(stack) ==
    LET rest == [stack.tasks_at_depth EXCEPT ![stack.max_task_depth] = Tail(@)]
        left == {i \in 0 .. stack.max_task_depth : rest[i] # <<>>}
    IN [stack EXCEPT !.tasks_at_depth = rest,
                     !.max_task_depth = IF rest[@] # <<>> THEN @
                                        ELSE IF left = {} THEN 0 ELSE Max(left)]

InStack(stack) ==
    UNION {{stack.tasks_at_depth[i][j] : j \in DOMAIN stack.tasks_at_depth[i]} :
              i \in 0 .. MAX_TASK_DEPTH}

NbTasks(stack) ==
    MapThenSumSet(LAMBDA i : Len(stack.tasks_at_depth[i]), 0 .. MAX_TASK_DEPTH)
=============================================================================
