----------------------------- MODULE PolicyRun -----------------------------
(***************************************************************************)
(* A policy module of the daemon: the trigger thread, which runs the       *)
(* policy (src/src/policies/policy_triggers.c, run_policy and              *)
(* fill_workers_queue of src/src/policies/policy_run.c), the worker        *)
(* threads (process_entry), one thread per action scheduler (enqueue_thr   *)
(* of src/src/policies/policy_sched.c), and the request to stop.           *)
(*                                                                         *)
(* The queue between the trigger thread and the workers is the one of      *)
(* BoundedFifo, with its counts of acknowledgements.  Limits are on the    *)
(* number of actions.  md_update is abstracted to whether it is later than *)
(* the start of the run.                                                   *)
(***************************************************************************)
EXTENDS ActionSched, FiniteSets, FiniteSetsExt, SequencesExt

CONSTANTS
    Entries,             \* what the database lists
    Setups,              \* lru_sort_attr of the entries, limits of the run, and
                         \* whether pre_sched_match refreshes the attributes
    NullTime,            \* the attribute is not set (-1)
    LastEligible,        \* later entries do not match the rules of the policy
    Workers,
    schedulers,          \* the schedulers of the policy, in order
    queue_size,
    suspend_error_min,
    suspend_error_pct,
    lru_sort,            \* lru_sort_attr # LRU_ATTR_NONE
    AfterActions,        \* what actions ask for: PA_UPDATE, PA_NONE
    MatchFailures,       \* why an entry may not match: SKIPPED, ERROR
    status_refusals,     \* status managers may refuse entries
    MaxRuns,             \* bound: runs that triggers ask for
    MaxListings,         \* bound: how often a run lists an entry again
    MaxTimeouts,         \* bound: waits that end with ETIME
    CanStop,             \* the daemon may be asked to stop
    UIntMod              \* counters wrap modulo this (2^32 in the build)

ASSUME PolicyAssumption ==
    /\ IsFiniteSet(Entries) /\ IsFiniteSet(Workers)
    /\ queue_size \in Nat \ {0}
    /\ suspend_error_min \in Nat
    /\ suspend_error_pct \in 0 .. 100
    /\ NullTime = -1
    /\ Setups \subseteq [sort : [Entries -> Int], list_count_max : Nat,
                         target_count : Nat, pre_sched_refresh : BOOLEAN]
    /\ lru_sort \in BOOLEAN
    /\ MaxListings \in Nat \ {0}
    /\ AfterActions \subseteq {"PA_UPDATE", "PA_NONE"}
    /\ MatchFailures \subseteq {"SKIPPED", "ERROR"} /\ MatchFailures # {}
    /\ CanStop \in BOOLEAN /\ status_refusals \in BOOLEAN
    /\ UIntMod \in Nat /\ UIntMod > MaxListings * Cardinality(Entries) * MaxRuns

sched_count == Len(schedulers)
SchedIds == 1 .. sched_count
Threads == Workers \cup SchedIds
NoEntry == "none"

VARIABLES
    \* the policy
    aborted, stopping,
    sort,           \* lru_sort_attr of each entry in the database
    list_count_max, \* db_request_limit, 0 for no limit
    target_count,   \* target_ctr.count, 0 for no limit
    pre_sched_refresh, \* FALSE for MS_CACHE_ONLY, the default
    fresh,          \* entries whose md_update is later than policy_start
    queue,          \* the entries in the workers queue
    acks,           \* acknowledgements, by status
    sched_res,      \* the schedulers
    th,             \* the worker and scheduler threads
    \* the trigger thread
    pc,
    it,             \* what is left of the list
    nb_returned,    \* db_current_list_count
    last_sort_time,
    pushed,         \* pushed_ctr.count
    before,         \* status_tab_before
    progress,       \* counters of the passes of this run
    run_rc,         \* how the last run ended
    \* history
    runs,
    timeouts,
    stop_asked,
    pushes,         \* how often each entry was queued in this run
    performed       \* how often its action succeeded in this run

setup == <<sort, list_count_max, target_count, pre_sched_refresh>>
polvars == <<aborted, stopping, setup, fresh, queue, acks, sched_res>>
listvars == <<pc, it, nb_returned, last_sort_time, pushed, before, progress,
              run_rc>>
history == <<runs, timeouts, stop_asked, pushes, performed>>
vars == <<polvars, th, listvars, history>>

Status == {"OK", "SKIPPED", "NOT_SCHEDULED", "ERROR", "ABORT"}
NoCount == [ok |-> 0, errors |-> 0]

\* A thread without an entry, and one that has an entry context.
\*   updated: the attributes of the context have a new md_update
\*   st:      the status to acknowledge
\*   flush:   schedulers still to be flushed
\*   popping: the first of them is being flushed
Idle == [pc |-> "idle", entry |-> NoEntry, updated |-> FALSE,
         curr_sched |-> 0, st |-> "OK", flush |-> <<>>, popping |-> FALSE]

Init ==
    /\ aborted = FALSE /\ stopping = FALSE
    /\ \E c \in Setups : /\ sort = c.sort
                         /\ list_count_max = c.list_count_max
                         /\ target_count = c.target_count
                         /\ pre_sched_refresh = c.pre_sched_refresh
    /\ fresh = {}
    /\ queue = <<>>
    /\ acks = [s \in Status |-> 0]
    /\ sched_res = [i \in SchedIds |-> sched_init(schedulers[i])]
    /\ th = [t \in Threads |-> Idle]
    /\ pc = "check"
    /\ it = <<>> /\ nb_returned = 0 /\ last_sort_time = 0 /\ pushed = 0
    /\ before = acks
    /\ progress = NoCount
    /\ run_rc = "none"
    /\ runs = 0 /\ timeouts = 0 /\ stop_asked = FALSE
    /\ pushes = [e \in Entries |-> 0]
    /\ performed = [e \in Entries |-> 0]

-----------------------------------------------------------------------------
(* Counters *)

\* Fault: the last status is not counted.
AckCountToError(tab) == MapThenSumSet(LAMBDA s : tab[s], Status \ {"ABORT"})

ack_count(tab) == MapThenSumSet(LAMBDA s : tab[s], Status)

\* queue_stats2counters, and what the previous passes did
Acked == ack_count(acks) - ack_count(before)
TotalOk == progress.ok + acks["OK"] - before["OK"]
TotalErrors == progress.errors + acks["ERROR"] - before["ERROR"]

\* check_limit
check_limit(ok, errors) ==
    \/ target_count # 0 /\ ok >= target_count
    \/ /\ suspend_error_min > 0 /\ suspend_error_pct > 0
       /\ errors >= suspend_error_min
       /\ 100 * errors >= suspend_error_pct * (ok + errors)

\* nb_action_in_flight and ctr_in_flight.count, which are unsigned
InFlight == (pushed - Acked) % UIntMod

-----------------------------------------------------------------------------
(* Listing entries *)

\* Fault: entries as old as the last one of the previous list are left out.
NextListStrict(e) ==
    /\ e \notin fresh
    /\ lru_sort => sort[e] = NullTime \/ sort[e] > last_sort_time

\* The filter of the requests that follow the first one
InNextList(e) ==
    /\ e \notin fresh
    /\ lru_sort => sort[e] = NullTime \/ sort[e] >= last_sort_time

\* The lists that a request for the entries S may return: sorted by
\* lru_sort_attr, missing values first, and cut at list_count_max.
InOrder(s) ==
    lru_sort => \A i, j \in DOMAIN s : i < j => sort[s[i]] <= sort[s[j]]

ListsOf(S) ==
    {IF list_count_max = 0 \/ Len(s) <= list_count_max
     THEN s ELSE SubSeq(s, 1, list_count_max) :
        s \in {q \in SetToSeqs(S) : InOrder(q)}}

\* heuristic_end_of_list
heuristic_end_of_list ==
    lru_sort /\ last_sort_time > 1 /\ last_sort_time > LastEligible

\* At the end of a list: is it the last one?
IsEndOfList ==
    \/ nb_returned = 0
    \/ list_count_max = 0
    \/ nb_returned < list_count_max
    \/ heuristic_end_of_list

-----------------------------------------------------------------------------
(* The trigger thread *)

\* trigger_check_thr and check_trigger, up to the call of run_policy
CheckTriggers ==
    /\ pc = "check"
    /\ \/ aborted /\ pc' = "out"
       \/ ~aborted /\ pc' = "sleep"
       \/ ~aborted /\ runs < MaxRuns /\ pc' = "prepare"
    /\ UNCHANGED <<polvars, th, it, nb_returned, last_sort_time, pushed,
                   before, progress, run_rc, history>>

\* rh_intr_sleep
SleepBetweenChecks ==
    /\ pc = "sleep"
    /\ pc' = IF aborted THEN "out" ELSE "check"
    /\ UNCHANGED <<polvars, th, it, nb_returned, last_sort_time, pushed,
                   before, progress, run_rc, history>>

\* The condition is checked again after trig_target_next.
RecheckStop ==
    /\ pc = "prepare"
    /\ pc' = IF aborted THEN "sleep" ELSE "run"
    /\ UNCHANGED <<polvars, th, it, nb_returned, last_sort_time, pushed,
                   before, progress, run_rc, history>>

\* What run_policy resets
ResetRun ==
    /\ aborted' = FALSE /\ stopping' = FALSE
    /\ progress' = NoCount
    /\ runs' = runs + 1
    /\ pushes' = [e \in Entries |-> 0]
    /\ performed' = [e \in Entries |-> 0]
    /\ UNCHANGED <<setup, queue, acks, sched_res, th, pushed, before,
                   timeouts, stop_asked>>

EndRun(rc) ==
    /\ run_rc' = rc
    /\ pc' = "done"

\* run_policy, up to the first request.  The clock has moved on since the
\* entries were updated.
StartRun ==
    /\ pc = "run"
    /\ ResetRun
    /\ fresh' = {}
    /\ it' \in ListsOf(Entries)
    /\ nb_returned' = 0 /\ last_sort_time' = 0
    /\ pc' = "reinit"
    /\ UNCHANGED run_rc

\* No scan was done yet, a filter cannot be set, or the request fails.
RunCancelled ==
    /\ pc = "run"
    /\ ResetRun
    /\ EndRun("CANCELLED")
    /\ UNCHANGED <<fresh, it, nb_returned, last_sort_time>>

\* sched_reinit for each scheduler, in order: those before the first one that
\* has entries left are reinitialized.
ReinitSchedulers ==
    LET busy == {i \in SchedIds : ~CanReinit(sched_res[i])}
        ready == {i \in SchedIds : \A j \in busy : i < j}
    IN /\ pc = "reinit"
       /\ sched_res' = [i \in SchedIds |->
                           IF i \in ready THEN Reinit(sched_res[i])
                                          ELSE sched_res[i]]
       /\ IF busy = {} THEN pc' = "pre_run" /\ UNCHANGED run_rc
                       ELSE EndRun("EINVAL")
       /\ UNCHANGED <<aborted, stopping, setup, fresh, queue, acks, th, it,
                      nb_returned, last_sort_time, pushed, before, progress,
                      history>>

\* pre_run_command
PreRunCommand ==
    /\ pc = "pre_run"
    /\ \/ pc' = "pass" /\ UNCHANGED run_rc
       \/ EndRun("ECANCELED")
    /\ UNCHANGED <<polvars, th, it, nb_returned, last_sort_time, pushed,
                   before, progress, history>>

\* init_pass_stats
StartPass ==
    /\ pc = "pass"
    /\ before' = acks
    /\ pushed' = 0
    /\ pc' = "next"
    /\ UNCHANGED <<polvars, th, it, nb_returned, last_sort_time, progress,
                   run_rc, history>>

\* The pass ends: wait_queue_empty comes next.
EndPass(st) ==
    /\ pc' = "wait_end"
    /\ run_rc' = st
    /\ UNCHANGED <<polvars, th, it, nb_returned, last_sort_time, pushed,
                   before, progress, history>>

\* iter_next returns an error
ListError == pc = "next" /\ ~aborted /\ ~stopping /\ EndPass("ERROR")

\* iter_next was called, and the run must stop
StopListing ==
    /\ pc = "next" /\ (aborted \/ stopping)
    /\ EndPass(IF aborted THEN "ABORTED" ELSE "EOL")

EndOfList ==
    /\ pc = "next" /\ ~aborted /\ ~stopping
    /\ it = <<>>
    /\ IF IsEndOfList
       THEN EndPass("EOL")
       ELSE /\ pc' = "wait_list"
            /\ UNCHANGED <<polvars, th, it, nb_returned, last_sort_time,
                           pushed, before, progress, run_rc, history>>

\* get_sort_attr
NewSortTime(e) ==
    IF lru_sort /\ sort[e] # NullTime THEN sort[e] ELSE last_sort_time

\* An entry is returned, and waits for a place in the queue.
GetNext ==
    /\ pc = "next" /\ ~aborted /\ ~stopping
    /\ it # <<>>
    /\ nb_returned' = nb_returned + 1
    /\ last_sort_time' = NewSortTime(Head(it))
    /\ pc' = "insert"
    /\ UNCHANGED <<polvars, th, it, pushed, before, progress, run_rc, history>>

\* Fault: a full queue is not waited for.
InsertAnyway ==
    /\ pc = "insert"
    /\ queue' = Append(queue, Head(it))
    /\ it' = Tail(it)
    /\ pushed' = pushed + 1
    /\ pushes' = [pushes EXCEPT ![Head(it)] = @ + 1]
    /\ pc' = "limit"
    /\ UNCHANGED <<aborted, stopping, setup, fresh, acks, sched_res, th,
                   nb_returned, last_sort_time, before, progress, run_rc,
                   runs, timeouts, stop_asked, performed>>

\* Queue_Insert
InsertEntry ==
    /\ pc = "insert"
    /\ Len(queue) < queue_size
    /\ queue' = Append(queue, Head(it))
    /\ it' = Tail(it)
    /\ pushed' = pushed + 1
    /\ pushes' = [pushes EXCEPT ![Head(it)] = @ + 1]
    /\ pc' = "limit"
    /\ UNCHANGED <<aborted, stopping, setup, fresh, acks, sched_res, th,
                   nb_returned, last_sort_time, before, progress, run_rc,
                   runs, timeouts, stop_asked, performed>>

\* Fault: what is in flight is not counted.
CheckDoneOnly ==
    /\ pc = "limit"
    /\ IF check_limit(TotalOk, TotalErrors)
       THEN pc' = "wait_end" /\ run_rc' = "LIMIT"
       ELSE pc' = "next" /\ UNCHANGED run_rc
    /\ UNCHANGED <<polvars, th, it, nb_returned, last_sort_time, pushed,
                   before, progress, history>>

\* check_queue_limit.  When the limit could be reached by what is in flight,
\* it is checked again after a while.
check_queue_limit ==
    /\ pc = "limit"
    /\ \/ /\ check_limit(TotalOk, TotalErrors)
          /\ pc' = "wait_end" /\ run_rc' = "LIMIT"
       \/ /\ ~check_limit(TotalOk, TotalErrors)
          /\ \/ InFlight = 0
             \/ ~check_limit((InFlight + TotalOk) % UIntMod, TotalErrors)
          /\ pc' = "next" /\ UNCHANGED run_rc
    /\ UNCHANGED <<polvars, th, it, nb_returned, last_sort_time, pushed,
                   before, progress, history>>

\* Fault: the wait only looks at the queue, not at what workers hold.
QueueIsEmpty == queue = <<>>

\* The end condition of wait_queue_empty
NothingInFlight == queue = <<>> /\ InFlight = 0

\* Fault: all the acknowledgements are counted, not those of the pass.
AddAllAcks ==
    [ok |-> progress.ok + acks["OK"], errors |-> progress.errors + acks["ERROR"]]

\* update_pass_stats
update_pass_stats == [ok |-> TotalOk, errors |-> TotalErrors]

\* What follows wait_queue_empty: before the next request, nothing is checked;
\* at the end of the pass, update_pass_stats, and run_policy decides on a new
\* pass.
AfterWait ==
    \/ /\ pc = "wait_list"
       /\ pc' = "request"
       /\ UNCHANGED progress
    \/ /\ pc = "wait_end"
       /\ progress' = update_pass_stats
       /\ pc' = IF run_rc = "LIMIT" /\ ~check_limit(TotalOk, TotalErrors)
                THEN "pass" ELSE "done"

\* Nothing is pushed, taken or acknowledged for action_timeout: all the threads
\* are in calls that may last (the match looks at the file system, the action
\* is run), wait for a scheduler, or have nothing to do.
NoActivity ==
    \A t \in Threads : th[t].pc \in {"idle", "process", "schedule", "act"}

\* wait_queue_empty returns 0, or ETIME, which its callers do not look at.
wait_queue_empty ==
    /\ NothingInFlight \/ (NoActivity /\ timeouts < MaxTimeouts)
    /\ timeouts' = IF NothingInFlight THEN timeouts ELSE timeouts + 1
    /\ AfterWait
    /\ UNCHANGED <<polvars, th, it, nb_returned, last_sort_time, pushed,
                   before, run_rc, runs, stop_asked, pushes, performed>>

\* A request may return a full list of entries that were listed before: they are
\* as old as the last one (or have no date), and kept their md_update when they
\* were refused.
MayRelist ==
    /\ pc = "request" /\ list_count_max # 0
    /\ Cardinality({e \in Entries : InNextList(e) /\ pushes[e] > 0}) >= list_count_max

\* The bound on that
Bounded == MayRelist => \A e \in Entries : pushes[e] < MaxListings

\* A new request: iter_open
Request ==
    /\ pc = "request" /\ Bounded
    /\ it' \in ListsOf({e \in Entries : InNextList(e)})
    /\ nb_returned' = 0
    /\ pc' = "limit"
    /\ UNCHANGED <<polvars, th, last_sort_time, pushed, before, progress,
                   run_rc, history>>

\* A request that fails ends the run at once, and the counters of the pass are
\* not added to those of the run.
RequestError ==
    /\ pc = "request" /\ Bounded
    /\ EndRun("REQUEST_ERROR")
    /\ UNCHANGED <<polvars, th, it, nb_returned, last_sort_time, pushed,
                   before, progress, history>>

\* post_run_command, report_policy_run, and the next target of the trigger
ReportRun ==
    /\ pc = "done"
    /\ pc' = "check"
    /\ UNCHANGED <<polvars, th, it, nb_returned, last_sort_time, pushed,
                   before, progress, run_rc, history>>

TriggerThread ==
    \/ CheckTriggers \/ SleepBetweenChecks \/ RecheckStop \/ StartRun
    \/ RunCancelled \/ ReinitSchedulers \/ PreRunCommand \/ StartPass
    \/ ListError \/ StopListing \/ EndOfList \/ GetNext \/ InsertEntry
    \/ check_queue_limit \/ wait_queue_empty
    \/ Request \/ RequestError \/ ReportRun

\* policy_module_stop
policy_module_stop ==
    /\ CanStop /\ ~stop_asked
    /\ aborted' = TRUE
    /\ stop_asked' = TRUE
    /\ UNCHANGED <<stopping, setup, fresh, queue, acks, sched_res, th, listvars,
                   runs, timeouts, pushes, performed>>

-----------------------------------------------------------------------------
(* The worker and scheduler threads *)

Becomes(t, r) == th' = [th EXCEPT ![t] = r]

\* Queue_Get
TakeEntry(t) ==
    /\ t \in Workers /\ th[t].pc = "idle"
    /\ queue # <<>>
    /\ Becomes(t, [Idle EXCEPT !.pc = "process", !.entry = Head(queue)])
    /\ queue' = Tail(queue)
    /\ UNCHANGED <<aborted, stopping, setup, fresh, acks, sched_res, listvars,
                   history>>

\* g_async_queue_pop of enqueue_thr
PopItem(t) ==
    /\ t \in SchedIds /\ th[t].pc = "idle"
    /\ sched_res[t].sched_queue # <<>>
    /\ LET item == Head(sched_res[t].sched_queue)
       IN Becomes(t, [Idle EXCEPT !.pc = "schedule", !.entry = item.entry,
                                  !.updated = item.updated, !.curr_sched = t])
    /\ sched_res' = [sched_res EXCEPT ![t].sched_queue = Tail(@)]
    /\ UNCHANGED <<aborted, stopping, setup, fresh, queue, acks, listvars,
                   history>>

\* check_entry_times: an entry without the attribute that the list is sorted by
\* is skipped (AS_MISSING_MD).
HasSortAttr(e) == lru_sort => sort[e] # NullTime

\* refresh_and_match_entry: its status, and whether md_update is refreshed.
\* An entry that a status manager refuses is not updated.
Matches(e, refresh) ==
    (IF HasSortAttr(e) /\ sort[e] <= LastEligible THEN {<<"OK", refresh>>} ELSE {})
    \cup {<<st, refresh>> : st \in MatchFailures}
    \cup (IF status_refusals THEN {<<"SKIPPED", FALSE>>} ELSE {})

\* process_entry, up to policy_action or sched_push
ProcessEntry(t) ==
    /\ th[t].pc = "process"
    /\ \/ /\ aborted \/ stopping
          /\ Becomes(t, [th[t] EXCEPT
                           !.st = IF aborted THEN "ABORT" ELSE "NOT_SCHEDULED",
                           !.pc = "ack"])
       \/ /\ ~aborted /\ ~stopping
          /\ \E m \in Matches(th[t].entry,
                               pre_sched_refresh \/ sched_count = 0) :
                Becomes(t, [th[t] EXCEPT
                              !.st = m[1], !.updated = m[2], !.curr_sched = 1,
                              !.pc = IF m[1] # "OK" THEN "update"
                                     ELSE IF sched_count = 0 THEN "act"
                                     ELSE "push"])
    /\ UNCHANGED <<polvars, listvars, history>>

\* sched_push
SchedPush(t) ==
    /\ th[t].pc = "push"
    /\ LET s == sched_res[th[t].curr_sched]
       IN Becomes(t, IF s.terminate
                     THEN [th[t] EXCEPT !.st = "NOT_SCHEDULED", !.pc = "update"]
                     ELSE [th[t] EXCEPT !.pc = IF s.sched_queue = <<>>
                                               THEN "schedule" ELSE "enqueue"])
    /\ UNCHANGED <<polvars, listvars, history>>

\* sched_schedule, called by sched_push or by the thread of the scheduler.
\* The latter tries a delayed entry again until it is let go.  The scheduler
\* that stops runs never delays an entry, so its thread never has one to stop.
Schedule(t) ==
    LET i == th[t].curr_sched
        s == Refilled(sched_res[i])
        answer == sched_schedule(sched_res[i])
    IN /\ th[t].pc = "schedule"
       /\ \/ /\ answer = "OK"
             /\ Becomes(t, [th[t] EXCEPT !.pc = "count"])
             /\ sched_res' = [sched_res EXCEPT ![i] = s]
          \/ /\ answer = "DELAY" /\ t # i
             /\ Becomes(t, [th[t] EXCEPT !.pc = "enqueue"])
             /\ sched_res' = [sched_res EXCEPT ![i] = s]
          \/ /\ answer = "STOP_RUN"
             /\ Becomes(t, [th[t] EXCEPT !.pc = "stop"])
             /\ UNCHANGED sched_res
       /\ UNCHANGED <<aborted, stopping, setup, fresh, queue, acks, listvars,
                      history>>

\* g_async_queue_push
Enqueue(t) ==
    /\ th[t].pc = "enqueue"
    /\ Becomes(t, Idle)
    /\ sched_res' = [sched_res EXCEPT ![th[t].curr_sched].sched_queue =
                        Append(@, [entry |-> th[t].entry,
                                   updated |-> th[t].updated])]
    /\ UNCHANGED <<aborted, stopping, setup, fresh, queue, acks, listvars,
                   history>>

\* The scheduler counts the entry and calls run_sched_cb with SCHED_OK.
CountEntry(t) ==
    /\ th[t].pc = "count"
    /\ sched_res' = [sched_res EXCEPT ![th[t].curr_sched] = Counted(@)]
    /\ Becomes(t, IF th[t].curr_sched = sched_count
                  THEN [th[t] EXCEPT !.pc = "act"]
                  ELSE [th[t] EXCEPT !.pc = "push", !.curr_sched = @ + 1])
    /\ UNCHANGED <<aborted, stopping, setup, fresh, queue, acks, listvars,
                   history>>

\* run_sched_cb with SCHED_STOP_RUN: the schedulers before this one will be
\* flushed, once the entry is acknowledged.
StopRun(t) ==
    /\ th[t].pc = "stop"
    /\ stopping' = TRUE
    /\ Becomes(t, [th[t] EXCEPT
                     !.st = "NOT_SCHEDULED", !.pc = "update",
                     !.flush = [i \in 1 .. th[t].curr_sched - 1 |-> i]])
    /\ UNCHANGED <<aborted, setup, fresh, queue, acks, sched_res, listvars,
                   history>>

\* action_fini: the entry is updated after a failure, else when the action asks
\* for it.  (An entry that is removed is not listed again either.)
action_fini(r, st, after) ==
    [r EXCEPT !.st = st, !.updated = after = "PA_UPDATE", !.pc = "update"]

\* The match after the schedulers, which refreshes the attributes, then
\* policy_action.
RunAction(t) ==
    /\ th[t].pc = "act"
    /\ \/ /\ sched_count > 0
          /\ \E m \in Matches(th[t].entry, TRUE) :
                /\ m[1] # "OK"
                /\ Becomes(t, [th[t] EXCEPT !.st = m[1], !.updated = m[2],
                                            !.pc = "update"])
          /\ UNCHANGED performed
       \/ /\ Becomes(t, action_fini(th[t], "ERROR", "PA_UPDATE"))
          /\ UNCHANGED performed
       \/ \E after \in AfterActions :
             /\ Becomes(t, action_fini(th[t], "OK", after))
             /\ performed' = [performed EXCEPT ![th[t].entry] = @ + 1]
    /\ UNCHANGED <<polvars, listvars, runs, timeouts, stop_asked, pushes>>

\* update_entry
UpdateEntry(t) ==
    /\ th[t].pc = "update"
    /\ fresh' = IF th[t].updated THEN fresh \cup {th[t].entry} ELSE fresh
    /\ Becomes(t, [th[t] EXCEPT !.pc = "ack"])
    /\ UNCHANGED <<aborted, stopping, setup, queue, acks, sched_res, listvars,
                   history>>

\* What a thread does when it is done with an entry
Resumed(r) ==
    [Idle EXCEPT !.flush = r.flush, !.popping = r.popping,
                 !.pc = IF r.popping THEN "pop"
                        ELSE IF r.flush # <<>> THEN "flush"
                        ELSE "idle"]

\* Fault: entries that are not scheduled are not acknowledged.
AckScheduled(t) ==
    /\ th[t].pc = "ack"
    /\ acks' = IF th[t].st = "NOT_SCHEDULED"
               THEN acks ELSE [acks EXCEPT ![th[t].st] = @ + 1]
    /\ Becomes(t, Resumed(th[t]))
    /\ UNCHANGED <<aborted, stopping, setup, fresh, queue, sched_res, listvars,
                   history>>

\* policy_ack and free_entry_context
Ack(t) ==
    /\ th[t].pc = "ack"
    /\ acks' = [acks EXCEPT ![th[t].st] = @ + 1]
    /\ Becomes(t, Resumed(th[t]))
    /\ UNCHANGED <<aborted, stopping, setup, fresh, queue, sched_res, listvars,
                   history>>

\* sched_flush of the next scheduler: no more push,
FlushScheduler(t) ==
    /\ th[t].pc = "flush"
    /\ sched_res' = [sched_res EXCEPT ![Head(th[t].flush)].terminate = TRUE]
    /\ Becomes(t, [th[t] EXCEPT !.pc = "pop", !.popping = TRUE])
    /\ UNCHANGED <<aborted, stopping, setup, fresh, queue, acks, listvars,
                   history>>

\* then the entries that wait are skipped one by one, and it is reset.
FlushItem(t) ==
    LET i == Head(th[t].flush)
        q == sched_res[i].sched_queue
    IN /\ th[t].pc = "pop"
       /\ IF q # <<>>
          THEN /\ Becomes(t, [th[t] EXCEPT !.entry = Head(q).entry,
                                           !.updated = Head(q).updated,
                                           !.curr_sched = i,
                                           !.st = "NOT_SCHEDULED",
                                           !.pc = "update"])
               /\ sched_res' = [sched_res EXCEPT ![i].sched_queue = Tail(q)]
          ELSE /\ Becomes(t, Resumed([th[t] EXCEPT !.flush = Tail(@),
                                                   !.popping = FALSE]))
               /\ sched_res' = [sched_res EXCEPT ![i] = sched_reset(@)]
       /\ UNCHANGED <<aborted, stopping, setup, fresh, queue, acks, listvars,
                      history>>

\* The clock: a refill period of the rate limit ends.
PeriodEnds(i) ==
    /\ CanExpire(sched_res[i])
    /\ sched_res' = [sched_res EXCEPT ![i] = Expired(@)]
    /\ UNCHANGED <<aborted, stopping, setup, fresh, queue, acks, th, listvars,
                   history>>

Thread(t) ==
    \/ TakeEntry(t) \/ PopItem(t) \/ ProcessEntry(t) \/ SchedPush(t)
    \/ Schedule(t) \/ Enqueue(t) \/ CountEntry(t) \/ StopRun(t)
    \/ RunAction(t) \/ UpdateEntry(t) \/ Ack(t)
    \/ FlushScheduler(t) \/ FlushItem(t)

Next ==
    \/ TriggerThread
    \/ policy_module_stop
    \/ \E t \in Threads : Thread(t)
    \/ \E i \in SchedIds : PeriodEnds(i)

\* Threads are scheduled, actions end, and time passes.
Fairness ==
    /\ WF_vars(TriggerThread)
    /\ \A t \in Threads : WF_vars(Thread(t))
    /\ \A i \in SchedIds : WF_vars(PeriodEnds(i))

Spec == Init /\ [][Next]_vars
FairSpec == Spec /\ Fairness

-----------------------------------------------------------------------------
(* Properties *)

ThreadPcs == {"idle", "process", "push", "schedule", "enqueue", "count", "stop",
              "act", "update", "ack", "flush", "pop"}

\* Each variable has its type: the queue never exceeds queue_size, entries of
\* the queues are entries of the database.
TypeOK ==
    /\ aborted \in BOOLEAN /\ stopping \in BOOLEAN
    /\ \E c \in Setups : setup = <<c.sort, c.list_count_max, c.target_count,
                                   c.pre_sched_refresh>>
    /\ fresh \subseteq Entries
    /\ queue \in Seq(Entries) /\ Len(queue) <= queue_size
    /\ acks \in [Status -> Nat] /\ before \in [Status -> Nat]
    /\ \A i \in SchedIds :
          /\ sched_res[i].terminate \in BOOLEAN /\ sched_res[i].n \in Int
          /\ \A k \in DOMAIN sched_res[i].sched_queue :
                sched_res[i].sched_queue[k].entry \in Entries
    /\ \A t \in Threads :
          /\ th[t].pc \in ThreadPcs
          /\ th[t].entry \in Entries \cup {NoEntry}
          /\ th[t].st \in Status
    /\ it \in Seq(Entries)
    /\ pushed \in Nat /\ progress.ok \in Nat /\ progress.errors \in Nat

InPass == pc \in {"next", "insert", "limit", "wait_list", "request", "wait_end"}

\* The entries that are queued, or held by a thread, or wait for a scheduler
NbHeld ==
    Len(queue) + Cardinality({t \in Threads : th[t].entry # NoEntry})
    + MapThenSumSet(LAMBDA i : Len(sched_res[i].sched_queue), SchedIds)

\* What run_policy computes from the counters of the queue is exact, as long as
\* no wait timed out: every entry that was queued is acknowledged exactly once,
\* whether it is run, skipped by a scheduler, flushed or aborted, and nothing is
\* left over for the next run.
InFlightExact ==
    timeouts = 0 => NbHeld = IF InPass THEN InFlight ELSE 0

NbPerformed == MapThenSumSet(LAMBDA e : performed[e], Entries)

\* The limit of a run is on actions that are done (check_queue_limit counts what
\* is in flight): it is never exceeded, although workers run concurrently.
LimitKept ==
    timeouts = 0 /\ target_count # 0 => NbPerformed <= target_count

\* The action is never run twice on an entry in a run, although the list is
\* requested again while the entries of the previous one are being updated
\* ("to prevent from processing the same entry twice").
ActedOnce == timeouts = 0 => \A e \in Entries : performed[e] <= 1

\* When a run ends, its summary is what was really done.  (A request that fails
\* loses the counters of the pass.)
SummaryExact ==
    pc = "done" /\ timeouts = 0 /\ run_rc # "REQUEST_ERROR" =>
        progress.ok = NbPerformed

\* A run that ends because the list is over has queued every entry that may
\* match: the requests that replace each other (md_update older than the start
\* of the run, sort attribute not lower than the last one) lose none of them.
ListComplete ==
    pc = "done" /\ run_rc = "EOL" /\ ~stopping =>
        \A e \in Entries : sort[e] <= LastEligible => pushes[e] > 0

\* A run that starts ends, also when it is stopped by a scheduler or by a
\* request to stop, as long as no wait timed out.  It may not when a full list
\* may be requested again: an entry refused before the schedulers keeps its
\* md_update unless pre_sched_match refreshes it, which the default,
\* MS_CACHE_ONLY, does not.
RunEnds == pc = "run" ~> (pc = "done" \/ timeouts > 0 \/ MayRelist)

\* policy_module_stop is "seen by all components, from triggers to worker
\* threads in policy_run": the policy module ends, which policy_module_wait
\* waits for.
StopIsSeen == stop_asked ~> pc = "out"
=============================================================================
