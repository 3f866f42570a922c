---------------------------- MODULE ActionSched ----------------------------
(***************************************************************************)
(* The action schedulers a policy entry goes through before its action is  *)
(* run: the state every scheduler has (src/src/policies/policy_sched.c)    *)
(* and what max_per_run (src/src/modules/common_sched.c) and rate_limit    *)
(* (src/src/modules/sched_ratelimit.c) answer.                             *)
(*                                                                         *)
(* Only numbers of actions are counted: the limits on volumes work in the  *)
(* same way.  max_waits is then of no effect, because a refill gives       *)
(* count_capacity tokens at once.                                          *)
(***************************************************************************)
EXTENDS Integers, Sequences

CONSTANTS
    max_count,       \* max_per_run: actions in a run, 0 for no limit
    count_capacity   \* rate_limit: actions in a refill period

ASSUME SchedAssumption == max_count \in Nat /\ count_capacity \in Nat \ {0}

\* sched_res_t: the wait queue, the end mark, and the state of the scheduler:
\* max_per_run counts what it let go, rate_limit the tokens it has left and
\* whether its refill period is over.
Sched(kind, q, terminate, n, expired) ==
    [kind |-> kind, sched_queue |-> q, terminate |-> terminate,
     n |-> n, expired |-> expired]

\* sched_mpr_reset, sched_tbf_reset
FullCount(kind) == IF kind = "max_per_run" THEN 0 ELSE count_capacity

sched_reset(s) == [s EXCEPT !.n = FullCount(s.kind), !.expired = FALSE]

\* Every run starts with a reset (sched_reinit).
sched_init(kind) == Sched(kind, <<>>, FALSE, FullCount(kind), FALSE)

\* A period of the rate limit ends.
CanExpire(s) == s.kind = "rate_limit" /\ ~s.expired
Expired(s) == [s EXCEPT !.expired = TRUE]

\* sched_tbf_schedule: the first call after the end of a period refills.
Refilled(s) == IF s.kind = "rate_limit" /\ s.expired THEN sched_reset(s) ELSE s

\* What the schedulers answer, before anything is counted.
sched_mpr_schedule(s) ==
    IF max_count # 0 /\ s.n >= max_count THEN "STOP_RUN" ELSE "OK"

sched_tbf_schedule(s) == IF Refilled(s).n <= 0 THEN "DELAY" ELSE "OK"

sched_schedule(s) ==
    CASE s.kind = "max_per_run" -> sched_mpr_schedule(s)
      [] s.kind = "rate_limit"  -> sched_tbf_schedule(s)

\* The atomic increment or decrement that follows the answer "OK".
Counted(s) == [s EXCEPT !.n = IF s.kind = "max_per_run" THEN @ + 1 ELSE @ - 1]

\* sched_reinit
CanReinit(s) == s.sched_queue = <<>>
Reinit(s) == [sched_reset(s) EXCEPT !.terminate = FALSE]
=============================================================================
