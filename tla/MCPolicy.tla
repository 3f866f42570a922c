----------------------------- MODULE MCPolicy ------------------------------
(* Instances of PolicyRun for model checking *)
EXTENDS PolicyRun

CONSTANTS e1, e2, e3

MCEntries == {e1, e2, e3}

Times(a, b, c) ==
    [e \in MCEntries |-> CASE e = e1 -> a [] e = e2 -> b [] e = e3 -> c]

Setup(times, list, target, refresh) ==
    [sort |-> times, list_count_max |-> list, target_count |-> target,
     pre_sched_refresh |-> refresh]

\* Lists are cut at two entries: after a missing time and between equal ones;
\* and, when a single action is asked for, before and between entries that are
\* too recent to match.  Entries that are refused before the schedulers keep
\* their md_update, or not.
MCSetups ==
    {Setup(Times(-1, 2, 2), 2, 2, TRUE), Setup(Times(1, 2, 2), 2, 2, TRUE)}
    \cup {Setup(Times(-1, 2, 2), 2, 1, FALSE)}
    \cup {Setup(times, 2, 1, refresh) :
              times \in {Times(2, 2, 3), Times(2, 3, 3)}, refresh \in BOOLEAN}

\* One request, without order and without limit
MCOneList == {Setup([e \in {e1, e2} |-> 2], 0, 0, TRUE)}

MCNullTime == -1

MCNoScheduler == <<>>
MCSchedulers == <<"rate_limit", "max_per_run">>
=============================================================================
