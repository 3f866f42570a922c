------------------------------ MODULE MCFsScan ------------------------------
(***************************************************************************)
(* Instances of FsScan.  The file system is                                *)
(*    /a  /a/f  /a/c  /a/c/h  /b  /b/g  /i                                 *)
(***************************************************************************)
EXTENDS FsScan

MCEntries == {"a", "b", "c", "f", "g", "h", "i"}
MCDirs == {"root", "a", "b", "c"}
MCParent == [e \in MCEntries |->
               CASE e \in {"a", "b", "i"} -> "root"
                 [] e \in {"f", "c"} -> "a"
                 [] e = "g" -> "b"
                 [] e = "h" -> "c"]
MCPathTo == [root |-> {"root"}, a |-> {"root", "a"}, b |-> {"root", "b"},
             c |-> {"root", "a", "c"}]
MCIgnored == {"i"}

\* Scans of the whole file system, with one fault of any kind: a one-shot scan,
\* and the scans of a daemon that has a scan_op_timeout.
OneShot(known, present) ==
    [partial_scan_root |-> "nodir", dir_list |-> {},
     has_deletion_policy |-> FALSE, once |-> TRUE, scan_op_timeout |-> FALSE,
     known |-> known, present |-> present, scans |-> 1,
     fault_kinds |-> AllFaults, max_faults |-> 1]

Daemon(known, present) ==
    [OneShot(known, present) EXCEPT !.once = FALSE, !.scan_op_timeout = TRUE,
                                    !.scans = 2]

\* A daemon that knows a file that is gone, and one whose first scan may be
\* aborted before a file is removed.  A scan with a deletion policy, and a first
\* scan.  A partial scan, without and with a
\* deletion policy.  A scan restricted to a directory and one below it.
DaemonScan == Daemon({"b", "f", "g"}, {"b", "g"})
RescanScan == [Daemon({"b", "g"}, {"b", "g"}) EXCEPT
                  !.fault_kinds = {"getdents", "removal"}, !.max_faults = 2]
DeepScan == [OneShot({"a", "c", "f", "h"}, {"a", "c", "f", "h"}) EXCEPT
                !.has_deletion_policy = TRUE]
FirstScan == OneShot({}, {"b", "g", "i"})
PartialScan == [OneShot({"a", "b", "c", "f", "h"}, {"a", "b", "c"}) EXCEPT
                   !.partial_scan_root = "c"]
PartialSoft == [OneShot({"a", "f", "c", "b"}, {"a", "c", "b"}) EXCEPT
                   !.partial_scan_root = "a", !.has_deletion_policy = TRUE]
OnlyScan == [OneShot({"a", "c", "b"}, {"a", "c"}) EXCEPT
                !.dir_list = {"a", "c"}, !.fault_kinds = {"open", "stat", "update"}]

AllScenarios == {DaemonScan, RescanScan, DeepScan, FirstScan, PartialScan,
                 PartialSoft, OnlyScan}

\* A directory that cannot be read to its end
WideScenarios == {[OneShot({"a", "b", "f", "g"}, {"a", "b", "f", "g"}) EXCEPT
                      !.fault_kinds = {"getdents"}]}

\* A scan of the daemon, which may be stopped while a thread hangs or while the
\* final operation is stuck; and one-shot scans.
HungScan == [Daemon({"b", "g"}, {"b", "g"}) EXCEPT
                !.fault_kinds = {"hang", "behind", "stop"}, !.max_faults = 2,
                !.scans = 1]
EndScenarios == {HungScan, FirstScan, PartialScan, PartialSoft}
=============================================================================
