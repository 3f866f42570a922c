----------------------------- MODULE MCPipeline -----------------------------
(***************************************************************************)
(* Instances of the entry processor with the standard pipeline.  Each has  *)
(* a feeding thread for a scan and one for changelog records, and a few    *)
(* operations, numbered, some of them on the same entry.                   *)
(***************************************************************************)
EXTENDS EntryPipeline, StdPipeline, TLC

CONSTANT Kind   \* the kind of each operation

ASSUME KindAssumption == Kind \in [Ops -> OpKinds]

KindPushStage == [o \in Ops |-> StdPushStage(Kind[o])]
KindExits == [o \in Ops |-> [s \in StdStages |-> StdExits(Kind[o], s)]]
KindIdAtPush == {o \in Ops : Kind[o] \in {"scan", "record"}}

\* What there is to push: records (1, 3, 4), scanned entries with a fid (2)
\* and without (5, 6), the operation that removes old entries at the end of a
\* scan (7) and an UNLINK whose fid must be looked up (8).  Most of them are
\* about entry 1 or name 7.
MixedKind == <<"record", "scan", "record", "record", "path", "path", "gc", "unlink">>
MixedId == <<1, 1, 2, 1, 1, 1, 3, 1>>
MixedName == <<0, 7, 7, 7, 0, 0, 0, 7>>

\* A scan and a changelog reader; the end of a scan; UNLINK between records
\* about the same entry.
MixedPrograms == {("log" :> <<1, 3>>) @@ ("scan" :> <<2>>),
                  ("log" :> << >>) @@ ("scan" :> <<5, 6, 2, 7>>),
                  ("log" :> <<4, 8, 1>>) @@ ("scan" :> << >>)}

\* A scanned entry without fid ahead of two records, in one thread, with
\* fewer tokens than operations.
FlowPrograms == {[p \in Pushers |-> <<5, 1, 3>>]}

\* The end of a scan, and a changelog reader that goes on pushing records.
GcPrograms == {[p \in Pushers |-> <<5, 7, 3>>]}
=============================================================================
