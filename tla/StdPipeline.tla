----------------------------- MODULE StdPipeline -----------------------------
(***************************************************************************)
(* The standard pipeline (src/src/entry_processor/std_pipeline.c): its     *)
(* stages and, for each kind of operation, the stages its stage functions  *)
(* may send it to.  What decides between them (the database, the file      *)
(* system, the changelog record) is not told apart here.                   *)
(*                                                                         *)
(* The kinds of operations:                                                *)
(*   "path"    entry of a scan whose fid is not known yet                  *)
(*   "scan"    entry of a scan whose id is known                           *)
(*   "record"  changelog record                                            *)
(*   "unlink"  UNLINK changelog record whose fid must be found in the DB   *)
(*   "gc"      special operation at the end of a scan                      *)
(***************************************************************************)
EXTENDS Integers

STAGE_GET_FID == 0
STAGE_GET_INFO_DB == 1
STAGE_GET_INFO_FS == 2
STAGE_PRE_APPLY == 3
STAGE_DB_APPLY == 4
STAGE_CHGLOG_CLR == 5
STAGE_RM_OLD_ENTRIES == 6
PIPELINE_STAGE_COUNT == 7

StdStages == 0..(PIPELINE_STAGE_COUNT - 1)

\* std_pipeline[]: flags, batch functions and thread limits
StdSequential == {STAGE_CHGLOG_CLR, STAGE_RM_OLD_ENTRIES}
StdIdConstraint == {STAGE_GET_INFO_DB}
StdBatchable == {STAGE_DB_APPLY}
StdMaxThreads == [s \in StdStages |-> IF s = STAGE_CHGLOG_CLR THEN 1 ELSE 0]

OpKinds == {"path", "scan", "record", "unlink", "gc"}
Skip == -1

\* the stage the scan and the changelog reader push an operation at
StdPushStage(kind) ==
    CASE kind = "path" -> STAGE_GET_FID
      [] kind = "gc" -> STAGE_RM_OLD_ENTRIES
      [] OTHER -> STAGE_GET_INFO_DB

IsRecord(kind) == kind \in {"record", "unlink"}

\* skip_record
SkipRecord(kind) == IF IsRecord(kind) THEN STAGE_CHGLOG_CLR ELSE Skip

\* EntryProc_get_fid: path2fid may fail
get_fid == {STAGE_GET_INFO_DB, Skip}

\* EntryProc_get_info_db
get_info_db(kind) ==
    IF IsRecord(kind)
    THEN {STAGE_GET_INFO_FS, STAGE_PRE_APPLY, STAGE_CHGLOG_CLR, Skip}
    ELSE {STAGE_GET_INFO_FS, Skip}

\* EntryProc_get_info_fs, with rm_record
get_info_fs(kind) == {STAGE_PRE_APPLY, SkipRecord(kind)}

\* EntryProc_pre_apply
pre_apply == {STAGE_DB_APPLY}

\* EntryProc_db_apply: records have a callback, entries of a scan have none
db_apply(kind) == {SkipRecord(kind)}

StdExits(kind, s) ==
    CASE kind = "gc" /\ s = STAGE_RM_OLD_ENTRIES -> {Skip}
      [] kind = "path" /\ s = STAGE_GET_FID -> get_fid
      [] kind # "gc" /\ s = STAGE_GET_INFO_DB -> get_info_db(kind)
      [] kind # "gc" /\ s = STAGE_GET_INFO_FS -> get_info_fs(kind)
      [] kind # "gc" /\ s = STAGE_PRE_APPLY -> pre_apply
      [] kind # "gc" /\ s = STAGE_DB_APPLY -> db_apply(kind)
      [] s = STAGE_CHGLOG_CLR -> {Skip}
      [] OTHER -> {}
=============================================================================
