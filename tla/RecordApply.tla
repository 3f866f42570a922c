---------------------------- MODULE RecordApply ----------------------------
(***************************************************************************)
(* What the standard pipeline does to the database for one changelog       *)
(* record (src/src/entry_processor/std_pipeline.c, the SQL of              *)
(* src/src/list_mgr/listmgr_remove.c, listmgr_insert.c, listmgr_update.c). *)
(*                                                                         *)
(* The database keeps one row per entry (MAIN: the link count and the      *)
(* version of the attributes it holds) and one per name (NAMES: its key is *)
(* the parent and the name, so a name has one entry).  The file system     *)
(* gives the names, and the version of the attributes, of each entry.      *)
(* No policy handles removed entries (has_deletion_policy() is false) and  *)
(* no status manager asks for a removal from its changelog callback.       *)
(***************************************************************************)
EXTENDS Integers, FiniteSets, Functions, TLC

CONSTANTS
    Fids,
    Names,
    NoFid,          \* FID_IS_ZERO
    NoName,         \* cr_namelen = 0
    Root,           \* the root directory
    md_update_when  \* updt_params.md.when

ASSUME EntriesAssumption ==
    /\ NoFid \notin Fids
    /\ NoName \notin Names
    /\ md_update_when \in
          {"always", "never", "on_event", "periodic", "on_event_periodic"}

-----------------------------------------------------------------------------
(* The file system *)

Exists(fs, fid) == fid \in Range(fs.names)
NamesOf(fs, fid) == {n \in DOMAIN fs.names : fs.names[n] = fid}
Linked(names, n, fid) == (n :> fid) @@ names
Unlinked(names, n) == Restrict(names, DOMAIN names \ {n})

\* The records that tell of a change of an entry's attributes
AttrTypes == {"CREATE", "MKNOD", "MKDIR", "CLOSE", "TRUNC", "MTIME", "CTIME",
              "SETATTR"}

\* The file system after the operation that wrote record number k
FsStep(fs, rec, k) ==
    [names |->
        CASE rec.type \in {"CREATE", "MKNOD", "MKDIR", "HARDLINK"} ->
               Linked(fs.names, rec.name, rec.fid)
          [] rec.type \in {"UNLINK", "RMDIR"} -> Unlinked(fs.names, rec.name)
          [] rec.type \in {"RENAME", "EXT"} /\ rec.sfid # NoFid ->
               Linked(Unlinked(fs.names, rec.sname), rec.name, rec.sfid)
          [] OTHER -> fs.names,
     ver |-> IF rec.type \in AttrTypes THEN [fs.ver EXCEPT ![rec.fid] = k]
                                       ELSE fs.ver]

-----------------------------------------------------------------------------
(* The database *)

\* ListMgr_Remove with last = true: the row of the entry, and the name if it
\* is known and still is a name of this entry.
RemoveName(names, op, fid) ==
    IF op.name \in DOMAIN names /\ names[op.name] = fid
    THEN Unlinked(names, op.name)
    ELSE names

RemoveLast(db, op, fid) ==
    [main |-> Restrict(db.main, DOMAIN db.main \ {fid}),
     names |-> RemoveName(db.names, op, fid)]

\* ListMgr_Remove with last = false: one link less, and the name.
RemoveOne(db, op, fid) ==
    [main |-> IF fid \in DOMAIN db.main /\ db.main[fid].nlink > 0
              THEN [db.main EXCEPT ![fid].nlink = @ - 1]
              ELSE db.main,
     names |-> RemoveName(db.names, op, fid)]

\* ListMgr_Insert and ListMgr_Update: an insertion of a name that is already
\* there gives it to the entry.
Store(db, fid, row, name) ==
    [main |-> (fid :> row) @@ db.main,
     names |-> IF name = NoName THEN db.names ELSE Linked(db.names, name, fid)]

-----------------------------------------------------------------------------
(* Processing a record *)

\* need_info_update: what it may return and set *update_if_event to, for an
\* entry the database has.  Whether its path is partial, or its md_update not
\* set, is not known (it is then always updated); nor is whether a period has
\* expired.
need_md_update ==
    {<<TRUE, FALSE>>} \cup
    CASE md_update_when = "always"   -> {}
      [] md_update_when = "never"    -> {<<FALSE, FALSE>>}
      [] md_update_when = "on_event" -> {<<FALSE, TRUE>>}
      [] md_update_when = "periodic" -> {<<FALSE, FALSE>>}
      [] md_update_when = "on_event_periodic" -> {<<FALSE, FALSE>>, <<FALSE, TRUE>>}

\* Fault: changes of the attributes are not events.
DataEvents == {"MTIME", "CLOSE", "TRUNC", "HSM"}

\* EntryProc_FillFromLogRec: the records on a known entry that ask for its
\* attributes when events may.
EventTypes == {"MTIME", "CTIME", "CLOSE", "TRUNC", "HSM", "SETATTR"}

\* The possible values of NEED_GETATTR.
NeedGetattr(db, op, fid) ==
    IF fid \notin DOMAIN db.main \/ op.type = "CREATE"
    THEN {TRUE}
    ELSE {md[1] \/ (md[2] /\ op.type \in EventTypes) : md \in need_md_update}

\* EntryProc_pre_apply: a created file has one link; a new link is one more
\* than what the database has; else it is what getattr said.
NewLinkCount(db, fs, op, fid, getattr) ==
    IF op.type = "CREATE" THEN 1
    ELSE IF op.type = "HARDLINK" /\ fid \in DOMAIN db.main
         THEN db.main[fid].nlink + 1
    ELSE IF getattr THEN Cardinality(NamesOf(fs, fid))
    ELSE db.main[fid].nlink

\* The name that is stored: the one of the record, else the path the file
\* system gives, which a known entry only needs when its path has expired.
NewNames(db, fs, op, fid) ==
    IF op.name # NoName THEN {op.name}
    ELSE NamesOf(fs, fid) \cup (IF fid \in DOMAIN db.main THEN {NoName} ELSE {})

\* An entry that must be looked at and is gone is skipped (rm_record): an
\* UNLINK record follows.  So is one without any name.
Refresh(db, fs, op, fid, getattr) ==
    IF getattr /\ ~Exists(fs, fid)
    THEN {db}
    ELSE {Store(db, fid,
                [nlink |-> NewLinkCount(db, fs, op, fid, getattr),
                 ver |-> IF getattr THEN fs.ver[fid] ELSE db.main[fid].ver],
                n) : n \in NewNames(db, fs, op, fid)}

\* EntryProc_ProcessLogRec for UNLINK: without the LAST flag, the link count
\* of the database tells if the entry is to be removed.
IsLastUnlink(db, op, fid) == op.last \/ db.main[fid].nlink <= 1

Unlink(db, op, fid) ==
    IF fid \notin DOMAIN db.main THEN db
    ELSE IF IsLastUnlink(db, op, fid) THEN RemoveLast(db, op, fid)
    ELSE RemoveOne(db, op, fid)

\* Fault: RENAME does not remove the old name.
KeepOldName(db, op, fid) == db

Rename(db, op, fid) == RemoveOne(db, op, fid)

\* EntryProc_get_info_db, for an operation whose entry is found by name.
FidOf(db, op) ==
    IF ~op.get_fid_from_db THEN op.fid
    ELSE IF op.name \in DOMAIN db.names THEN db.names[op.name]
    ELSE NoFid

\* The operation leaves the pipeline at once, and its callback is not called.
IsDropped(db, op) == FidOf(db, op) \in {Root, NoFid}

\* The databases that the operation may lead to, from GET_INFO_DB to DB_APPLY.
\* The stages are one step: no other operation on the entry gets in between
\* (EntryPipeline, IdOrder), and the file system is read once.
Outcomes(db, fs, op) ==
    LET fid == FidOf(db, op)
    IN CASE op.type = "UNLINK" -> {Unlink(db, op, fid)}
         [] op.type = "RENAME" -> {Rename(db, op, fid)}
         [] op.type = "RMDIR" -> {IF fid \in DOMAIN db.main
                                  THEN RemoveLast(db, op, fid) ELSE db}
         [] OTHER -> UNION {Refresh(db, fs, op, fid, getattr) :
                               getattr \in NeedGetattr(db, op, fid)}
=============================================================================
