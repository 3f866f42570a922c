---------------------------- MODULE MCChangelog ----------------------------
(***************************************************************************)
(* Changelogs for the model of the changelog reader: entries f, g and h,   *)
(* names a, b and c.                                                       *)
(***************************************************************************)
EXTENDS ChangelogReader

Rec(type, fid, name) ==
    [type |-> type, fid |-> fid, name |-> name, last |-> FALSE,
     sfid |-> NoFid, sname |-> NoName]
LastLink(rec) == [rec EXCEPT !.last = TRUE]
\* a rename in one record; fid is the entry that is overwritten, if any
Renamed(type, sfid, sname, fid, name) ==
    [Rec(type, fid, name) EXCEPT !.sfid = sfid, !.sname = sname,
                                 !.last = (fid # NoFid)]

Faults(stops, crashes, errors, db_errors) ==
    [stops |-> stops, crashes |-> crashes, errors |-> errors, db_errors |-> db_errors]
Failing == Faults(0, 0, 1, 1)

\* A file is created and written, then renamed over another one that has
\* just changed, gets a second name, and is written again.
Mixed ==
    [log |-> <<Rec("CREATE", "f", "a"), Rec("CLOSE", "f", NoName),
               Rec("SETATTR", "g", NoName), Renamed("RENAME", "f", "a", "g", "b"),
               Rec("HARDLINK", "f", "c"), Rec("CLOSE", "f", NoName)>>,
     names |-> "b" :> "g", known |-> {"g"}, one_shot |-> FALSE,
     max |-> Faults(1, 1, 1, 0)]

\* A directory and a file that come and go between two changes of files, one
\* of them not known by the database and the other one the root directory.
Churn ==
    [log |-> <<Rec("MKDIR", "g", "b"), Rec("MARK", NoFid, NoName),
               Rec("RMDIR", "g", "b"), Rec("CTIME", "h", NoName),
               Rec("SETATTR", Root, NoName), Rec("SETATTR", "h", NoName),
               Rec("CREATE", "f", "a"), LastLink(Rec("UNLINK", "f", "a"))>>,
     names |-> "c" :> "h", known |-> {}, one_shot |-> FALSE, max |-> Failing]

\* The rename of Mixed, in two consecutive records
TwoRecords ==
    [log |-> <<Rec("CLOSE", "f", NoName), Rec("SETATTR", "g", NoName),
               Rec("RENAME", "f", "a"),
               [Renamed("EXT", "f", "a", "g", "b") EXCEPT !.last = FALSE],
               Rec("CLOSE", "f", NoName)>>,
     names |-> ("a" :> "f") @@ ("b" :> "g"), known |-> {"f", "g"},
     one_shot |-> FALSE, max |-> Failing]

\* with a stop and a crash
Interrupted == [TwoRecords EXCEPT !.max = Faults(1, 1, 0, 0)]

\* with the write of the renamed file between the two halves
Apart == [TwoRecords EXCEPT
             !.log = <<@[2], @[3], @[1], @[4], @[5]>>, !.max = Faults(0, 0, 1, 0)]

\* The same from an MDT that does not tell which entry is overwritten, in a
\* changelog that was opened in the middle of another rename.
OldMdt(one) ==
    [log |-> <<Rec("EXT", NoFid, "c"), Rec("HARDLINK", "f", "c"),
               Rec("RENAME", "f", "a"),
               [Renamed("EXT", "f", "a", "f", "b") EXCEPT !.last = FALSE],
               Rec("SETATTR", Root, NoName), Rec("CLOSE", "f", NoName)>>,
     names |-> ("a" :> "f") @@ ("b" :> "g"), known |-> {"f", "g"},
     one_shot |-> one, max |-> Failing]

\* A file with two names changes, then loses one of them.
Links ==
    [log |-> <<Rec("SETATTR", "f", NoName), Rec("UNLINK", "f", "b"),
               Rec("CLOSE", "g", NoName)>>,
     names |-> ("a" :> "f") @@ ("b" :> "f") @@ ("c" :> "g"),
     known |-> {"f", "g"}, one_shot |-> FALSE, max |-> Faults(0, 0, 0, 0)]

CrashScenarios == {Mixed, Interrupted}
ModesScenarios == {Churn, TwoRecords, Apart, OldMdt(TRUE), OldMdt(FALSE)}
LinksScenarios == {Links}
=============================================================================
