----------------------------- MODULE BackupSwap -----------------------------
(***************************************************************************)
(* backup.py against db/session.py: an import puts an uploaded database in *)
(* the place of the live one by two renames, while pages hold sessions on  *)
(* the cached engine and the process may be killed.                        *)
(*                                                                         *)
(* A name of the directory refers to an inode, and so does an open         *)
(* connection, which keeps its inode through every rename.  A database is  *)
(* the set of its rows; page p writes row p.  A mismatched one has the     *)
(* tables of models.py, but not all their columns.  The two caches of      *)
(* session.py are one here; connections in its pool are used in turn.      *)
(***************************************************************************)
EXTENDS Naturals, Sequences

CONSTANTS
  Importers,    \* threads that import
  Pages,        \* threads that open sessions and export
  Inodes,       \* more than are ever in use (see Room)
  None,
  Rows,         \* everything a database may hold
  OldRows,      \* what the live database holds at first
  Uploads,      \* the backup files offered to import_bytes
  MaxImports, MaxFaults, MaxCrashes    \* bounds

Content == [kind : {"database", "mismatched", "blank", "damaged"}, rows : SUBSET Rows]
HasTables == {"database", "mismatched"}

ASSUME BackupAssumption ==
  /\ Pages \subseteq Rows /\ OldRows \subseteq Rows
  /\ Uploads \subseteq [kind : {"database", "mismatched", "blank", "damaged", "garbage"},
                        rows : SUBSET Rows]
  /\ None \notin Inodes
  /\ Inodes # {}
  /\ MaxImports \in Nat /\ MaxFaults \in Nat /\ MaxCrashes \in Nat

VARIABLES
  name,        \* "db", "bak" (.bak), "tmp" (.import.tmp) -> inode or None
  disk,        \* inode -> content
  cached,      \* is an engine cached?
  pool,        \* inodes of the idle connections of the cached engine
  page,        \* session or export of each page
  job,         \* import of each importer
  exported,    \* payload of the last export
  hollow,      \* history: was the last export opened between the two renames?
  disturbed,   \* history: an engine was cached in a swap, or a swap cut off by a
               \* kill or a failed rollback
  imports, faults, crashes   \* counted towards their bounds

bounds == <<imports, faults, crashes>>
vars == <<name, disk, cached, pool, page, job, exported, hollow, disturbed, bounds>>

Names == {"db", "bak", "tmp"}
Database(rows) == [kind |-> "database", rows |-> rows]
Blank == [kind |-> "blank", rows |-> {}]
Closed == [at |-> "idle", conn |-> None, pooled |-> FALSE]

Original == CHOOSE f \in Inodes : TRUE
Init ==
  /\ name = [n \in Names |-> IF n = "db" THEN Original ELSE None]
  /\ disk = [f \in Inodes |-> IF f = Original THEN Database(OldRows) ELSE Blank]
  /\ cached = FALSE /\ pool = <<>>
  /\ page = [p \in Pages |-> Closed]
  /\ job = [i \in Importers |-> [at |-> "idle", upload |-> Blank, fd |-> None,
       moved |-> FALSE, old |-> None, previous |-> {}, reported |-> {}, littered |-> FALSE]]
  /\ exported = Database(OldRows) /\ hollow = FALSE
  /\ disturbed = FALSE
  /\ imports = 0 /\ faults = 0 /\ crashes = 0

-----------------------------------------------------------------------------
(* Files and connections.                                                  *)

Used == {name[n] : n \in Names} \cup {page[p].conn : p \in Pages}
          \cup {job[i].fd : i \in Importers} \cup {job[i].old : i \in Importers}
          \cup {pool[k] : k \in DOMAIN pool}
Room == Inodes \ Used # {}
Fresh == CHOOSE f \in Inodes : f \notin Used

\* What a new connection to the path of the database opens, and what it finds.
PathFile == IF name["db"] = None THEN Fresh ELSE name["db"]
Found == IF name["db"] = None THEN Blank ELSE disk[name["db"]]

\* sqlite3.connect creates a missing file; create_all also makes the tables.
Connect(content) ==
  /\ Room
  /\ name' = [name EXCEPT !["db"] = PathFile]
  /\ disk' = [disk EXCEPT ![PathFile] = content]
Created == IF Found.kind = "blank" THEN Database(Found.rows) ELSE Found

\* One more system call fails.
Fault == faults < MaxFaults /\ faults' = faults + 1

Swapping == \E i \in Importers : job[i].at \in {"released", "aside"}

-----------------------------------------------------------------------------
(* Pages: session_scope of db/session.py, export_bytes.                    *)

\* get_engine() without a cached engine: connect, create_all.
CreateEngine(p) ==
  /\ page[p].at = "idle"
  /\ ~cached
  /\ Found.kind # "damaged"
  /\ Connect(Created)
  /\ page' = [page EXCEPT ![p] = [at |-> "creating", conn |-> PathFile, pooled |-> FALSE]]
  /\ UNCHANGED <<cached, pool, job, exported, hollow, disturbed, bounds>>

\* lru_cache keeps the result unless another thread was first.
CacheEngine(p) ==
  /\ page[p].at = "creating"
  /\ page' = [page EXCEPT ![p].at = "open", ![p].pooled = ~cached]
  /\ cached' = TRUE
  /\ disturbed' = (disturbed \/ (~cached /\ (Swapping \/ page[p].conn # name["db"])))
  /\ UNCHANGED <<name, disk, pool, job, exported, hollow, bounds>>

\* A session takes an idle connection of the cached engine, or opens one.
Checkout(p) ==
  /\ page[p].at = "idle"
  /\ cached
  /\ IF pool # <<>>
       THEN /\ page' = [page EXCEPT ![p] = [at |-> "open", conn |-> Head(pool), pooled |-> TRUE]]
            /\ pool' = Tail(pool)
            /\ UNCHANGED <<name, disk>>
       ELSE /\ Connect(Found)
            /\ page' = [page EXCEPT ![p] = [at |-> "open", conn |-> PathFile, pooled |-> TRUE]]
            /\ UNCHANGED pool
  /\ UNCHANGED <<cached, job, exported, hollow, disturbed, bounds>>

\* The first write of a transaction: SQLite refuses a file whose name is gone
\* (SQLITE_READONLY_DBMOVED) and waits for another writer.
BeginWrite(p) ==
  /\ page[p].at = "open"
  /\ page[p].conn = name["db"]
  /\ disk[page[p].conn].kind \in HasTables
  /\ \A q \in Pages : page[q].conn = page[p].conn => page[q].at # "writing"
  /\ page' = [page EXCEPT ![p].at = "writing"]
  /\ UNCHANGED <<name, disk, cached, pool, job, exported, hollow, disturbed, bounds>>

\* The session closes: its connection goes back to the pool it came from.
GiveBack(p) ==
  /\ pool' = IF page[p].pooled THEN Append(pool, page[p].conn) ELSE pool
  /\ page' = [page EXCEPT ![p] = Closed]

\* The row is there, and it is one more that an import of this file has to keep.
Commit(p) ==
  /\ page[p].at = "writing"
  /\ disk' = [disk EXCEPT ![page[p].conn].rows = @ \cup {p}]
  /\ job' = [i \in Importers |->
       IF job[i].old = page[p].conn THEN [job[i] EXCEPT !.previous = @ \cup {p}] ELSE job[i]]
  /\ GiveBack(p)
  /\ UNCHANGED <<name, cached, exported, hollow, disturbed, bounds>>

\* A session that only read, or that failed; an export that raised.
Leave(p) ==
  /\ page[p].at \in {"open", "exporting", "copying", "emptied"}
  /\ GiveBack(p)
  /\ UNCHANGED <<name, disk, cached, job, exported, hollow, disturbed, bounds>>

\* export_bytes: get_engine() has returned the cached engine (of one it had to
\* make, see CreateEngine: the page that made it may leave and start here) ...
StartExport(p) ==
  /\ page[p].at = "idle"
  /\ cached
  /\ page' = [page EXCEPT ![p].at = "exporting"]
  /\ UNCHANGED <<name, disk, cached, pool, job, exported, hollow, disturbed, bounds>>

\* ... a file is made for the copy, and the database opened, by its path: between
\* the two renames of an import there is none, and connect makes an empty one ...
OpenExport(p) ==
  /\ page[p].at = "exporting"
  /\ Connect(Found)
  /\ page' = [page EXCEPT ![p] =
       [at |-> IF \E i \in Importers : job[i].at = "aside" THEN "emptied" ELSE "copying",
        conn |-> PathFile, pooled |-> FALSE]]
  /\ UNCHANGED <<cached, pool, job, exported, hollow, disturbed, bounds>>

\* ... and copied by the backup API, through the connection.
CopyExport(p) ==
  /\ page[p].at \in {"copying", "emptied"}
  /\ disk[page[p].conn].kind # "damaged"
  /\ exported' = disk[page[p].conn]
  /\ hollow' = (page[p].at = "emptied")
  /\ page' = [page EXCEPT ![p] = Closed]
  /\ UNCHANGED <<name, disk, cached, pool, job, disturbed, bounds>>

-----------------------------------------------------------------------------
(* Imports: _decode_envelope, _atomic_replace, _row_counts.                *)

\* "failed" raised before the second rename, "late" after it, "stranded" when the
\* first one could not be undone.
Ended == {"idle", "refused", "done", "failed", "late", "stranded", "killed"}
At(i, place) == job[i].at = place
Goto(i, place) == job' = [job EXCEPT ![i].at = place]

\* Fault: any payload passes for a database.
BeginAnything(i, u) ==
  /\ job[i].at \in Ended /\ cached /\ imports < MaxImports
  /\ imports' = imports + 1
  /\ job' = [job EXCEPT ![i] = [at |-> "decoded", upload |-> u, fd |-> None,
        moved |-> FALSE, old |-> name["db"], previous |-> Found.rows, reported |-> {},
        littered |-> FALSE]]
  /\ UNCHANGED <<name, disk, cached, pool, page, exported, hollow, disturbed, faults, crashes>>

\* The envelope is decoded and begins with SQLite's magic, or BackupError.  The
\* page with the button has shown the last sync before, so there is an engine.
Begin(i, u) ==
  /\ job[i].at \in Ended
  /\ cached
  /\ imports < MaxImports
  /\ imports' = imports + 1
  /\ job' = [job EXCEPT ![i] =
       [at |-> IF u.kind = "garbage" THEN "refused" ELSE "decoded",
        upload |-> u, fd |-> None, moved |-> FALSE, old |-> name["db"],
        previous |-> Found.rows, reported |-> {}, littered |-> FALSE]]
  /\ UNCHANGED <<name, disk, cached, pool, page, exported, hollow, disturbed, faults, crashes>>

\* write_bytes opens the temporary file, creating or truncating it ...
Truncate(i) ==
  /\ At(i, "decoded")
  /\ Room
  /\ LET f == IF name["tmp"] = None THEN Fresh ELSE name["tmp"] IN
       /\ name' = [name EXCEPT !["tmp"] = f]
       /\ disk' = [disk EXCEPT ![f] = Blank]
       /\ job' = [job EXCEPT ![i].at = "opened", ![i].fd = f]
  /\ UNCHANGED <<cached, pool, page, exported, hollow, disturbed, bounds>>

\* ... and writes the payload.
WriteTmp(i) ==
  /\ At(i, "opened")
  /\ disk' = [disk EXCEPT ![job[i].fd] = job[i].upload]
  /\ job' = [job EXCEPT ![i].at = "written", ![i].fd = None]
  /\ UNCHANGED <<name, cached, pool, page, exported, hollow, disturbed, bounds>>

\* integrity_check and the expected tables, of whatever is under the name.
Validate(i) ==
  /\ At(i, "written")
  /\ IF name["tmp"] = None
       THEN /\ Room
            /\ name' = [name EXCEPT !["tmp"] = Fresh]
            /\ disk' = [disk EXCEPT ![Fresh] = Blank]
            /\ Goto(i, "failing")
       ELSE /\ Goto(i, IF disk[name["tmp"]].kind \in HasTables THEN "valid" ELSE "failing")
            /\ UNCHANGED <<name, disk>>
  /\ UNCHANGED <<cached, pool, page, exported, hollow, disturbed, bounds>>

\* Fault: the engine stays in the cache.
ReleaseNothing(i) ==
  /\ At(i, "valid")
  /\ Goto(i, "released")
  /\ UNCHANGED <<name, disk, cached, pool, page, exported, hollow, disturbed, bounds>>

\* get_engine().dispose() and the caches cleared; sessions keep their connections.
ReleaseEngine(i) ==
  /\ At(i, "valid")
  /\ IF cached \/ Found.kind = "damaged" THEN UNCHANGED <<name, disk>> ELSE Connect(Created)
  /\ cached' = FALSE
  /\ pool' = <<>>
  /\ page' = [p \in Pages |-> [page[p] EXCEPT !.pooled = FALSE]]
  /\ Goto(i, "released")
  /\ UNCHANGED <<exported, hollow, disturbed, bounds>>

\* Fault: the live file is dropped instead of set aside.
MoveAsideDropping(i) ==
  /\ At(i, "released")
  /\ name' = [name EXCEPT !["db"] = None]
  /\ job' = [job EXCEPT ![i].at = "aside"]
  /\ UNCHANGED <<disk, cached, pool, page, exported, hollow, disturbed, bounds>>

\* os.replace(db_path, bak_path), if there is a database.
MoveAside(i) ==
  /\ At(i, "released")
  /\ job' = [job EXCEPT ![i].at = "aside", ![i].moved = name["db"] # None]
  /\ name' = IF name["db"] = None THEN name
             ELSE [name EXCEPT !["bak"] = name["db"], !["db"] = None]
  /\ UNCHANGED <<disk, cached, pool, page, exported, hollow, disturbed, bounds>>

\* os.replace(tmp_path, db_path).
MoveIn(i) ==
  /\ At(i, "aside")
  /\ name["tmp"] # None
  /\ name' = [name EXCEPT !["db"] = name["tmp"], !["tmp"] = None]
  /\ Goto(i, "swapped")
  /\ UNCHANGED <<disk, cached, pool, page, exported, hollow, disturbed, bounds>>

\* Why the second rename fails: there is nothing to move, or the call fails.
CannotMoveIn == (name["tmp"] = None /\ UNCHANGED faults) \/ Fault

\* Fault: the rename fails and nothing is rolled back.
MoveInFailsForGood(i) ==
  /\ At(i, "aside")
  /\ CannotMoveIn
  /\ Goto(i, "failing")
  /\ UNCHANGED <<name, disk, cached, pool, page, exported, hollow, disturbed, imports, crashes>>

\* It fails: the .bak is rolled back ...
MoveInFails(i) ==
  /\ At(i, "aside")
  /\ CannotMoveIn
  /\ job[i].moved => name["bak"] # None
  /\ name' = IF job[i].moved THEN [name EXCEPT !["db"] = name["bak"], !["bak"] = None]
                             ELSE name
  /\ Goto(i, "failing")
  /\ UNCHANGED <<disk, cached, pool, page, exported, hollow, disturbed, imports, crashes>>

\* ... or that fails too, for want of a .bak or because the call fails as well.
RollbackFails(i) ==
  /\ At(i, "aside")
  /\ job[i].moved
  /\ \/ name["bak"] = None /\ CannotMoveIn
     \/ name["tmp"] = None /\ Fault
     \/ faults + 2 <= MaxFaults /\ faults' = faults + 2
  /\ Goto(i, "stranding")
  /\ disturbed' = TRUE
  /\ UNCHANGED <<name, disk, cached, pool, page, exported, hollow, imports, crashes>>

\* An OSError elsewhere: opening, writing or reading the temporary file, the first
\* rename.
Fails(i) ==
  /\ job[i].at \in {"decoded", "opened", "written", "released"}
  /\ Fault
  /\ job' = [job EXCEPT ![i].at = "failing", ![i].fd = None]
  /\ UNCHANGED <<name, disk, cached, pool, page, exported, hollow, disturbed, imports, crashes>>

\* What an import does after the finally clause.
Onward(i) == CASE At(i, "swapped")   -> "cleaned"
               [] At(i, "failing")   -> "failed"
               [] At(i, "stranding") -> "stranded"
Finally(i) == job[i].at \in {"swapped", "failing", "stranding"}

\* Fault: the temporary file is only looked after when all went well.
CleanupAfterSuccess(i) ==
  /\ At(i, "swapped")
  /\ name' = [name EXCEPT !["tmp"] = None]
  /\ Goto(i, "cleaned")
  /\ UNCHANGED <<disk, cached, pool, page, exported, hollow, disturbed, bounds>>

\* The finally clause.
Cleanup(i) ==
  /\ Finally(i)
  /\ name' = [name EXCEPT !["tmp"] = None]
  /\ Goto(i, Onward(i))
  /\ UNCHANGED <<disk, cached, pool, page, exported, hollow, disturbed, bounds>>

\* The temporary file cannot be removed, and the import raises.
CleanupFails(i) ==
  /\ Finally(i)
  /\ name["tmp"] # None /\ Fault
  /\ job' = [job EXCEPT ![i].littered = TRUE,
                        ![i].at = IF At(i, "swapped") THEN "late" ELSE Onward(i)]
  /\ UNCHANGED <<name, disk, cached, pool, page, exported, hollow, disturbed, imports, crashes>>

\* get_engine() against the imported file; _row_counts calls it again.
Reopening(i) == At(i, "cleaned") \/ (At(i, "reopened") /\ ~cached)
Reinit(i) ==
  /\ Reopening(i)
  /\ IF cached THEN UNCHANGED <<name, disk, cached, pool>>
     ELSE /\ Found.kind # "damaged"
          /\ Connect(Created) /\ cached' = TRUE /\ pool' = <<PathFile>>
  /\ Goto(i, "reopened")
  /\ UNCHANGED <<page, exported, hollow, disturbed, bounds>>

\* It raises: create_all cannot read the file, or a call fails.
ReinitRaises(i) ==
  /\ Reopening(i) /\ ~cached
  /\ (Found.kind = "damaged" /\ UNCHANGED faults) \/ Fault
  /\ Goto(i, "late")
  /\ UNCHANGED <<name, disk, cached, pool, page, exported, hollow, disturbed, imports, crashes>>

\* _row_counts: a session of the cached engine, and what it sees.
CountSession ==
  IF pool # <<>> THEN pool' = Append(Tail(pool), Head(pool)) /\ UNCHANGED <<name, disk>>
                 ELSE Connect(Found) /\ pool' = <<PathFile>>
Seen == IF pool # <<>> THEN disk[Head(pool)] ELSE Found

\* The columns counted are there, in a mismatched file perhaps.
Count(i) ==
  /\ At(i, "reopened") /\ cached
  /\ Seen.kind \in HasTables
  /\ CountSession
  /\ job' = [job EXCEPT ![i].at = "done", ![i].reported = Seen.rows]
  /\ UNCHANGED <<cached, page, exported, hollow, disturbed, bounds>>

\* They are not, or a call fails: the import raises with the upload live.
CountRaises(i) ==
  /\ At(i, "reopened") /\ cached
  /\ (Seen.kind # "database" /\ UNCHANGED faults) \/ Fault
  /\ CountSession
  /\ Goto(i, "late")
  /\ UNCHANGED <<cached, page, exported, hollow, disturbed, imports, crashes>>

-----------------------------------------------------------------------------
\* The process dies and is started again: nothing but the files is left.
Kill ==
  /\ crashes < MaxCrashes
  /\ crashes' = crashes + 1
  /\ cached' = FALSE
  /\ pool' = <<>>
  /\ page' = [p \in Pages |-> Closed]
  /\ job' = [i \in Importers |->
       IF job[i].at \in Ended THEN job[i] ELSE [job[i] EXCEPT !.at = "killed", !.fd = None]]
  /\ disturbed' = (disturbed \/ \E i \in Importers : At(i, "aside"))
  /\ UNCHANGED <<name, disk, exported, hollow, imports, faults>>

PageStep(p) ==
  \/ CreateEngine(p) \/ CacheEngine(p) \/ Checkout(p)
  \/ BeginWrite(p) \/ Commit(p) \/ Leave(p)
  \/ StartExport(p) \/ OpenExport(p) \/ CopyExport(p)

ImportStep(i) ==
  \/ Truncate(i) \/ WriteTmp(i) \/ Validate(i) \/ Fails(i) \/ ReleaseEngine(i)
  \/ MoveAside(i) \/ MoveIn(i) \/ MoveInFails(i) \/ RollbackFails(i)
  \/ Cleanup(i) \/ CleanupFails(i) \/ Reinit(i) \/ ReinitRaises(i)
  \/ Count(i) \/ CountRaises(i)

Next ==
  \/ \E p \in Pages : PageStep(p)
  \/ \E i \in Importers : ImportStep(i) \/ \E u \in Uploads : Begin(i, u)
  \/ Kill

Spec == Init /\ [][Next]_vars

\* A thread of the process runs on; nothing is assumed of pages or failures.
FairSpec == Spec /\ \A i \in Importers : WF_vars(ImportStep(i))

-----------------------------------------------------------------------------
(* Properties.                                                             *)

\* The files, the caches, the sessions and the imports have their types; what
\* is on disk begins like a database, is empty, or is damaged.
Places == {"decoded", "opened", "written", "valid", "released", "aside", "swapped",
           "failing", "stranding", "cleaned", "reopened"} \cup Ended
Sessions == [at : {"idle", "creating", "open", "writing", "exporting", "copying", "emptied"},
             conn : Inodes \cup {None}, pooled : BOOLEAN]
Jobs == [at : Places, upload : Uploads \cup {Blank}, fd : Inodes \cup {None},
         moved : BOOLEAN, old : Inodes \cup {None}, previous : SUBSET Rows,
         reported : SUBSET Rows, littered : BOOLEAN]
TypeOK ==
  /\ name \in [Names -> Inodes \cup {None}]
  /\ disk \in [Inodes -> Content]
  /\ cached \in BOOLEAN
  /\ pool \in Seq(Inodes)
  /\ page \in [Pages -> Sessions]
  /\ job \in [Importers -> Jobs]
  /\ exported \in Content /\ hollow \in BOOLEAN
  /\ disturbed \in BOOLEAN
  /\ imports \in 0 .. MaxImports /\ faults \in 0 .. MaxFaults /\ crashes \in 0 .. MaxCrashes

\* The database that was live when an import began is under the name, with all
\* that was committed to it, before and since.
Keeps(n, i) ==
  \/ job[i].old = None
  \/ name[n] = job[i].old /\ job[i].previous \subseteq disk[job[i].old].rows

\* The upload is live in full, and what was live before is under .bak.
Swapped(i) ==
  /\ name["db"] # None
  /\ disk[name["db"]].kind \in HasTables /\ job[i].upload.rows \subseteq disk[name["db"]].rows
  /\ Keeps("bak", i)

\* An import that returned has swapped the databases in full.  One that raised has
\* left the live one alone, with all that was written to it meanwhile, even if a
\* rename failed; or, if it raised after the second rename, has swapped in full all
\* the same: get_engine() and _row_counts (backup.py:207, 96) see an upload with the
\* right tables but other columns only when it is live, against README.md:133 ("the
\* import is rejected (live DB untouched) if ... the schema doesn't match").  Where
\* even the rollback failed (backup.py:201) the old one is under .bak.  No temporary
\* file is left that could be removed.
EndedAllOrNothing ==
  \A i \in Importers :
    /\ At(i, "done") \/ At(i, "late") => Swapped(i)
    /\ At(i, "failed") \/ At(i, "refused") => Keeps("db", i)
    /\ At(i, "stranded") => Keeps("bak", i)
    /\ job[i].at \in {"done", "late", "failed", "stranded"} /\ ~job[i].littered =>
         name["tmp"] = None

\* Until the next import the database that was there before is still there, with
\* every row that was committed to it, live or as .bak, wherever the process was
\* killed ("so you can recover it manually", 4_Settings.py).
OldDatabaseKept ==
  \A i \in Importers : ~At(i, "idle") => Keeps("db", i) \/ Keeps("bak", i)

\* The cached engine has connections to the live database only, and the rows an
\* import counts are those of its upload, unless another thread filled the cache
\* during a swap.
EngineServesLive ==
  ~disturbed =>
    /\ \A i \in Importers : At(i, "done") => job[i].upload.rows \subseteq job[i].reported
    /\ \A k \in DOMAIN pool : pool[k] = name["db"]
    /\ \A p \in Pages : page[p].pooled => page[p].conn = name["db"]

\* An export holds a database that was live, whole, the old one or an upload, in
\* whatever order its steps and those of imports come.  There is one exception: if
\* the import moves the live file away between get_engine() and connect, which the
\* comment there means to exclude ("Ensure the live DB exists", backup.py:116), the
\* export is empty and nothing is raised (`hollow`).
ExportIsWhole ==
  ~disturbed /\ ~hollow =>
    /\ exported.kind \in HasTables
    /\ \/ OldRows \subseteq exported.rows
       \/ \E u \in Uploads : u.kind \in HasTables /\ u.rows \subseteq exported.rows

\* An import comes to an end.
ImportEnds == \A i \in Importers : job[i].at \notin Ended ~> job[i].at \in Ended

\* Claim (backup.py:91-92): "Either the swap completes in full or the live DB is
\* left untouched."
AllOrNothing ==
  \A i \in Importers : job[i].at \in Ended \ {"idle"} => Keeps("db", i) \/ Swapped(i)
=============================================================================
