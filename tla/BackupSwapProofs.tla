-------------------------- MODULE BackupSwapProofs --------------------------
(***************************************************************************)
(* What the import of backup.py guarantees, for any number of pages, rows  *)
(* and inodes, and wherever the process is killed.                         *)
(***************************************************************************)
EXTENDS BackupSwap, SequenceTheorems, TLAPS

USE DEF Names

(* What TypeOK does not say: an open session and an export that has opened *)
(* the database have their connection, the file being written is open, its *)
(* payload begins like a database.                                         *)
Unconnected == {"idle", "exporting"}
Sound ==
  /\ \A p \in Pages : page[p].at \notin Unconnected \/ page[p].pooled =>
       page[p].conn \in Inodes
  /\ \A i \in Importers :
       /\ job[i].at \in {"decoded", "opened"} => job[i].upload \in Content
       /\ job[i].at = "opened" => job[i].fd \in Inodes

IInv == TypeOK /\ Sound

(* A fresh inode is an inode nobody refers to.                             *)
LEMMA FreshIsNew ==
  ASSUME Room
  PROVE  /\ Fresh \in Inodes
         /\ \A n \in Names : Fresh # name[n]
  BY DEF Room, Fresh, Used

(* What a connection finds and makes is a file's content.                  *)
LEMMA ConnectTypes ==
  ASSUME TypeOK, NEW content \in Content, Connect(content)
  PROVE  /\ PathFile \in Inodes
         /\ name' \in [Names -> Inodes \cup {None}]
         /\ disk' \in [Inodes -> Content]
<1>1. PathFile \in Inodes
  BY FreshIsNew DEF Connect, PathFile, TypeOK
<1>2. QED BY <1>1 DEF Connect, TypeOK

LEMMA FoundTypes ==
  ASSUME TypeOK
  PROVE  /\ Found \in Content
         /\ Created \in Content
         /\ Blank \in Content
<1>1. Blank \in Content
  BY DEF Blank, Content
<1>2. Found \in Content
  BY <1>1 DEF Found, TypeOK
<1>3. Created \in Content
  BY <1>2 DEF Created, Database, Content
<1>4. QED BY <1>1, <1>2, <1>3

(* One session or one import changes: the table of them keeps its type.     *)
LEMMA SessionsTyped ==
  ASSUME page \in [Pages -> Sessions], NEW p \in Pages, NEW session \in Sessions,
         page' = [page EXCEPT ![p] = session]
  PROVE  page' \in [Pages -> Sessions]
  OBVIOUS

LEMMA JobsTyped ==
  ASSUME job \in [Importers -> Jobs], NEW i \in Importers, NEW work \in Jobs,
         job' = [job EXCEPT ![i] = work]
  PROVE  job' \in [Importers -> Jobs]
  OBVIOUS

LEMMA GotoTyped ==
  ASSUME job \in [Importers -> Jobs], NEW i \in Importers, NEW place \in Places,
         Goto(i, place)
  PROVE  /\ job' \in [Importers -> Jobs]
         /\ job'[i] = [job[i] EXCEPT !.at = place]
         /\ \A j \in Importers : j # i => job'[j] = job[j]
<1>1. [job[i] EXCEPT !.at = place] \in Jobs
  BY DEF Jobs
<1>2. job' = [job EXCEPT ![i] = [job[i] EXCEPT !.at = place]]
  BY DEF Goto
<1>3. QED BY <1>1, <1>2

(* The invariant holds when the program is started.                        *)
LEMMA InitEstablishes == Init => IInv
<1> SUFFICES ASSUME Init PROVE IInv
  OBVIOUS
<1>1. Original \in Inodes
  BY BackupAssumption DEF Original
<1>2. Database(OldRows) \in Content /\ Blank \in Content
  BY BackupAssumption DEF Database, Blank, Content
<1>3. page \in [Pages -> Sessions] /\ job \in [Importers -> Jobs]
  BY DEF Init, Closed, Sessions, Jobs, Places, Ended
<1>4. pool \in Seq(Inodes)
  BY EmptySeq DEF Init
<1>5. TypeOK
  <2>1. name \in [Names -> Inodes \cup {None}] /\ disk \in [Inodes -> Content]
    BY <1>1, <1>2 DEF Init
  <2>2. cached \in BOOLEAN /\ disturbed \in BOOLEAN /\ exported \in Content /\ hollow \in BOOLEAN
    BY <1>2 DEF Init
  <2>3. imports \in 0 .. MaxImports /\ faults \in 0 .. MaxFaults /\ crashes \in 0 .. MaxCrashes
    BY BackupAssumption DEF Init
  <2>4. QED BY <1>3, <1>4, <2>1, <2>2, <2>3 DEF TypeOK
<1>6. Sound
  BY DEF Init, Sound, Unconnected, Closed
<1>7. QED BY <1>5, <1>6 DEF IInv

(* Taking a connection back keeps the pool a sequence of inodes.           *)
LEMMA GiveBackTyped ==
  ASSUME IInv, NEW p \in Pages, GiveBack(p)
  PROVE  /\ pool' \in Seq(Inodes)
         /\ page' \in [Pages -> Sessions]
         /\ \A q \in Pages : page'[q] = IF q = p THEN Closed ELSE page[q]
<1>1. pool \in Seq(Inodes) /\ page \in [Pages -> Sessions]
  BY DEF IInv, TypeOK
<1>2. page[p].pooled => Append(pool, page[p].conn) \in Seq(Inodes)
  BY <1>1 DEF IInv, Sound
<1>3. Closed \in Sessions
  BY DEF Closed, Sessions
<1>4. page' = [page EXCEPT ![p] = Closed]
  BY DEF GiveBack
<1>5. QED BY <1>1, <1>2, <1>3, <1>4 DEF GiveBack

(* Every step of a page keeps the invariant.                               *)
LEMMA PagePreserves ==
  ASSUME IInv, NEW p \in Pages, PageStep(p)
  PROVE  IInv'
<1>0. Found \in Content /\ Created \in Content
  BY FoundTypes DEF IInv
<1>a. page \in [Pages -> Sessions] /\ TypeOK /\ Sound
  BY DEF IInv, TypeOK
<1>1. CASE CreateEngine(p)
  <2> DEFINE session == [at |-> "creating", conn |-> PathFile, pooled |-> FALSE]
  <2>1. /\ PathFile \in Inodes
        /\ name' \in [Names -> Inodes \cup {None}]
        /\ disk' \in [Inodes -> Content]
    BY <1>a, <1>0, <1>1, ConnectTypes DEF CreateEngine
  <2>2. session \in Sessions
    BY <2>1 DEF Sessions
  <2>3. page' = [page EXCEPT ![p] = session]
    BY <1>1 DEF CreateEngine
  <2>4. page' \in [Pages -> Sessions]
    BY <1>a, <2>2, <2>3, SessionsTyped
  <2>5. TypeOK'
    BY <1>1, <1>a, <2>1, <2>4 DEF CreateEngine, TypeOK, bounds
  <2>6. Sound'
    BY <1>1, <1>a, <2>1, <2>3 DEF CreateEngine, Sound, Unconnected
  <2>7. QED BY <2>5, <2>6 DEF IInv
<1>2. CASE CacheEngine(p)
  <2> DEFINE session == [page[p] EXCEPT !.at = "open", !.pooled = ~cached]
  <2>1. session \in Sessions /\ session.conn = page[p].conn
    BY <1>a DEF Sessions, TypeOK
  <2>2. page' = [page EXCEPT ![p] = session]
    BY <1>2 DEF CacheEngine
  <2>3. page' \in [Pages -> Sessions]
    BY <1>a, <2>1, <2>2, SessionsTyped
  <2>4. disturbed' \in BOOLEAN /\ cached' \in BOOLEAN
    BY <1>2 DEF CacheEngine
  <2>5. TypeOK'
    BY <1>2, <1>a, <2>3, <2>4 DEF CacheEngine, TypeOK, bounds
  <2>6. page[p].conn \in Inodes
    BY <1>2, <1>a DEF CacheEngine, Sound, Unconnected
  <2>7. Sound'
    BY <1>2, <1>a, <2>1, <2>2, <2>6 DEF CacheEngine, Sound, Unconnected
  <2>8. QED BY <2>5, <2>7 DEF IInv
<1>3. CASE Checkout(p)
  <2> DEFINE conn == IF pool # <<>> THEN Head(pool) ELSE PathFile
             session == [at |-> "open", conn |-> conn, pooled |-> TRUE]
  <2>1. /\ conn \in Inodes
        /\ name' \in [Names -> Inodes \cup {None}]
        /\ disk' \in [Inodes -> Content]
        /\ pool' \in Seq(Inodes)
    <3>1. CASE pool # <<>>
      <4>1. Head(pool) \in Inodes /\ Tail(pool) \in Seq(Inodes)
        BY <1>a, <3>1 DEF TypeOK
      <4>2. pool' = Tail(pool) /\ UNCHANGED <<name, disk>>
        BY <1>3, <3>1 DEF Checkout
      <4>3. QED BY <1>a, <3>1, <4>1, <4>2 DEF TypeOK
    <3>2. CASE pool = <<>>
      <4>1. /\ PathFile \in Inodes
            /\ name' \in [Names -> Inodes \cup {None}]
            /\ disk' \in [Inodes -> Content]
        BY <1>0, <1>a, <1>3, <3>2, ConnectTypes DEF Checkout
      <4>2. QED BY <1>3, <1>a, <3>2, <4>1 DEF Checkout, TypeOK
    <3>3. QED BY <3>1, <3>2
  <2>2. session \in Sessions
    BY <2>1 DEF Sessions
  <2>3. page' = [page EXCEPT ![p] = session]
    BY <1>3 DEF Checkout
  <2>4. page' \in [Pages -> Sessions]
    BY <1>a, <2>2, <2>3, SessionsTyped
  <2>5. TypeOK'
    BY <1>3, <1>a, <2>1, <2>4 DEF Checkout, TypeOK, bounds
  <2>6. UNCHANGED job
    BY <1>3 DEF Checkout
  <2>7. Sound'
    BY <1>a, <2>1, <2>3, <2>6 DEF Sound, Unconnected
  <2>8. QED BY <2>5, <2>7 DEF IInv
<1>4. CASE BeginWrite(p)
  <2> DEFINE session == [page[p] EXCEPT !.at = "writing"]
  <2>1. session \in Sessions /\ session.conn = page[p].conn
    BY <1>a DEF Sessions
  <2>2. page' = [page EXCEPT ![p] = session]
    BY <1>4 DEF BeginWrite
  <2>3. page' \in [Pages -> Sessions]
    BY <1>a, <2>1, <2>2, SessionsTyped
  <2>4. TypeOK'
    BY <1>4, <1>a, <2>3 DEF BeginWrite, TypeOK, bounds
  <2>5. page[p].conn \in Inodes
    BY <1>4, <1>a DEF BeginWrite, Sound, Unconnected
  <2>6. Sound'
    BY <1>4, <1>a, <2>1, <2>2, <2>5 DEF BeginWrite, Sound, Unconnected
  <2>7. QED BY <2>4, <2>6 DEF IInv
<1>5. CASE Commit(p)
  <2>1. /\ pool' \in Seq(Inodes)
        /\ page' \in [Pages -> Sessions]
        /\ \A q \in Pages : page'[q] = IF q = p THEN Closed ELSE page[q]
    BY <1>5, GiveBackTyped DEF Commit
  <2>2. p \in Rows /\ page[p].conn \in Inodes
    BY <1>5, <1>a, BackupAssumption DEF Commit, Sound, Unconnected
  <2>3. disk' \in [Inodes -> Content]
    <3>1. disk[page[p].conn] \in Content
      BY <1>a, <2>2 DEF TypeOK
    <3>2. [disk[page[p].conn] EXCEPT !.rows = @ \cup {p}] \in Content
      BY <2>2, <3>1 DEF Content
    <3>3. disk' = [disk EXCEPT ![page[p].conn] = [disk[page[p].conn] EXCEPT !.rows = @ \cup {p}]]
      BY <1>5 DEF Commit
    <3>4. QED BY <1>a, <3>2, <3>3 DEF TypeOK
  <2>4. ASSUME NEW i \in Importers
        PROVE  job'[i] \in Jobs /\ job'[i].at = job[i].at
               /\ job'[i].upload = job[i].upload /\ job'[i].fd = job[i].fd
    <3>1. job[i] \in Jobs
      BY <1>a DEF TypeOK
    <3>2. [job[i] EXCEPT !.previous = @ \cup {p}] \in Jobs
      BY <2>2, <3>1 DEF Jobs
    <3>3. job'[i] = IF job[i].old = page[p].conn THEN [job[i] EXCEPT !.previous = @ \cup {p}]
                    ELSE job[i]
      BY <1>5 DEF Commit
    <3>4. QED BY <3>1, <3>2, <3>3 DEF Jobs
  <2>5. job' \in [Importers -> Jobs]
    BY <1>5, <2>4 DEF Commit
  <2>6. TypeOK'
    BY <1>5, <1>a, <2>1, <2>3, <2>5 DEF Commit, TypeOK, bounds
  <2>7. Sound'
    BY <1>a, <2>1, <2>4 DEF Closed, Sound, Unconnected
  <2>8. QED BY <2>6, <2>7 DEF IInv
<1>6. CASE Leave(p)
  <2>1. /\ pool' \in Seq(Inodes)
        /\ page' \in [Pages -> Sessions]
        /\ \A q \in Pages : page'[q] = IF q = p THEN Closed ELSE page[q]
    BY <1>6, GiveBackTyped DEF Leave
  <2>2. TypeOK'
    BY <1>6, <1>a, <2>1 DEF Leave, TypeOK, bounds
  <2>3. Sound'
    BY <1>6, <1>a, <2>1 DEF Leave, Closed, Sound, Unconnected
  <2>4. QED BY <2>2, <2>3 DEF IInv
<1>7. CASE StartExport(p)
  <2> DEFINE session == [page[p] EXCEPT !.at = "exporting"]
  <2>1. session \in Sessions /\ session.conn = page[p].conn /\ session.at = "exporting"
        /\ session.pooled = page[p].pooled
    BY <1>a DEF Sessions
  <2>2. page' = [page EXCEPT ![p] = session]
    BY <1>7 DEF StartExport
  <2>3. page' \in [Pages -> Sessions]
    BY <1>a, <2>1, <2>2, SessionsTyped
  <2>4. TypeOK'
    BY <1>7, <1>a, <2>3 DEF StartExport, TypeOK, bounds
  <2>5. Sound'
    BY <1>7, <1>a, <2>1, <2>2 DEF StartExport, Sound, Unconnected
  <2>6. QED BY <2>4, <2>5 DEF IInv
<1>8. CASE OpenExport(p)
  <2> DEFINE place == IF \E i \in Importers : job[i].at = "aside" THEN "emptied" ELSE "copying"
             session == [at |-> place, conn |-> PathFile, pooled |-> FALSE]
  <2>1. /\ PathFile \in Inodes
        /\ name' \in [Names -> Inodes \cup {None}]
        /\ disk' \in [Inodes -> Content]
    BY <1>a, <1>0, <1>8, ConnectTypes DEF OpenExport
  <2>2. session \in Sessions
    BY <2>1 DEF Sessions
  <2>3. page' = [page EXCEPT ![p] = session]
    BY <1>8 DEF OpenExport
  <2>4. page' \in [Pages -> Sessions]
    BY <1>a, <2>2, <2>3, SessionsTyped
  <2>5. TypeOK'
    BY <1>8, <1>a, <2>1, <2>4 DEF OpenExport, TypeOK, bounds
  <2>6. Sound'
    BY <1>8, <1>a, <2>1, <2>3 DEF OpenExport, Sound, Unconnected
  <2>7. QED BY <2>5, <2>6 DEF IInv
<1>9. CASE CopyExport(p)
  <2>1. page' = [page EXCEPT ![p] = Closed] /\ Closed \in Sessions
    BY <1>9 DEF CopyExport, Closed, Sessions
  <2>2. page' \in [Pages -> Sessions]
    BY <1>a, <2>1, SessionsTyped
  <2>3. page[p].conn \in Inodes
    BY <1>9, <1>a DEF CopyExport, Sound, Unconnected
  <2>4. exported' \in Content /\ hollow' \in BOOLEAN
    BY <1>9, <1>a, <2>3 DEF CopyExport, TypeOK
  <2>5. TypeOK'
    BY <1>9, <1>a, <2>2, <2>4 DEF CopyExport, TypeOK, bounds
  <2>6. Sound'
    BY <1>9, <1>a, <2>1 DEF CopyExport, Closed, Sound, Unconnected
  <2>7. QED BY <2>5, <2>6 DEF IInv
<1>10. QED
  BY <1>1, <1>2, <1>3, <1>4, <1>5, <1>6, <1>7, <1>8, <1>9 DEF PageStep

(* Every step of an import keeps the invariant.                            *)
LEMMA ImportPreserves ==
  ASSUME IInv, NEW i \in Importers, ImportStep(i)
  PROVE  IInv'
<1>0. Found \in Content /\ Created \in Content /\ Blank \in Content
  BY FoundTypes DEF IInv
<1>a. job \in [Importers -> Jobs] /\ TypeOK /\ Sound
  BY DEF IInv, TypeOK
<1>b. \A place \in Places : Goto(i, place) =>
        /\ job' \in [Importers -> Jobs]
        /\ job'[i] = [job[i] EXCEPT !.at = place]
        /\ \A j \in Importers : j # i => job'[j] = job[j]
  BY <1>a, GotoTyped
<1>c. ASSUME NEW work \in Jobs, job' = [job EXCEPT ![i] = work]
      PROVE  /\ job' \in [Importers -> Jobs]
             /\ job'[i] = work
             /\ \A j \in Importers : j # i => job'[j] = job[j]
  BY <1>a, <1>c, JobsTyped
<1>p. /\ {"decoded", "opened", "written", "valid", "released"} \subseteq Places
      /\ {"aside", "swapped", "failing", "stranding", "cleaned", "reopened"} \subseteq Places
      /\ {"idle", "refused", "done", "failed", "late", "stranded", "killed"} \subseteq Places
  BY DEF Places, Ended
<1>1. CASE Truncate(i)
  <2> DEFINE f == IF name["tmp"] = None THEN Fresh ELSE name["tmp"]
             work == [job[i] EXCEPT !.at = "opened", !.fd = f]
  <2>1. f \in Inodes
    BY <1>1, <1>a, FreshIsNew DEF Truncate, TypeOK
  <2>2. work \in Jobs /\ work.at = "opened" /\ work.fd = f /\ work.upload = job[i].upload
    BY <1>a, <1>p, <2>1 DEF Jobs
  <2>3. job' = [job EXCEPT ![i] = work]
    BY <1>1 DEF Truncate
  <2>4. /\ job' \in [Importers -> Jobs]
        /\ job'[i] = work
        /\ \A j \in Importers : j # i => job'[j] = job[j]
    BY <1>c, <2>2, <2>3
  <2>5. TypeOK'
    BY <1>0, <1>1, <1>a, <2>1, <2>4 DEF Truncate, TypeOK, bounds
  <2>6. Sound'
    BY <1>1, <1>a, <2>1, <2>2, <2>4 DEF Truncate, At, Sound
  <2>7. QED BY <2>5, <2>6 DEF IInv
<1>2. CASE WriteTmp(i)
  <2> DEFINE work == [job[i] EXCEPT !.at = "written", !.fd = None]
  <2>1. work \in Jobs /\ work.at = "written"
    BY <1>a, <1>p DEF Jobs
  <2>2. job' = [job EXCEPT ![i] = work]
    BY <1>2 DEF WriteTmp
  <2>3. /\ job' \in [Importers -> Jobs]
        /\ job'[i] = work
        /\ \A j \in Importers : j # i => job'[j] = job[j]
    BY <1>c, <2>1, <2>2
  <2>4. job[i].upload \in Content
    BY <1>2, <1>a DEF WriteTmp, At, Sound
  <2>5. TypeOK'
    BY <1>2, <1>a, <2>3, <2>4 DEF WriteTmp, TypeOK, bounds
  <2>6. Sound'
    BY <1>2, <1>a, <2>1, <2>3 DEF WriteTmp, Sound
  <2>7. QED BY <2>5, <2>6 DEF IInv
<1>d. ASSUME NEW place \in Places \ {"decoded", "opened"}, Goto(i, place), UNCHANGED page
      PROVE  Sound'
  <2>1. job'[i] = [job[i] EXCEPT !.at = place] /\ \A j \in Importers : j # i => job'[j] = job[j]
    BY <1>b, <1>d
  <2>2. job[i] \in Jobs
    BY <1>a
  <2>3. job'[i].at = place
    BY <2>1, <2>2 DEF Jobs
  <2>4. QED BY <1>a, <1>d, <2>1, <2>3 DEF Sound
<1>3. CASE Validate(i)
  <2>1. PICK place \in {"valid", "failing"} : Goto(i, place)
    BY <1>3 DEF Validate
  <2>2. name' \in [Names -> Inodes \cup {None}] /\ disk' \in [Inodes -> Content]
    BY <1>0, <1>3, <1>a, FreshIsNew DEF Validate, TypeOK
  <2>3. TypeOK'
    BY <1>3, <1>a, <1>b, <1>p, <2>1, <2>2 DEF Validate, TypeOK, bounds
  <2>4. Sound'
    BY <1>3, <1>d, <1>p, <2>1 DEF Validate
  <2>5. QED BY <2>3, <2>4 DEF IInv
<1>4. CASE ReleaseEngine(i)
  <2>1. name' \in [Names -> Inodes \cup {None}] /\ disk' \in [Inodes -> Content]
    BY <1>0, <1>4, <1>a, ConnectTypes DEF ReleaseEngine, TypeOK
  <2>2. Goto(i, "released")
    BY <1>4 DEF ReleaseEngine
  <2>3. /\ page' \in [Pages -> Sessions]
        /\ \A p \in Pages : /\ page'[p].at = page[p].at /\ page'[p].conn = page[p].conn
                             /\ page'[p].pooled = FALSE
    BY <1>4, <1>a DEF ReleaseEngine, TypeOK, Sessions
  <2>4. pool' \in Seq(Inodes) /\ cached' \in BOOLEAN
    BY <1>4, EmptySeq DEF ReleaseEngine
  <2>5. TypeOK'
    BY <1>4, <1>a, <1>b, <1>p, <2>1, <2>2, <2>3, <2>4 DEF ReleaseEngine, TypeOK, bounds
  <2>6. Sound'
    <3>1. /\ job[i] \in Jobs /\ job'[i] = [job[i] EXCEPT !.at = "released"]
          /\ \A j \in Importers : j # i => job'[j] = job[j]
      BY <1>a, <1>b, <1>p, <2>2
    <3>2. job'[i].at = "released"
      BY <3>1 DEF Jobs
    <3>3. ASSUME NEW p \in Pages, page'[p].at \notin Unconnected PROVE page'[p].conn \in Inodes
      BY <1>a, <2>3, <3>3 DEF Sound
    <3>4. QED BY <1>a, <2>3, <3>1, <3>2, <3>3 DEF Sound, Unconnected
  <2>7. QED BY <2>5, <2>6 DEF IInv
<1>5. CASE MoveAside(i)
  <2> DEFINE work == [job[i] EXCEPT !.at = "aside", !.moved = name["db"] # None]
  <2>1. work \in Jobs /\ work.at = "aside"
    BY <1>a, <1>p DEF Jobs
  <2>2. job' = [job EXCEPT ![i] = work]
    BY <1>5 DEF MoveAside
  <2>3. /\ job' \in [Importers -> Jobs]
        /\ job'[i] = work
        /\ \A j \in Importers : j # i => job'[j] = job[j]
    BY <1>c, <2>1, <2>2
  <2>4. TypeOK'
    BY <1>5, <1>a, <2>3 DEF MoveAside, TypeOK, bounds
  <2>5. Sound'
    BY <1>5, <1>a, <2>1, <2>3 DEF MoveAside, Sound
  <2>6. QED BY <2>4, <2>5 DEF IInv
<1>6. CASE MoveIn(i)
  <2>1. TypeOK'
    BY <1>6, <1>a, <1>b, <1>p DEF MoveIn, TypeOK, bounds
  <2>2. Sound'
    BY <1>6, <1>d, <1>p DEF MoveIn
  <2>3. QED BY <2>1, <2>2 DEF IInv
<1>7. CASE Cleanup(i)
  <2>1. PICK place \in {"cleaned", "failed", "stranded"} : Goto(i, place)
    BY <1>7 DEF Cleanup, Finally, Onward, At
  <2>2. TypeOK'
    BY <1>7, <1>a, <1>b, <1>p, <2>1 DEF Cleanup, TypeOK, bounds
  <2>3. Sound'
    BY <1>7, <1>d, <1>p, <2>1 DEF Cleanup
  <2>4. QED BY <2>2, <2>3 DEF IInv
<1>8. CASE Reinit(i)
  <2>1. /\ name' \in [Names -> Inodes \cup {None}]
        /\ disk' \in [Inodes -> Content]
        /\ cached' \in BOOLEAN
        /\ pool' \in Seq(Inodes)
    <3>1. CASE cached
      BY <1>8, <1>a, <3>1 DEF Reinit, TypeOK
    <3>2. CASE ~cached
      <4>1. Connect(Created) /\ cached' = TRUE /\ pool' = <<PathFile>>
        BY <1>8, <3>2 DEF Reinit
      <4>2. QED BY <1>0, <1>a, <4>1, ConnectTypes
    <3>3. QED BY <3>1, <3>2
  <2>2. Goto(i, "reopened")
    BY <1>8 DEF Reinit
  <2>3. TypeOK'
    BY <1>8, <1>a, <1>b, <1>p, <2>1, <2>2 DEF Reinit, TypeOK, bounds
  <2>4. Sound'
    BY <1>8, <1>d, <1>p, <2>2 DEF Reinit
  <2>5. QED BY <2>3, <2>4 DEF IInv
<1>s. ASSUME CountSession
      PROVE  /\ Seen.rows \in SUBSET Rows
             /\ name' \in [Names -> Inodes \cup {None}]
             /\ disk' \in [Inodes -> Content]
             /\ pool' \in Seq(Inodes)
  <2>1. CASE pool # <<>>
    <3>1. Head(pool) \in Inodes /\ Append(Tail(pool), Head(pool)) \in Seq(Inodes)
      BY <1>a, <2>1 DEF TypeOK
    <3>2. disk[Head(pool)].rows \in SUBSET Rows
      BY <1>a, <3>1 DEF TypeOK, Content
    <3>3. pool' = Append(Tail(pool), Head(pool)) /\ UNCHANGED <<name, disk>>
      BY <1>s, <2>1 DEF CountSession
    <3>4. QED BY <1>a, <2>1, <3>1, <3>2, <3>3 DEF TypeOK, Seen
  <2>2. CASE pool = <<>>
    <3>1. Connect(Found) /\ pool' = <<PathFile>>
      BY <1>s, <2>2 DEF CountSession
    <3>2. Seen.rows \in SUBSET Rows
      BY <1>0, <2>2 DEF Seen, Content
    <3>3. QED BY <1>0, <1>a, <3>1, <3>2, ConnectTypes
  <2>3. QED BY <2>1, <2>2
<1>9. CASE Count(i)
  <2> DEFINE work == [job[i] EXCEPT !.at = "done", !.reported = Seen.rows]
  <2>1. /\ Seen.rows \in SUBSET Rows
        /\ name' \in [Names -> Inodes \cup {None}]
        /\ disk' \in [Inodes -> Content]
        /\ pool' \in Seq(Inodes)
    BY <1>9, <1>s DEF Count
  <2>2. work \in Jobs /\ work.at = "done"
    BY <1>a, <1>p, <2>1 DEF Jobs
  <2>3. job' = [job EXCEPT ![i] = work]
    BY <1>9 DEF Count
  <2>4. /\ job' \in [Importers -> Jobs]
        /\ job'[i] = work
        /\ \A j \in Importers : j # i => job'[j] = job[j]
    BY <1>c, <2>2, <2>3
  <2>5. TypeOK'
    BY <1>9, <1>a, <2>1, <2>4 DEF Count, TypeOK, bounds
  <2>6. Sound'
    BY <1>9, <1>a, <2>2, <2>4 DEF Count, Sound
  <2>7. QED BY <2>5, <2>6 DEF IInv
<1>f. Fault \/ UNCHANGED faults => faults' \in 0 .. MaxFaults
  BY <1>a, BackupAssumption DEF Fault, TypeOK
<1>10. CASE MoveInFails(i)
  <2>1. faults' \in 0 .. MaxFaults
    BY <1>10, <1>f DEF MoveInFails, CannotMoveIn
  <2>2. TypeOK'
    BY <1>10, <1>a, <1>b, <1>p, <2>1 DEF MoveInFails, TypeOK
  <2>3. Sound'
    BY <1>10, <1>d, <1>p DEF MoveInFails
  <2>4. QED BY <2>2, <2>3 DEF IInv
<1>11. CASE RollbackFails(i)
  <2>1. faults' \in 0 .. MaxFaults
    BY <1>11, <1>a, <1>f, BackupAssumption DEF RollbackFails, CannotMoveIn, TypeOK
  <2>2. TypeOK'
    BY <1>11, <1>a, <1>b, <1>p, <2>1 DEF RollbackFails, TypeOK
  <2>3. Sound'
    BY <1>11, <1>d, <1>p DEF RollbackFails
  <2>4. QED BY <2>2, <2>3 DEF IInv
<1>12. CASE Fails(i)
  <2> DEFINE work == [job[i] EXCEPT !.at = "failing", !.fd = None]
  <2>1. work \in Jobs /\ work.at = "failing"
    BY <1>a, <1>p DEF Jobs
  <2>2. job' = [job EXCEPT ![i] = work]
    BY <1>12 DEF Fails
  <2>3. /\ job' \in [Importers -> Jobs]
        /\ job'[i] = work
        /\ \A j \in Importers : j # i => job'[j] = job[j]
    BY <1>c, <2>1, <2>2
  <2>4. faults' \in 0 .. MaxFaults
    BY <1>12, <1>f DEF Fails
  <2>5. TypeOK'
    BY <1>12, <1>a, <2>3, <2>4 DEF Fails, TypeOK
  <2>6. Sound'
    BY <1>12, <1>a, <2>1, <2>3 DEF Fails, Sound
  <2>7. QED BY <2>5, <2>6 DEF IInv
<1>13. CASE CleanupFails(i)
  <2>1. PICK place \in {"late", "failed", "stranded"} :
          job' = [job EXCEPT ![i] = [job[i] EXCEPT !.littered = TRUE, !.at = place]]
    BY <1>13 DEF CleanupFails, Finally, Onward, At
  <2> DEFINE work == [job[i] EXCEPT !.littered = TRUE, !.at = place]
  <2>2. work \in Jobs /\ work.at = place
    BY <1>a, <1>p, <2>1 DEF Jobs
  <2>3. /\ job' \in [Importers -> Jobs]
        /\ job'[i] = work
        /\ \A j \in Importers : j # i => job'[j] = job[j]
    BY <1>c, <2>1, <2>2
  <2>4. faults' \in 0 .. MaxFaults
    BY <1>13, <1>f DEF CleanupFails
  <2>5. TypeOK'
    BY <1>13, <1>a, <2>3, <2>4 DEF CleanupFails, TypeOK
  <2>6. Sound'
    BY <1>13, <1>a, <2>1, <2>2, <2>3 DEF CleanupFails, Sound
  <2>7. QED BY <2>5, <2>6 DEF IInv
<1>14. CASE ReinitRaises(i)
  <2>1. faults' \in 0 .. MaxFaults
    BY <1>14, <1>f DEF ReinitRaises
  <2>2. TypeOK'
    BY <1>14, <1>a, <1>b, <1>p, <2>1 DEF ReinitRaises, TypeOK
  <2>3. Sound'
    BY <1>14, <1>d, <1>p DEF ReinitRaises
  <2>4. QED BY <2>2, <2>3 DEF IInv
<1>15. CASE CountRaises(i)
  <2>1. faults' \in 0 .. MaxFaults
    BY <1>15, <1>f DEF CountRaises
  <2>2. /\ name' \in [Names -> Inodes \cup {None}]
        /\ disk' \in [Inodes -> Content]
        /\ pool' \in Seq(Inodes)
    BY <1>15, <1>s DEF CountRaises
  <2>3. TypeOK'
    BY <1>15, <1>a, <1>b, <1>p, <2>1, <2>2 DEF CountRaises, TypeOK
  <2>4. Sound'
    BY <1>15, <1>d, <1>p DEF CountRaises
  <2>5. QED BY <2>3, <2>4 DEF IInv
<1>16. QED
  BY <1>1, <1>2, <1>3, <1>4, <1>5, <1>6, <1>7, <1>8, <1>9, <1>10, <1>11, <1>12, <1>13,
     <1>14, <1>15 DEF ImportStep

(* Every step keeps the invariant.                                         *)
LEMMA StepPreserves == IInv /\ [Next]_vars => IInv'
<1> SUFFICES ASSUME IInv, [Next]_vars PROVE IInv'
  OBVIOUS
<1>a. job \in [Importers -> Jobs] /\ TypeOK /\ Sound
  BY DEF IInv, TypeOK
<1>1. CASE \E i \in Importers, u \in Uploads : Begin(i, u)
  <2> PICK i \in Importers, u \in Uploads : Begin(i, u)
    BY <1>1
  <2> DEFINE work == [at |-> IF u.kind = "garbage" THEN "refused" ELSE "decoded",
                      upload |-> u, fd |-> None, moved |-> FALSE, old |-> name["db"],
                      previous |-> Found.rows, reported |-> {}, littered |-> FALSE]
  <2>1. Found.rows \in SUBSET Rows /\ name["db"] \in Inodes \cup {None}
    BY <1>a, FoundTypes DEF Content, TypeOK
  <2>2. u.kind # "garbage" => u \in Content
    BY BackupAssumption DEF Content
  <2>3. work \in Jobs
    BY <2>1 DEF Jobs, Places, Ended
  <2>4. job' = [job EXCEPT ![i] = work]
    BY DEF Begin
  <2>5. job' \in [Importers -> Jobs]
    BY <1>a, <2>3, <2>4, JobsTyped
  <2>6. imports' \in 0 .. MaxImports
    BY <1>a, BackupAssumption DEF Begin, TypeOK
  <2>7. TypeOK'
    BY <1>a, <2>5, <2>6 DEF Begin, TypeOK
  <2>8. Sound'
    BY <1>a, <2>2, <2>4 DEF Begin, Sound
  <2>9. QED BY <2>7, <2>8 DEF IInv
<1>2. CASE Kill
  <2>1. page' \in [Pages -> Sessions] /\ \A p \in Pages : page'[p].at = "idle" /\ ~page'[p].pooled
    BY <1>2 DEF Kill, Closed, Sessions
  <2>2. job' \in [Importers -> Jobs]
    <3>1. ASSUME NEW i \in Importers
          PROVE  [job[i] EXCEPT !.at = "killed", !.fd = None] \in Jobs
      <4>1. job[i] \in Jobs
        BY <1>a
      <4> QED
        BY <4>1 DEF Jobs, Places, Ended
    <3> QED
      BY <1>2, <1>a, <3>1 DEF Kill
  <2>3. pool' \in Seq(Inodes) /\ cached' \in BOOLEAN
    BY <1>2, EmptySeq DEF Kill
  <2>4. disturbed' \in BOOLEAN
    BY <1>2 DEF Kill
  <2>5. crashes' \in 0 .. MaxCrashes
    <3>1. crashes < MaxCrashes /\ crashes' = crashes + 1
      BY <1>2 DEF Kill
    <3>2. crashes \in 0 .. MaxCrashes /\ MaxCrashes \in Nat
      BY <1>a, BackupAssumption DEF TypeOK
    <3>3. QED BY <3>1, <3>2
  <2>6. TypeOK'
    BY <1>2, <1>a, <2>1, <2>2, <2>3, <2>4, <2>5 DEF Kill, TypeOK
  <2>7. \A i \in Importers : job'[i] = job[i] \/ job'[i].at = "killed"
    BY <1>2, <1>a DEF Kill, Jobs
  <2>8. Sound'
    BY <1>a, <2>1, <2>7 DEF Sound, Unconnected
  <2>9. QED BY <2>6, <2>8 DEF IInv
<1>3. CASE UNCHANGED vars
  BY <1>3 DEF vars, bounds, IInv, TypeOK, Sound
<1>4. QED
  BY <1>1, <1>2, <1>3, PagePreserves, ImportPreserves DEF Next

(* The variables keep their types, for any number of importers and pages.  *)
THEOREM TypeCorrect == Spec => []TypeOK
<1>1. IInv => TypeOK
  BY DEF IInv
<1>2. QED BY <1>1, InitEstablishes, StepPreserves, PTL DEF Spec
-----------------------------------------------------------------------------
(* Imports one at a time: nothing is lost.                                 *)

OneImporter == \A i, j \in Importers : i = j

(* Different names are different files.                                    *)
Apart ==
  /\ name["db"] # None => name["db"] \notin {name["bak"], name["tmp"]}
  /\ name["bak"] # None => name["bak"] # name["tmp"]

(* Under this name is the upload, whole.                                   *)
Uploaded(n, i) ==
  /\ name[n] # None
  /\ disk[name[n]].kind \in HasTables /\ job[i].upload.rows \subseteq disk[name[n]].rows

(* Where the previous database and the upload are, place by place.         *)
Kept(i) ==
  LET at == job[i].at IN
  /\ at \in {"decoded", "opened", "written", "valid", "released", "failing",
             "refused", "failed"} => Keeps("db", i)
  /\ at \in {"aside", "swapped", "cleaned", "reopened", "done", "late",
             "stranding", "stranded"} => Keeps("bak", i)
  /\ at = "killed" => Keeps("db", i) \/ Keeps("bak", i)
  /\ at = "aside" => job[i].moved \/ job[i].old = None
  /\ at = "opened" => name["tmp"] # None /\ job[i].fd = name["tmp"]
  /\ at = "written" => /\ name["tmp"] # None
                       /\ disk[name["tmp"]].kind = job[i].upload.kind
                       /\ job[i].upload.rows \subseteq disk[name["tmp"]].rows
  /\ at \in {"valid", "released", "aside"} => Uploaded("tmp", i)
  /\ at \in {"swapped", "cleaned", "reopened", "done", "late"} => Uploaded("db", i)
  /\ at \in {"cleaned", "reopened"} => name["tmp"] = None
  /\ at \in {"done", "late", "failed", "stranded"} /\ ~job[i].littered => name["tmp"] = None

SwapInv == IInv /\ Apart /\ \A i \in Importers : Kept(i)

(* No name is taken away and no file loses rows; a file without tables may *)
(* get them.                                                               *)
Steady ==
  /\ \A n \in Names : name[n] # None =>
       /\ name'[n] = name[n]
       /\ disk[name[n]].rows \subseteq disk'[name[n]].rows
       /\ \/ disk'[name[n]].kind = disk[name[n]].kind
          \/ n = "db" /\ disk[name[n]].kind = "blank"
  /\ name["tmp"] = None => name'["tmp"] = None

(* An import stays where it is; more may be committed to the old database. *)
Stays(i) ==
  /\ job'[i].at = job[i].at /\ job'[i].upload = job[i].upload /\ job'[i].fd = job[i].fd
  /\ job'[i].moved = job[i].moved /\ job'[i].old = job[i].old
  /\ job'[i].littered = job[i].littered
  /\ job[i].old # None =>
       job'[i].previous \subseteq job[i].previous \cup disk'[job[i].old].rows

(* The three parts of Kept under a steady step.                            *)
LEMMA SteadyKeepsOld ==
  ASSUME NEW n \in Names, NEW i \in Importers, Keeps(n, i), Steady,
         job'[i].old = job[i].old,
         job[i].old # None =>
           job'[i].previous \subseteq job[i].previous \cup disk'[job[i].old].rows
  PROVE  Keeps(n, i)'
  BY DEF Keeps, Steady

LEMMA SteadyKeepsUpload ==
  ASSUME NEW n \in Names, NEW i \in Importers, Uploaded(n, i), Steady,
         job'[i].upload = job[i].upload
  PROVE  Uploaded(n, i)'
  BY DEF Uploaded, Steady, HasTables

LEMMA SteadyKeeps ==
  ASSUME NEW i \in Importers, Kept(i), Steady, Stays(i)
  PROVE  Kept(i)'
<1>1. \A n \in Names : (Keeps(n, i) => Keeps(n, i)') /\ (Uploaded(n, i) => Uploaded(n, i)')
  BY SteadyKeepsOld, SteadyKeepsUpload DEF Stays
<1>2. job'[i].at = "opened" => name'["tmp"] # None /\ job'[i].fd = name'["tmp"]
  BY DEF Kept, Stays, Steady
<1>3. job'[i].at = "written" =>
        /\ name'["tmp"] # None
        /\ disk'[name'["tmp"]].kind = job'[i].upload.kind
        /\ job'[i].upload.rows \subseteq disk'[name'["tmp"]].rows
  BY DEF Kept, Stays, Steady
<1>4. job'[i].at = "aside" => job'[i].moved \/ job'[i].old = None
  BY DEF Kept, Stays
<1>5. /\ job'[i].at \in {"cleaned", "reopened"} => name'["tmp"] = None
      /\ job'[i].at \in {"done", "late", "failed", "stranded"} /\ ~job'[i].littered =>
           name'["tmp"] = None
  BY DEF Kept, Stays, Steady
<1>6. QED BY <1>1, <1>2, <1>3, <1>4, <1>5 DEF Kept, Stays

(* Connecting to the path of the database disturbs no other file, and none *)
(* that is in use, unless it is the live one and has no tables.            *)
LEMMA ConnectIsSteady ==
  ASSUME TypeOK, Apart, NEW content \in {Found, Created}, Connect(content)
  PROVE  /\ Steady
         /\ Apart'
         /\ name'["tmp"] = name["tmp"]
         /\ name["db"] # None => name' = name
         /\ \A f \in Used \ {None} : disk[f].kind # "blank" => disk'[f] = disk[f]
<1>0. name \in [Names -> Inodes \cup {None}] /\ disk \in [Inodes -> Content] /\ None \notin Inodes
  BY BackupAssumption DEF TypeOK
<1>1. /\ name' = [name EXCEPT !["db"] = PathFile]
      /\ disk' = [disk EXCEPT ![PathFile] = content]
      /\ Room
  BY DEF Connect
<1>2. CASE name["db"] = None
  <2>1. /\ PathFile \in Inodes /\ PathFile \notin Used
        /\ \A n \in Names : PathFile # name[n]
    BY <1>1, <1>2, FreshIsNew DEF PathFile, Room, Fresh
  <2>2. /\ name'["db"] = PathFile
        /\ name'["bak"] = name["bak"] /\ name'["tmp"] = name["tmp"]
        /\ \A f : f # PathFile => disk'[f] = disk[f]
    BY <1>0, <1>1, <2>1
  <2>3. Steady
    BY <1>0, <1>2, <2>1, <2>2 DEF Steady
  <2>4. Apart'
    BY <1>0, <2>1, <2>2 DEF Apart
  <2>5. QED BY <1>2, <2>1, <2>2, <2>3, <2>4
<1>3. CASE name["db"] # None
  <2>1. PathFile = name["db"] /\ Found = disk[name["db"]] /\ PathFile \in Inodes
    BY <1>0, <1>3 DEF PathFile, Found
  <2>2. name' = name
    BY <1>0, <1>1, <2>1
  <2>3. /\ \A f : f # name["db"] => disk'[f] = disk[f]
        /\ disk'[name["db"]] = content
    BY <1>0, <1>1, <2>1
  <2>4. \/ content = Found
        \/ Found.kind = "blank" /\ content.kind = "database" /\ content.rows = Found.rows
    BY DEF Created, Database
  <2>5. Steady
    BY <1>0, <1>3, <2>1, <2>2, <2>3, <2>4 DEF Steady, Apart
  <2>6. Apart'
    BY <2>2 DEF Apart
  <2>7. \A f \in Used \ {None} : disk[f].kind # "blank" => disk'[f] = disk[f]
    BY <2>1, <2>3, <2>4
  <2>8. QED BY <2>2, <2>5, <2>6, <2>7
<1>4. QED BY <1>2, <1>3

LEMMA InitSwap == Init => SwapInv
<1> SUFFICES ASSUME Init PROVE SwapInv
  OBVIOUS
<1>1. IInv
  BY InitEstablishes
<1>2. Original \in Inodes /\ Original # None
  BY BackupAssumption DEF Original
<1>3. Apart
  BY <1>2 DEF Init, Apart
<1>4. \A i \in Importers : Kept(i)
  BY DEF Init, Kept
<1>5. QED BY <1>1, <1>3, <1>4 DEF SwapInv

(* What a page does to the files is steady, and no import moves by it.     *)
LEMMA PageIsSteady ==
  ASSUME SwapInv, NEW p \in Pages, PageStep(p)
  PROVE  /\ Steady /\ Apart'
         /\ \A i \in Importers : Stays(i) /\ job'[i].reported = job[i].reported
<1>0. TypeOK /\ Sound /\ Apart
  BY DEF SwapInv, IInv
<1>a. UNCHANGED job => \A i \in Importers : Stays(i) /\ job'[i].reported = job[i].reported
  BY DEF Stays
<1>1. CASE (\E content \in {Found, Created} : Connect(content)) /\ UNCHANGED job
  BY <1>0, <1>1, <1>a, ConnectIsSteady
<1>2. CASE UNCHANGED <<name, disk, job>>
  BY <1>0, <1>2, <1>a DEF Steady, Apart
<1>3. CASE Commit(p)
  <2>1. /\ UNCHANGED name
        /\ page[p].conn \in Inodes
        /\ disk' = [disk EXCEPT ![page[p].conn].rows = @ \cup {p}]
    BY <1>0, <1>3 DEF Commit, Sound, Unconnected
  <2>2. /\ \A f \in Inodes : disk'[f].kind = disk[f].kind /\ disk[f].rows \subseteq disk'[f].rows
        /\ p \in disk'[page[p].conn].rows
    BY <1>0, <2>1 DEF TypeOK, Content
  <2>3. ASSUME NEW i \in Importers PROVE Stays(i) /\ job'[i].reported = job[i].reported
    <3>1. job[i] \in Jobs
      BY <1>0 DEF TypeOK
    <3>2. job'[i] = IF job[i].old = page[p].conn THEN [job[i] EXCEPT !.previous = @ \cup {p}]
                    ELSE job[i]
      BY <1>3 DEF Commit
    <3>3. QED BY <2>2, <3>1, <3>2 DEF Stays, Jobs
  <2>4. Steady /\ Apart'
    BY <1>0, <2>1, <2>2 DEF Steady, Apart, TypeOK
  <2>5. QED BY <2>3, <2>4
<1>4. QED
  BY <1>1, <1>2, <1>3
     DEF PageStep, CreateEngine, CacheEngine, Checkout, BeginWrite, Leave, StartExport,
         OpenExport, CopyExport

(* One import, step by step.                                               *)
LEMMA ImportKeeps ==
  ASSUME SwapInv, NEW i \in Importers, ImportStep(i)
  PROVE  Apart' /\ Kept(i)'
<1>0. TypeOK /\ Sound /\ Apart /\ Kept(i)
  BY DEF SwapInv, IInv
<1>1. /\ name \in [Names -> Inodes \cup {None}] /\ None \notin Inodes
      /\ disk \in [Inodes -> Content]
      /\ job \in [Importers -> Jobs] /\ job[i] \in Jobs
  BY <1>0, BackupAssumption DEF TypeOK
<1>2. \A place : Goto(i, place) => job'[i] = [job[i] EXCEPT !.at = place]
  BY <1>1 DEF Goto
<1>3. CASE Truncate(i)
  <2> DEFINE f == IF name["tmp"] = None THEN Fresh ELSE name["tmp"]
  <2>1. /\ f \in Inodes
        /\ name["db"] # f
        /\ name["bak"] # f
    BY <1>0, <1>1, <1>3, FreshIsNew DEF Truncate, Apart
  <2>2. /\ name' = [name EXCEPT !["tmp"] = f]
        /\ disk' = [disk EXCEPT ![f] = Blank]
        /\ job'[i] = [job[i] EXCEPT !.at = "opened", !.fd = f]
        /\ job[i].at = "decoded"
    BY <1>1, <1>3 DEF Truncate, At
  <2>3. Apart'
    BY <1>0, <1>1, <2>1, <2>2 DEF Apart
  <2>4. Keeps("db", i)'
    BY <1>0, <1>1, <2>1, <2>2 DEF Kept, Keeps, Jobs
  <2>5. Kept(i)'
    BY <1>1, <2>1, <2>2, <2>4 DEF Kept, Jobs
  <2>6. QED BY <2>3, <2>5
<1>4. CASE WriteTmp(i)
  <2>1. /\ UNCHANGED name
        /\ name["tmp"] \in Inodes
        /\ disk' = [disk EXCEPT ![name["tmp"]] = job[i].upload]
        /\ job'[i] = [job[i] EXCEPT !.at = "written", !.fd = None]
        /\ job[i].at = "opened"
    BY <1>0, <1>1, <1>4 DEF WriteTmp, At, Kept
  <2>2. name["db"] # None => name["db"] # name["tmp"]
    BY <1>0 DEF Apart
  <2>3. Keeps("db", i)'
    BY <1>0, <1>1, <2>1, <2>2 DEF Kept, Keeps, Jobs
  <2>4. QED BY <1>0, <1>1, <2>1, <2>3 DEF Apart, Kept, Jobs
<1>5. CASE Validate(i)
  <2>1. name["tmp"] # None /\ job[i].at = "written"
    BY <1>0, <1>5 DEF Validate, At, Kept
  <2>2. /\ UNCHANGED <<name, disk>>
        /\ job'[i] = [job[i] EXCEPT !.at =
             IF disk[name["tmp"]].kind \in HasTables THEN "valid" ELSE "failing"]
    BY <1>2, <1>5, <2>1 DEF Validate
  <2>3. Keeps("db", i)'
    BY <1>0, <1>1, <2>1, <2>2 DEF Kept, Keeps, Jobs
  <2>4. job'[i].at = "valid" => Uploaded("tmp", i)'
    BY <1>0, <1>1, <2>1, <2>2 DEF Kept, Uploaded, HasTables, Jobs
  <2>5. QED BY <1>0, <1>1, <2>2, <2>3, <2>4 DEF Apart, Kept, Jobs
<1>s. ASSUME NEW place \in {"released", "reopened", "late", "done"},
             job'[i].at = place, job'[i].upload = job[i].upload, job'[i].old = job[i].old,
             job'[i].previous = job[i].previous, Steady,
             IF place = "released" THEN job[i].at = "valid"
                                   ELSE job[i].at \in {"cleaned", "reopened"}
      PROVE  Kept(i)'
  <2>1. \A n \in Names : (Keeps(n, i) => Keeps(n, i)') /\ (Uploaded(n, i) => Uploaded(n, i)')
    BY <1>s, SteadyKeepsOld, SteadyKeepsUpload
  <2>2. CASE place = "released"
    BY <1>0, <1>s, <2>1, <2>2 DEF Kept
  <2>3. CASE place # "released"
    <3>1. name'["tmp"] = None
      BY <1>0, <1>s, <2>3 DEF Kept, Steady
    <3>2. QED BY <1>0, <1>s, <2>1, <2>3, <3>1 DEF Kept
  <2>4. QED BY <2>2, <2>3
<1>u. UNCHANGED <<name, disk>> => Steady /\ Apart'
  BY <1>0 DEF Steady, Apart
<1>6. CASE ReleaseEngine(i)
  <2>1. /\ job[i].at = "valid"
        /\ job'[i] = [job[i] EXCEPT !.at = "released"]
        /\ UNCHANGED <<name, disk>> \/ Connect(Created)
    BY <1>2, <1>6 DEF ReleaseEngine, At
  <2>2. Steady /\ Apart'
    BY <1>0, <1>u, <2>1, ConnectIsSteady
  <2>3. QED BY <1>1, <1>s, <2>1, <2>2 DEF Jobs
<1>7. CASE MoveAside(i)
  <2>1. job[i].at = "released" /\ UNCHANGED disk /\ Keeps("db", i) /\ Uploaded("tmp", i)
    BY <1>0, <1>7 DEF MoveAside, At, Kept
  <2>2. CASE name["db"] # None
    <3>1. /\ name' = [name EXCEPT !["bak"] = name["db"], !["db"] = None]
          /\ job'[i] = [job[i] EXCEPT !.at = "aside", !.moved = TRUE]
      BY <1>1, <1>7, <2>2 DEF MoveAside
    <3>2. name'["db"] = None /\ name'["bak"] = name["db"] /\ name'["tmp"] = name["tmp"]
      BY <1>1, <3>1
    <3>3. Keeps("bak", i)' /\ Uploaded("tmp", i)'
      BY <1>1, <2>1, <3>1, <3>2 DEF Keeps, Uploaded, Jobs
    <3>4. QED BY <1>0, <1>1, <2>2, <3>1, <3>2, <3>3 DEF Apart, Kept, Jobs
  <2>3. CASE name["db"] = None
    <3>1. /\ name' = name
          /\ job'[i] = [job[i] EXCEPT !.at = "aside", !.moved = FALSE]
      BY <1>1, <1>7, <2>3 DEF MoveAside
    <3>2. job[i].old = None
      BY <2>1, <2>3 DEF Keeps
    <3>3. Keeps("bak", i)' /\ Uploaded("tmp", i)'
      BY <1>1, <2>1, <3>1, <3>2 DEF Keeps, Uploaded, Jobs
    <3>4. QED BY <1>0, <1>1, <3>1, <3>2, <3>3 DEF Apart, Kept, Jobs
  <2>4. QED BY <2>2, <2>3
<1>8. CASE MoveIn(i)
  <2>1. /\ job[i].at = "aside"
        /\ name' = [name EXCEPT !["db"] = name["tmp"], !["tmp"] = None]
        /\ UNCHANGED disk
        /\ job'[i] = [job[i] EXCEPT !.at = "swapped"]
    BY <1>2, <1>8 DEF MoveIn, At
  <2>2. name'["db"] = name["tmp"] /\ name'["bak"] = name["bak"] /\ name'["tmp"] = None
    BY <1>1, <2>1
  <2>3. Keeps("bak", i)' /\ Uploaded("db", i)'
    BY <1>0, <1>1, <2>1, <2>2 DEF Kept, Keeps, Uploaded, Jobs
  <2>4. QED BY <1>0, <1>1, <2>1, <2>2, <2>3 DEF Apart, Kept, Jobs
<1>9. CASE Cleanup(i)
  <2>1. /\ name' = [name EXCEPT !["tmp"] = None]
        /\ UNCHANGED disk
        /\ \/ job[i].at = "swapped" /\ job'[i] = [job[i] EXCEPT !.at = "cleaned"]
           \/ job[i].at = "failing" /\ job'[i] = [job[i] EXCEPT !.at = "failed"]
           \/ job[i].at = "stranding" /\ job'[i] = [job[i] EXCEPT !.at = "stranded"]
    BY <1>2, <1>9 DEF Cleanup, Finally, Onward, At
  <2>2. name'["db"] = name["db"] /\ name'["bak"] = name["bak"] /\ name'["tmp"] = None
    BY <1>1, <2>1
  <2>3. /\ Keeps("db", i) => Keeps("db", i)'
        /\ Keeps("bak", i) => Keeps("bak", i)'
        /\ Uploaded("db", i) => Uploaded("db", i)'
    BY <1>1, <2>1, <2>2 DEF Keeps, Uploaded, Jobs
  <2>4. QED BY <1>0, <1>1, <2>1, <2>2, <2>3 DEF Apart, Kept, Jobs
<1>10. CASE CleanupFails(i)
  <2>1. /\ UNCHANGED <<name, disk>>
        /\ \/ job[i].at = "swapped" /\ job'[i] = [job[i] EXCEPT !.littered = TRUE, !.at = "late"]
           \/ job[i].at = "failing" /\ job'[i] = [job[i] EXCEPT !.littered = TRUE, !.at = "failed"]
           \/ job[i].at = "stranding" /\
                job'[i] = [job[i] EXCEPT !.littered = TRUE, !.at = "stranded"]
    BY <1>1, <1>10 DEF CleanupFails, Finally, Onward, At
  <2>2. /\ Keeps("db", i) => Keeps("db", i)'
        /\ Keeps("bak", i) => Keeps("bak", i)'
        /\ Uploaded("db", i) => Uploaded("db", i)'
    BY <1>1, <2>1 DEF Keeps, Uploaded, Jobs
  <2>3. QED BY <1>0, <1>1, <2>1, <2>2 DEF Apart, Kept, Jobs
<1>11. CASE Reinit(i) \/ ReinitRaises(i)
  <2>1. /\ job[i].at \in {"cleaned", "reopened"}
        /\ UNCHANGED <<name, disk>> \/ Connect(Created)
        /\ \/ job'[i] = [job[i] EXCEPT !.at = "reopened"]
           \/ job'[i] = [job[i] EXCEPT !.at = "late"]
    BY <1>2, <1>11 DEF Reinit, ReinitRaises, Reopening, At
  <2>2. Steady /\ Apart'
    BY <1>0, <1>u, <2>1, ConnectIsSteady
  <2>3. QED BY <1>1, <1>s, <2>1, <2>2 DEF Jobs
<1>12. CASE Count(i) \/ CountRaises(i)
  <2>1. job[i].at = "reopened" /\ (UNCHANGED <<name, disk>> \/ Connect(Found))
    BY <1>12 DEF Count, CountRaises, CountSession, At
  <2>2. Steady /\ Apart'
    BY <1>0, <1>u, <2>1, ConnectIsSteady
  <2>3. \/ job'[i] = [job[i] EXCEPT !.at = "late"]
        \/ \E rows : job'[i] = [job[i] EXCEPT !.at = "done", !.reported = rows]
    BY <1>1, <1>2, <1>12 DEF Count, CountRaises
  <2>4. QED BY <1>1, <1>s, <2>1, <2>2, <2>3 DEF Jobs
<1>13. CASE MoveInFails(i)
  <2>1. /\ job[i].at = "aside" /\ UNCHANGED disk
        /\ job'[i] = [job[i] EXCEPT !.at = "failing"]
        /\ Keeps("bak", i)
    BY <1>0, <1>2, <1>13 DEF MoveInFails, At, Kept
  <2>2. CASE job[i].moved
    <3>1. name["bak"] # None /\ name' = [name EXCEPT !["db"] = name["bak"], !["bak"] = None]
      BY <1>13, <2>2 DEF MoveInFails
    <3>2. name'["db"] = name["bak"] /\ name'["bak"] = None /\ name'["tmp"] = name["tmp"]
      BY <1>1, <3>1
    <3>3. Keeps("db", i)'
      BY <1>1, <2>1, <3>2 DEF Keeps, Jobs
    <3>4. QED BY <1>0, <1>1, <2>1, <3>1, <3>2, <3>3 DEF Apart, Kept, Jobs
  <2>3. CASE ~job[i].moved
    <3>1. name' = name /\ job[i].old = None
      BY <1>0, <1>13, <2>1, <2>3 DEF MoveInFails, Kept
    <3>2. Keeps("db", i)'
      BY <1>1, <2>1, <3>1 DEF Keeps, Jobs
    <3>3. QED BY <1>0, <1>1, <2>1, <3>1, <3>2 DEF Apart, Kept, Jobs
  <2>4. QED BY <2>2, <2>3
<1>14. CASE RollbackFails(i)
  <2>1. /\ job[i].at = "aside" /\ UNCHANGED <<name, disk>>
        /\ job'[i] = [job[i] EXCEPT !.at = "stranding"]
    BY <1>2, <1>14 DEF RollbackFails, At
  <2>2. Keeps("bak", i)'
    BY <1>0, <1>1, <2>1 DEF Kept, Keeps, Jobs
  <2>3. QED BY <1>0, <1>1, <2>1, <2>2 DEF Apart, Kept, Jobs
<1>15. CASE Fails(i)
  <2>1. /\ job[i].at \in {"decoded", "opened", "written", "released"}
        /\ UNCHANGED <<name, disk>>
        /\ job'[i] = [job[i] EXCEPT !.at = "failing", !.fd = None]
    BY <1>1, <1>15 DEF Fails
  <2>2. Keeps("db", i)'
    BY <1>0, <1>1, <2>1 DEF Kept, Keeps, Jobs
  <2>3. QED BY <1>0, <1>1, <2>1, <2>2 DEF Apart, Kept, Jobs
<1>16. QED
  BY <1>3, <1>4, <1>5, <1>6, <1>7, <1>8, <1>9, <1>10, <1>11, <1>12, <1>13, <1>14, <1>15
     DEF ImportStep

(* Every step keeps the previous database where Kept says.                 *)
LEMMA StepKeeps ==
  ASSUME OneImporter, SwapInv, [Next]_vars
  PROVE  SwapInv'
<1>0. IInv /\ TypeOK /\ Apart /\ \A i \in Importers : Kept(i)
  BY DEF SwapInv, IInv
<1>1. IInv'
  BY <1>0, StepPreserves
<1>2. ASSUME NEW p \in Pages, PageStep(p) PROVE SwapInv'
  BY <1>0, <1>1, <1>2, PageIsSteady, SteadyKeeps DEF SwapInv
<1>3. ASSUME NEW i \in Importers, ImportStep(i) PROVE SwapInv'
  <2>1. Apart' /\ Kept(i)'
    BY <1>3, ImportKeeps
  <2>2. \A j \in Importers : j = i
    BY DEF OneImporter
  <2>3. \A j \in Importers : Kept(j)'
    BY <2>1, <2>2
  <2>4. QED BY <1>1, <2>1, <2>3 DEF SwapInv
<1>4. ASSUME NEW i \in Importers, NEW u \in Uploads, Begin(i, u)
      PROVE  SwapInv'
  <2>1. UNCHANGED <<name, disk>>
    BY <1>4 DEF Begin
  <2>2. /\ job'[i].at \in {"decoded", "refused"}
        /\ job'[i].old = name["db"] /\ job'[i].previous = Found.rows
    BY <1>0, <1>4 DEF Begin, TypeOK
  <2>3. Keeps("db", i)'
    BY <2>1, <2>2 DEF Keeps, Found
  <2>4. Kept(i)'
    BY <2>2, <2>3 DEF Kept
  <2>5. \A j \in Importers : Kept(j)'
    <3>1. \A j \in Importers : j = i
      BY DEF OneImporter
    <3>2. QED BY <2>4, <3>1
  <2>6. Apart'
    BY <1>0, <2>1 DEF Apart
  <2>7. QED BY <1>1, <2>5, <2>6 DEF SwapInv
<1>5. CASE Kill
  <2>1. UNCHANGED <<name, disk>>
    BY <1>5 DEF Kill
  <2>2. ASSUME NEW i \in Importers PROVE Kept(i)'
    <3>1. Kept(i) /\ job[i] \in Jobs
      BY <1>0 DEF TypeOK
    <3>2. job'[i] = IF job[i].at \in Ended THEN job[i]
                    ELSE [job[i] EXCEPT !.at = "killed", !.fd = None]
      BY <1>5 DEF Kill
    <3>3. CASE job[i].at \in Ended
      <4>1. Steady /\ Stays(i)
        BY <2>1, <3>2, <3>3 DEF Steady, Stays
      <4>2. QED BY <3>1, <4>1, SteadyKeeps
    <3>4. CASE job[i].at \notin Ended
      <4>1. Keeps("db", i) \/ Keeps("bak", i)
        BY <3>1, <3>4 DEF Kept, Jobs, Places, Ended
      <4>2. /\ job'[i].at = "killed" /\ job'[i].old = job[i].old
            /\ job'[i].previous = job[i].previous
        BY <3>1, <3>2, <3>4 DEF Jobs
      <4>3. Keeps("db", i)' \/ Keeps("bak", i)'
        BY <2>1, <4>1, <4>2 DEF Keeps
      <4>4. QED BY <4>2, <4>3 DEF Kept
    <3>5. QED BY <3>3, <3>4
  <2>3. Apart'
    BY <1>0, <2>1 DEF Apart
  <2>4. QED BY <1>1, <2>2, <2>3 DEF SwapInv
<1>6. CASE UNCHANGED vars
  <2>1. UNCHANGED <<name, disk, job>>
    BY <1>6 DEF vars
  <2>2. Steady /\ Apart' /\ \A i \in Importers : Stays(i)
    BY <1>0, <2>1 DEF Apart, Steady, Stays
  <2>3. QED BY <1>0, <1>1, <2>2, SteadyKeeps DEF SwapInv
<1>7. QED
  BY <1>2, <1>3, <1>4, <1>5, <1>6 DEF Next

(* With imports one at a time, the database that was there before, with    *)
(* every row committed to it, before the import began and during it, is    *)
(* not lost before the next import: it is live or under .bak, wherever the *)
(* process was killed and whichever call failed, the rollback's included.  *)
THEOREM KeepsTheOldDatabase ==
  ASSUME OneImporter
  PROVE  Spec => []OldDatabaseKept
<1>1. SwapInv => OldDatabaseKept
  <2> SUFFICES ASSUME SwapInv, NEW i \in Importers, ~At(i, "idle")
               PROVE  Keeps("db", i) \/ Keeps("bak", i)
    BY DEF OldDatabaseKept
  <2>1. Kept(i) /\ job[i].at \in Places \ {"idle"}
    BY DEF SwapInv, IInv, TypeOK, Jobs, At
  <2>2. QED BY <2>1 DEF Kept, Places, Ended
<1>2. SwapInv /\ [Next]_vars => SwapInv'
  BY StepKeeps
<1>3. QED BY <1>1, <1>2, InitSwap, PTL DEF Spec

(* With imports one at a time, an import that returned, or raised after    *)
(* the second rename (its clean-up, get_engine() or _row_counts failed,    *)
(* for the upload's columns perhaps), has put the upload in place whole    *)
(* and kept the previous database as .bak; one that raised before it has   *)
(* left the live database alone, with every row committed meanwhile, and   *)
(* one whose rollback failed has it under .bak.                            *)
THEOREM SwapsInFullOrNotAtAll ==
  ASSUME OneImporter
  PROVE  Spec => []EndedAllOrNothing
<1>1. SwapInv => EndedAllOrNothing
  BY DEF SwapInv, Kept, Uploaded, Swapped, EndedAllOrNothing, At
<1>2. SwapInv /\ [Next]_vars => SwapInv'
  BY StepKeeps
<1>3. QED BY <1>1, <1>2, InitSwap, PTL DEF Spec

-----------------------------------------------------------------------------
(* The engine and the exports, while nobody fills the cache in a swap.     *)

Whole(content) ==
  /\ content.kind \in HasTables
  /\ \/ OldRows \subseteq content.rows
     \/ \E u \in Uploads : u.kind \in HasTables /\ u.rows \subseteq content.rows
WholeAt(n) == name[n] # None /\ Whole(disk[name[n]])

(* The live file and those that take its place are the old database or an  *)
(* upload, with what was written to them since.                            *)
Line(i) ==
  /\ At(i, "aside") => job[i].moved /\ WholeAt("bak")
  /\ job[i].at \in {"valid", "released", "aside"} => WholeAt("tmp")
Lineage ==
  /\ (\A i \in Importers : ~At(i, "aside")) => WholeAt("db")
  /\ \A i \in Importers : Line(i)

(* Without a cached engine there is no pool, and no session to go back to  *)
(* it; nor has a page that is idle, makes an engine or exports.            *)
Unpooled == {"idle", "creating", "exporting", "copying", "emptied"}
Pooled ==
  /\ ~cached => pool = <<>> /\ \A p \in Pages : ~page[p].pooled
  /\ \A p \in Pages : page[p].at \in Unpooled => ~page[p].pooled

(* The connections of the engine are to the live file, and in a swap there *)
(* is no engine.                                                           *)
Connected ==
  /\ Swapping => ~cached
  /\ \A k \in DOMAIN pool : pool[k] = name["db"]
  /\ \A p \in Pages : page[p].pooled => page[p].conn = name["db"]

Counted == \A i \in Importers : At(i, "done") => job[i].upload.rows \subseteq job[i].reported

(* An export that opened the database outside a swap copies a whole file,  *)
(* whatever names the file is given since; it is not one an import writes. *)
Copies ==
  \A p \in Pages : page[p].at = "copying" =>
    Whole(disk[page[p].conn]) /\ page[p].conn # name["tmp"]

EngineInv ==
  /\ SwapInv /\ Pooled
  /\ ~disturbed =>
       Lineage /\ Connected /\ Counted /\ Copies /\ (~hollow => Whole(exported))

LEMMA WholeSteady ==
  ASSUME NEW n \in Names, WholeAt(n), Steady
  PROVE  WholeAt(n)'
  BY DEF WholeAt, Whole, Steady, HasTables

(* While an engine is cached the live file is there and whole, and opening *)
(* another connection changes no file.                                     *)
LEMMA LiveIsWhole ==
  ASSUME TypeOK, WholeAt("db")
  PROVE  /\ PathFile = name["db"] /\ Found = disk[name["db"]] /\ Whole(Found)
         /\ Created = Found
         /\ Connect(Found) => UNCHANGED <<name, disk>>
<1>1. name["db"] # None /\ PathFile = name["db"] /\ Found = disk[name["db"]]
  BY DEF WholeAt, PathFile, Found
<1>2. Whole(Found) /\ Created = Found
  BY <1>1 DEF WholeAt, Whole, HasTables, Created
<1>3. ASSUME Connect(Found) PROVE UNCHANGED <<name, disk>>
  <2>1. name \in [Names -> Inodes \cup {None}] /\ disk \in [Inodes -> Content]
    BY DEF TypeOK
  <2>2. /\ name' = [name EXCEPT !["db"] = name["db"]]
        /\ disk' = [disk EXCEPT ![name["db"]] = disk[name["db"]]]
    BY <1>1, <1>3 DEF Connect
  <2>3. QED BY <2>1, <2>2
<1>4. QED BY <1>1, <1>2, <1>3

LEMMA CachedIsWhole ==
  ASSUME Lineage, Connected, cached
  PROVE  WholeAt("db")
  BY DEF Connected, Swapping, Lineage, At

LEMMA InitEngine == Init => EngineInv
<1> SUFFICES ASSUME Init PROVE EngineInv
  OBVIOUS
<1>1. Original \in Inodes /\ Original # None
  BY BackupAssumption DEF Original
<1>2. name["db"] = Original /\ disk[Original] = Database(OldRows)
  BY <1>1 DEF Init
<1>3. Whole(Database(OldRows))
  BY DEF Whole, Database, HasTables
<1>4. \A i \in Importers : job[i].at = "idle"
  BY DEF Init
<1>5. Lineage
  BY <1>1, <1>2, <1>3, <1>4 DEF Lineage, Line, WholeAt, At
<1>6. Pooled /\ Connected /\ Counted /\ Copies
  BY <1>4 DEF Init, Pooled, Connected, Counted, Copies, Swapping, At, Closed
<1>7. Whole(exported)
  BY <1>3 DEF Init
<1>8. QED BY <1>5, <1>6, <1>7, InitSwap DEF EngineInv

(* The pool with a connection more, and with one less.                     *)
LEMMA PoolGrows ==
  ASSUME NEW s \in Seq(Inodes), NEW f, NEW g \in Inodes, \A k \in DOMAIN s : s[k] = f, g = f
  PROVE  \A k \in DOMAIN Append(s, g) : Append(s, g)[k] = f
  OBVIOUS

LEMMA PoolShrinks ==
  ASSUME NEW s \in Seq(Inodes), s # <<>>, NEW f, \A k \in DOMAIN s : s[k] = f
  PROVE  /\ Head(s) = f
         /\ Tail(s) \in Seq(Inodes) /\ \A k \in DOMAIN Tail(s) : Tail(s)[k] = f
<1>1. Head(s) = s[1] /\ 1 \in DOMAIN s
  OBVIOUS
<1>2. ASSUME NEW k \in DOMAIN Tail(s) PROVE Tail(s)[k] = s[k + 1] /\ k + 1 \in DOMAIN s
  OBVIOUS
<1>3. QED BY <1>1, <1>2

(* Pages take and give back connections of the engine there is.            *)
LEMMA PagePools ==
  ASSUME IInv, Pooled, NEW p \in Pages, PageStep(p)
  PROVE  Pooled'
<1>0. page \in [Pages -> Sessions]
  BY DEF IInv, TypeOK
<1>1. CASE CreateEngine(p)
  BY <1>0, <1>1 DEF CreateEngine, Pooled
<1>2. CASE CacheEngine(p)
  BY <1>0, <1>2 DEF CacheEngine, Pooled, Unpooled, Sessions
<1>3. CASE Checkout(p)
  BY <1>0, <1>3 DEF Checkout, Pooled, Unpooled
<1>4. CASE BeginWrite(p)
  BY <1>0, <1>4 DEF BeginWrite, Pooled, Unpooled, Sessions
<1>5. CASE Commit(p) \/ Leave(p)
  <2>1. GiveBack(p) /\ cached' = cached
    BY <1>5 DEF Commit, Leave
  <2>2. \A q \in Pages : page'[q] = IF q = p THEN Closed ELSE page[q]
    BY <2>1, GiveBackTyped
  <2>3. ~cached => pool' = <<>>
    BY <2>1 DEF GiveBack, Pooled
  <2>4. ~Closed.pooled
    BY DEF Closed
  <2>5. QED BY <2>1, <2>2, <2>3, <2>4 DEF Pooled, Unpooled
<1>6. CASE StartExport(p)
  BY <1>0, <1>6 DEF StartExport, Pooled, Unpooled, Sessions
<1>7. CASE OpenExport(p)
  BY <1>0, <1>7 DEF OpenExport, Pooled, Unpooled
<1>8. CASE CopyExport(p)
  BY <1>0, <1>8 DEF CopyExport, Pooled, Unpooled, Closed
<1>9. QED BY <1>1, <1>2, <1>3, <1>4, <1>5, <1>6, <1>7, <1>8 DEF PageStep

LEMMA PageConnects ==
  ASSUME SwapInv, Pooled, Lineage, Connected, NEW p \in Pages, PageStep(p), ~disturbed'
  PROVE  Connected'
<1>0. /\ page \in [Pages -> Sessions] /\ pool \in Seq(Inodes)
      /\ IInv /\ TypeOK /\ Sound /\ Apart
  BY DEF SwapInv, IInv, TypeOK
<1>1. Swapping' = Swapping
  BY PageIsSteady DEF Swapping, Stays
<1>2. CASE CreateEngine(p)
  BY <1>0, <1>1, <1>2 DEF CreateEngine, Pooled, Connected
<1>3. CASE CacheEngine(p)
  <2>1. UNCHANGED <<name, pool>> /\ cached'
    BY <1>3 DEF CacheEngine
  <2>2. page'[p].pooled = ~cached /\ page'[p].conn = page[p].conn
    BY <1>0, <1>3 DEF CacheEngine, Sessions
  <2>3. ~cached => ~Swapping /\ page[p].conn = name["db"]
    BY <1>3 DEF CacheEngine
  <2>4. ~Swapping
    BY <2>3 DEF Connected
  <2>5. \A q \in Pages : q # p => page'[q] = page[q]
    BY <1>0, <1>3 DEF CacheEngine
  <2>6. QED BY <1>1, <2>1, <2>2, <2>3, <2>4, <2>5 DEF Connected
<1>4. CASE Checkout(p)
  <2>1. cached /\ UNCHANGED cached
    BY <1>4 DEF Checkout
  <2>2. /\ PathFile = name["db"]
        /\ Connect(Found) => UNCHANGED <<name, disk>>
    BY <1>0, <2>1, CachedIsWhole, LiveIsWhole
  <2>3. CASE pool # <<>>
    <3>1. /\ pool' = Tail(pool) /\ UNCHANGED name
          /\ page' = [page EXCEPT ![p] = [at |-> "open", conn |-> Head(pool), pooled |-> TRUE]]
      BY <1>4, <2>3 DEF Checkout
    <3>2. Head(pool) = name["db"] /\ \A k \in DOMAIN pool' : pool'[k] = name["db"]
      BY <1>0, <2>3, <3>1, PoolShrinks DEF Connected
    <3>3. QED BY <1>0, <1>1, <2>1, <3>1, <3>2 DEF Connected
  <2>4. CASE pool = <<>>
    <3>1. /\ UNCHANGED <<name, pool>>
          /\ page' = [page EXCEPT ![p] = [at |-> "open", conn |-> PathFile, pooled |-> TRUE]]
      BY <1>4, <2>2, <2>4 DEF Checkout
    <3>2. QED BY <1>0, <1>1, <2>1, <2>2, <3>1 DEF Connected
  <2>5. QED BY <2>3, <2>4
<1>5. CASE BeginWrite(p)
  BY <1>0, <1>1, <1>5 DEF BeginWrite, Connected, Sessions
<1>6. CASE Commit(p) \/ Leave(p)
  <2>1. GiveBack(p) /\ UNCHANGED <<name, cached>>
    BY <1>6 DEF Commit, Leave
  <2>2. \A q \in Pages : page'[q] = IF q = p THEN Closed ELSE page[q]
    BY <1>0, <2>1, GiveBackTyped
  <2>3. \A k \in DOMAIN pool' : pool'[k] = name["db"]
    <3>1. CASE page[p].pooled
      <4>1. pool' = Append(pool, page[p].conn) /\ page[p].conn = name["db"]
        BY <2>1, <3>1 DEF GiveBack, Connected
      <4>2. page[p].conn \in Inodes
        BY <1>0, <3>1 DEF Sound
      <4>3. QED BY <1>0, <4>1, <4>2, PoolGrows DEF Connected
    <3>2. CASE ~page[p].pooled
      BY <2>1, <3>2 DEF GiveBack, Connected
    <3>3. QED BY <3>1, <3>2
  <2>4. ~Closed.pooled
    BY DEF Closed
  <2>5. QED BY <1>1, <2>1, <2>2, <2>3, <2>4 DEF Connected
<1>7. CASE StartExport(p)
  <2>1. /\ UNCHANGED <<name, cached, pool>>
        /\ \A q \in Pages : page'[q].pooled = page[q].pooled /\ page'[q].conn = page[q].conn
    BY <1>0, <1>7 DEF StartExport, Sessions
  <2>2. QED BY <1>1, <2>1 DEF Connected
<1>8. CASE OpenExport(p)
  <2>1. /\ UNCHANGED <<cached, pool>>
        /\ \A q \in Pages : q # p => page'[q] = page[q]
        /\ ~page'[p].pooled
    BY <1>0, <1>8 DEF OpenExport
  <2>2. CASE cached
    <3>1. UNCHANGED name
      BY <1>0, <1>8, <2>2, CachedIsWhole, LiveIsWhole DEF OpenExport
    <3>2. QED BY <1>1, <2>1, <3>1 DEF Connected
  <2>3. CASE ~cached
    BY <1>1, <2>1, <2>3 DEF Connected, Pooled
  <2>4. QED BY <2>2, <2>3
<1>9. CASE CopyExport(p)
  BY <1>0, <1>1, <1>9 DEF CopyExport, Connected, Closed
<1>10. QED BY <1>2, <1>3, <1>4, <1>5, <1>6, <1>7, <1>8, <1>9 DEF PageStep

(* A new connection leaves a whole file that is in use whole.              *)
LEMMA ConnectCopies ==
  ASSUME TypeOK, Sound, Apart, Copies, NEW content \in {Found, Created}, Connect(content),
         NEW p \in Pages, page[p].at = "copying"
  PROVE  Whole(disk'[page[p].conn]) /\ page[p].conn # name'["tmp"]
<1>1. /\ name'["tmp"] = name["tmp"]
      /\ \A f \in Used \ {None} : disk[f].kind # "blank" => disk'[f] = disk[f]
  BY ConnectIsSteady
<1>2. page[p].conn \in Used \ {None}
  BY BackupAssumption DEF Sound, Unconnected, Used
<1>3. Whole(disk[page[p].conn]) /\ page[p].conn # name["tmp"]
  BY DEF Copies
<1>4. disk[page[p].conn].kind # "blank"
  BY <1>3 DEF Whole, HasTables
<1>5. QED BY <1>1, <1>2, <1>3, <1>4

(* What a page exports is whole, however long it takes to copy it.         *)
LEMMA PageCopies ==
  ASSUME SwapInv, Lineage, Copies, NEW p \in Pages, PageStep(p)
  PROVE  Copies'
<1>0. /\ page \in [Pages -> Sessions] /\ disk \in [Inodes -> Content]
      /\ IInv /\ TypeOK /\ Sound /\ Apart
  BY DEF SwapInv, IInv, TypeOK
<1>a. ASSUME UNCHANGED <<name, disk>> \/ Connect(Found) \/ Connect(Created),
             \A q \in Pages : page'[q].at = "copying" => page'[q] = page[q]
      PROVE  Copies'
  BY <1>0, <1>a, ConnectCopies DEF Copies
<1>1. CASE CreateEngine(p)
  BY <1>0, <1>1, <1>a DEF CreateEngine
<1>2. CASE CacheEngine(p)
  <2>1. page'[p].at = "open" /\ \A q \in Pages : q # p => page'[q] = page[q]
    BY <1>0, <1>2 DEF CacheEngine, Sessions
  <2>2. QED BY <1>2, <1>a, <2>1 DEF CacheEngine
<1>3. CASE Checkout(p)
  <2>1. page'[p].at = "open" /\ \A q \in Pages : q # p => page'[q] = page[q]
    BY <1>0, <1>3 DEF Checkout
  <2>2. QED BY <1>3, <1>a, <2>1 DEF Checkout
<1>4. CASE BeginWrite(p)
  <2>1. page'[p].at = "writing" /\ \A q \in Pages : q # p => page'[q] = page[q]
    BY <1>0, <1>4 DEF BeginWrite, Sessions
  <2>2. QED BY <1>4, <1>a, <2>1 DEF BeginWrite
<1>5. CASE Commit(p)
  <2>1. \A q \in Pages : page'[q] = IF q = p THEN Closed ELSE page[q]
    BY <1>0, <1>5, GiveBackTyped DEF Commit
  <2>2. /\ UNCHANGED name
        /\ disk' = [disk EXCEPT ![page[p].conn].rows = @ \cup {p}]
    BY <1>5 DEF Commit
  <2>3. ASSUME NEW q \in Pages, page'[q].at = "copying"
        PROVE  Whole(disk'[page'[q].conn]) /\ page'[q].conn # name'["tmp"]
    <3>1. page'[q] = page[q]
      BY <2>1, <2>3 DEF Closed
    <3>2. Whole(disk[page[q].conn]) /\ page[q].conn # name["tmp"] /\ page[q].conn \in Inodes
      BY <1>0, <2>3, <3>1 DEF Copies, Sound, Unconnected
    <3>3. /\ disk'[page[q].conn].kind = disk[page[q].conn].kind
          /\ disk[page[q].conn].rows \subseteq disk'[page[q].conn].rows
      BY <1>0, <2>2, <3>2 DEF Content
    <3>4. Whole(disk'[page[q].conn])
      BY <3>2, <3>3 DEF Whole
    <3>5. QED BY <2>2, <3>1, <3>2, <3>4
  <2>4. QED BY <2>3 DEF Copies
<1>6. CASE Leave(p)
  <2>1. \A q \in Pages : page'[q] = IF q = p THEN Closed ELSE page[q]
    BY <1>0, <1>6, GiveBackTyped DEF Leave
  <2>2. Closed.at # "copying" /\ UNCHANGED <<name, disk>>
    BY <1>6 DEF Closed, Leave
  <2>3. QED BY <1>a, <2>1, <2>2
<1>7. CASE StartExport(p)
  <2>1. page'[p].at = "exporting" /\ \A q \in Pages : q # p => page'[q] = page[q]
    BY <1>0, <1>7 DEF StartExport, Sessions
  <2>2. QED BY <1>7, <1>a, <2>1 DEF StartExport
<1>8. CASE OpenExport(p)
  <2>1. \A q \in Pages : q # p => page'[q] = page[q]
    BY <1>0, <1>8 DEF OpenExport
  <2>2. Connect(Found)
    BY <1>8 DEF OpenExport
  <2>3. ASSUME page'[p].at = "copying"
        PROVE  Whole(disk'[page'[p].conn]) /\ page'[p].conn # name'["tmp"]
    <3>1. page'[p].conn = PathFile /\ \A i \in Importers : ~At(i, "aside")
      BY <1>0, <1>8, <2>3 DEF OpenExport, At
    <3>2. WholeAt("db")
      BY <3>1 DEF Lineage
    <3>3. PathFile = name["db"] /\ Whole(disk[name["db"]]) /\ UNCHANGED <<name, disk>>
      BY <1>0, <2>2, <3>2, LiveIsWhole
    <3>4. name["db"] # name["tmp"]
      BY <1>0, <3>2 DEF Apart, WholeAt
    <3>5. QED BY <3>1, <3>3, <3>4
  <2>4. ASSUME NEW q \in Pages, q # p, page'[q].at = "copying"
        PROVE  Whole(disk'[page'[q].conn]) /\ page'[q].conn # name'["tmp"]
    BY <1>0, <2>1, <2>2, <2>4, ConnectCopies
  <2>5. QED BY <2>3, <2>4 DEF Copies
<1>9. CASE CopyExport(p)
  <2>1. page'[p].at = "idle" /\ \A q \in Pages : q # p => page'[q] = page[q]
    BY <1>0, <1>9 DEF CopyExport, Closed
  <2>2. QED BY <1>9, <1>a, <2>1 DEF CopyExport
<1>10. QED
  BY <1>1, <1>2, <1>3, <1>4, <1>5, <1>6, <1>7, <1>8, <1>9 DEF PageStep

LEMMA PageExports ==
  ASSUME Copies, ~hollow => Whole(exported), NEW p \in Pages, PageStep(p)
  PROVE  ~hollow' => Whole(exported')
<1>1. CASE CopyExport(p)
  <2>1. /\ page[p].at \in {"copying", "emptied"} /\ exported' = disk[page[p].conn]
        /\ hollow' = (page[p].at = "emptied")
    BY <1>1 DEF CopyExport
  <2>2. QED BY <2>1 DEF Copies
<1>2. CASE UNCHANGED <<exported, hollow>>
  BY <1>2
<1>3. QED
  BY <1>1, <1>2 DEF PageStep, CreateEngine, CacheEngine, Checkout, BeginWrite, Commit, Leave,
                    StartExport, OpenExport

(* An import passes on whole files only.                                   *)
LEMMA ImportLineage ==
  ASSUME OneImporter, SwapInv, Lineage, NEW i \in Importers, ImportStep(i), ~RollbackFails(i)
  PROVE  Lineage'
<1>0. TypeOK /\ Sound /\ Apart /\ Kept(i) /\ Line(i)
  BY DEF SwapInv, IInv, Lineage
<1>1. /\ name \in [Names -> Inodes \cup {None}] /\ None \notin Inodes
      /\ disk \in [Inodes -> Content]
      /\ job \in [Importers -> Jobs] /\ job[i] \in Jobs
  BY <1>0, BackupAssumption DEF TypeOK
<1>2. \A place : Goto(i, place) => job'[i].at = place
  BY <1>1 DEF Goto, Jobs
<1>3. \A j \in Importers : j = i
  BY DEF OneImporter
<1>4. job[i].at # "aside" => WholeAt("db")
  BY <1>3 DEF Lineage, At
<1>5. SUFFICES /\ job'[i].at # "aside" => WholeAt("db")'
               /\ job'[i].at = "aside" => job'[i].moved /\ WholeAt("bak")'
               /\ job'[i].at \in {"valid", "released", "aside"} => WholeAt("tmp")'
  BY <1>3 DEF Lineage, Line, At
<1>6. CASE Truncate(i)
  <2> DEFINE f == IF name["tmp"] = None THEN Fresh ELSE name["tmp"]
  <2>1. f \in Inodes /\ name["db"] # f
    BY <1>0, <1>1, <1>6, FreshIsNew DEF Truncate, Apart
  <2>2. /\ name' = [name EXCEPT !["tmp"] = f]
        /\ disk' = [disk EXCEPT ![f] = Blank]
        /\ job'[i].at = "opened" /\ job[i].at = "decoded"
    BY <1>1, <1>6 DEF Truncate, At, Jobs
  <2>3. QED BY <1>1, <1>4, <2>1, <2>2 DEF WholeAt
<1>7. CASE WriteTmp(i)
  <2>1. /\ UNCHANGED name
        /\ name["tmp"] \in Inodes
        /\ disk' = [disk EXCEPT ![name["tmp"]] = job[i].upload]
        /\ job'[i].at = "written" /\ job[i].at = "opened"
    BY <1>0, <1>1, <1>7 DEF WriteTmp, At, Kept, Jobs
  <2>2. name["db"] # None => name["db"] # name["tmp"]
    BY <1>0 DEF Apart
  <2>3. QED BY <1>1, <1>4, <2>1, <2>2 DEF WholeAt
<1>8. CASE Validate(i)
  <2>1. /\ name["tmp"] # None /\ job[i].at = "written"
        /\ disk[name["tmp"]].kind = job[i].upload.kind
        /\ job[i].upload.rows \subseteq disk[name["tmp"]].rows
    BY <1>0, <1>8 DEF Validate, At, Kept
  <2>2. /\ UNCHANGED <<name, disk>>
        /\ job'[i].at = IF disk[name["tmp"]].kind \in HasTables THEN "valid" ELSE "failing"
    BY <1>2, <1>8, <2>1 DEF Validate
  <2>3. disk[name["tmp"]].kind \in HasTables => WholeAt("tmp")
    <3>1. job[i].upload \in Uploads \cup {Blank} /\ Blank.kind \notin HasTables
      BY <1>1 DEF Jobs, Blank, HasTables
    <3>2. QED BY <2>1, <3>1 DEF WholeAt, Whole
  <2>4. QED BY <1>4, <2>1, <2>2, <2>3 DEF WholeAt
<1>9. CASE ReleaseEngine(i) \/ Reinit(i) \/ ReinitRaises(i) \/ Count(i) \/ CountRaises(i)
  <2>1. /\ job[i].at \in {"valid", "cleaned", "reopened"}
        /\ UNCHANGED <<name, disk>> \/ Connect(Created) \/ Connect(Found)
    BY <1>9 DEF ReleaseEngine, Reinit, ReinitRaises, Reopening, Count, CountRaises, CountSession,
                At
  <2>2. Steady
    BY <1>0, <2>1, ConnectIsSteady DEF Steady
  <2>3. /\ job'[i].at \in {"released", "reopened", "done", "late"}
        /\ job'[i].at = "released" => job[i].at = "valid"
    <3>1. CASE ReleaseEngine(i)
      BY <1>2, <3>1 DEF ReleaseEngine, At
    <3>2. CASE Reinit(i) \/ ReinitRaises(i) \/ CountRaises(i)
      BY <1>2, <3>2 DEF Reinit, ReinitRaises, CountRaises
    <3>3. CASE Count(i)
      BY <1>1, <3>3 DEF Count, Jobs
    <3>4. QED BY <1>9, <3>1, <3>2, <3>3
  <2>4. WholeAt("db")'
    BY <1>4, <2>1, <2>2, WholeSteady
  <2>5. job[i].at = "valid" => WholeAt("tmp")'
    BY <1>0, <2>2, WholeSteady DEF Line
  <2>6. QED BY <2>3, <2>4, <2>5
<1>10. CASE MoveAside(i)
  <2>1. job[i].at = "released" /\ name["db"] # None
    BY <1>4, <1>10 DEF MoveAside, At, WholeAt
  <2>2. /\ name' = [name EXCEPT !["bak"] = name["db"], !["db"] = None]
        /\ UNCHANGED disk
        /\ job'[i].at = "aside" /\ job'[i].moved
    BY <1>1, <1>10, <2>1 DEF MoveAside, Jobs
  <2>3. name'["bak"] = name["db"] /\ name'["tmp"] = name["tmp"]
    BY <1>1, <2>2
  <2>4. QED BY <1>0, <1>4, <2>1, <2>2, <2>3 DEF WholeAt, Line
<1>11. CASE MoveIn(i)
  <2>1. /\ job[i].at = "aside"
        /\ name' = [name EXCEPT !["db"] = name["tmp"], !["tmp"] = None]
        /\ UNCHANGED disk
        /\ job'[i].at = "swapped"
    BY <1>2, <1>11 DEF MoveIn, At
  <2>2. name'["db"] = name["tmp"]
    BY <1>1, <2>1
  <2>3. QED BY <1>0, <2>1, <2>2 DEF WholeAt, Line
<1>12. CASE MoveInFails(i)
  <2>1. /\ job[i].at = "aside" /\ name["bak"] # None
        /\ name' = [name EXCEPT !["db"] = name["bak"], !["bak"] = None]
        /\ UNCHANGED disk
        /\ job'[i].at = "failing"
    BY <1>0, <1>2, <1>12 DEF MoveInFails, At, Line
  <2>2. name'["db"] = name["bak"]
    BY <1>1, <2>1
  <2>3. QED BY <1>0, <2>1, <2>2 DEF WholeAt, Line, At
<1>13. CASE Cleanup(i)
  <2>1. /\ name' = [name EXCEPT !["tmp"] = None]
        /\ UNCHANGED disk
        /\ job[i].at \in {"swapped", "failing", "stranding"}
        /\ job'[i].at \in {"cleaned", "failed", "stranded"}
    BY <1>2, <1>13 DEF Cleanup, Finally, Onward, At
  <2>2. name'["db"] = name["db"]
    BY <1>1, <2>1
  <2>3. QED BY <1>4, <2>1, <2>2 DEF WholeAt
<1>14. CASE Fails(i) \/ CleanupFails(i)
  <2>1. /\ job[i].at # "aside"
        /\ UNCHANGED <<name, disk>>
        /\ job'[i].at \in {"failing", "late", "failed", "stranded"}
    BY <1>1, <1>14 DEF Fails, CleanupFails, Finally, Onward, At, Jobs
  <2>2. QED BY <1>4, <2>1 DEF WholeAt
<1>15. QED
  BY <1>6, <1>7, <1>8, <1>9, <1>10, <1>11, <1>12, <1>13, <1>14 DEF ImportStep

(* An import closes the engine before it touches the live file, opens one  *)
(* after it, and counts in that one.                                       *)
LEMMA ImportPools ==
  ASSUME IInv, Pooled, NEW i \in Importers, ImportStep(i)
  PROVE  Pooled'
<1>1. page \in [Pages -> Sessions]
  BY DEF IInv, TypeOK
<1>2. CASE ReleaseEngine(i)
  BY <1>1, <1>2 DEF ReleaseEngine, Pooled, Sessions
<1>3. CASE Reinit(i) \/ Count(i) \/ CountRaises(i)
  BY <1>3 DEF Reinit, Count, CountRaises, Pooled, Unpooled
<1>4. CASE UNCHANGED <<cached, pool, page>>
  BY <1>4 DEF Pooled, Unpooled
<1>5. QED
  BY <1>2, <1>3, <1>4
     DEF ImportStep, Truncate, WriteTmp, Validate, MoveAside, MoveIn, Cleanup, MoveInFails, Fails,
         RollbackFails, CleanupFails, ReinitRaises

(* The session that counts is one on the live file.                        *)
LEMMA CountsLive ==
  ASSUME TypeOK, Connected, WholeAt("db"), CountSession
  PROVE  /\ Seen = disk[name["db"]]
         /\ UNCHANGED <<name, disk>>
         /\ \A k \in DOMAIN pool' : pool'[k] = name["db"]
<1>1. pool \in Seq(Inodes)
  BY DEF TypeOK
<1>2. CASE pool # <<>>
  <2>1. pool' = Append(Tail(pool), Head(pool)) /\ UNCHANGED <<name, disk>>
    BY <1>2 DEF CountSession
  <2>2. /\ Head(pool) = name["db"] /\ Tail(pool) \in Seq(Inodes)
        /\ \A k \in DOMAIN Tail(pool) : Tail(pool)[k] = name["db"]
    BY <1>1, <1>2, PoolShrinks DEF Connected
  <2>3. Head(pool) \in Inodes
    BY <1>1, <1>2
  <2>4. \A k \in DOMAIN pool' : pool'[k] = name["db"]
    BY <2>1, <2>2, <2>3, PoolGrows
  <2>5. QED BY <1>2, <2>1, <2>2, <2>4 DEF Seen
<1>3. CASE pool = <<>>
  <2>1. Connect(Found) /\ pool' = <<PathFile>>
    BY <1>3 DEF CountSession
  <2>2. PathFile = name["db"] /\ Found = disk[name["db"]] /\ UNCHANGED <<name, disk>>
    BY <2>1, LiveIsWhole
  <2>3. QED BY <1>3, <2>1, <2>2 DEF Seen
<1>4. QED BY <1>2, <1>3

LEMMA ImportConnects ==
  ASSUME OneImporter, SwapInv, Pooled, Lineage, Connected, Counted, NEW i \in Importers,
         ImportStep(i), ~RollbackFails(i)
  PROVE  Connected' /\ Counted'
<1>0. TypeOK /\ Sound /\ Apart /\ Kept(i)
  BY DEF SwapInv, IInv
<1>1. /\ name \in [Names -> Inodes \cup {None}] /\ pool \in Seq(Inodes)
      /\ page \in [Pages -> Sessions]
      /\ job \in [Importers -> Jobs] /\ job[i] \in Jobs
  BY <1>0 DEF TypeOK
<1>2. \A place : Goto(i, place) => job'[i].at = place
  BY <1>1 DEF Goto, Jobs
<1>3. \A j \in Importers : j = i
  BY DEF OneImporter
<1>4. /\ Swapping <=> job[i].at \in {"released", "aside"}
      /\ Swapping' <=> job'[i].at \in {"released", "aside"}
  BY <1>3 DEF Swapping
<1>5. job'[i].at # "done" => Counted'
  BY <1>3 DEF Counted, At
<1>6. CASE \/ Truncate(i) \/ WriteTmp(i) \/ Validate(i) \/ Cleanup(i) \/ Fails(i)
           \/ CleanupFails(i) \/ ReinitRaises(i)
  <2>1. UNCHANGED <<cached, pool, page>>
    BY <1>6 DEF Truncate, WriteTmp, Validate, Cleanup, Fails, CleanupFails, ReinitRaises
  <2>2. name'["db"] = name["db"]
    BY <1>1, <1>6 DEF Truncate, WriteTmp, Validate, Cleanup, Fails, CleanupFails, ReinitRaises
  <2>3. job'[i].at \in {"opened", "written", "valid", "failing", "cleaned", "failed",
                        "stranded", "late"}
    <3>1. CASE Truncate(i) \/ WriteTmp(i) \/ Fails(i)
      BY <1>1, <3>1 DEF Truncate, WriteTmp, Fails, Jobs
    <3>2. CASE Validate(i) \/ ReinitRaises(i)
      BY <1>2, <3>2 DEF Validate, ReinitRaises
    <3>3. CASE Cleanup(i)
      BY <1>2, <3>3 DEF Cleanup, Finally, Onward, At
    <3>4. CASE CleanupFails(i)
      BY <1>1, <3>4 DEF CleanupFails, Finally, Onward, At, Jobs
    <3>5. QED BY <1>6, <3>1, <3>2, <3>3, <3>4
  <2>4. QED BY <1>4, <1>5, <2>1, <2>2, <2>3 DEF Connected
<1>7. CASE ReleaseEngine(i)
  <2>1. ~cached' /\ pool' = <<>> /\ \A p \in Pages : ~page'[p].pooled
    BY <1>1, <1>7 DEF ReleaseEngine, Sessions
  <2>2. job'[i].at = "released"
    BY <1>2, <1>7 DEF ReleaseEngine
  <2>3. QED BY <1>5, <2>1, <2>2 DEF Connected
<1>8. CASE MoveAside(i) \/ MoveIn(i) \/ MoveInFails(i)
  <2>1. job[i].at \in {"released", "aside"} /\ UNCHANGED <<cached, pool, page>>
    BY <1>8 DEF MoveAside, MoveIn, MoveInFails, At
  <2>2. ~cached /\ pool = <<>> /\ \A p \in Pages : ~page[p].pooled
    BY <1>4, <2>1 DEF Connected, Pooled
  <2>3. job'[i].at # "done"
    <3>1. CASE MoveAside(i)
      BY <1>1, <3>1 DEF MoveAside, Jobs
    <3>2. CASE MoveIn(i) \/ MoveInFails(i)
      BY <1>2, <3>2 DEF MoveIn, MoveInFails
    <3>3. QED BY <1>8, <3>1, <3>2
  <2>4. QED BY <1>5, <2>1, <2>2, <2>3 DEF Connected
<1>9. CASE Reinit(i)
  <2>1. job[i].at \in {"cleaned", "reopened"} /\ job'[i].at = "reopened" /\ UNCHANGED page
    BY <1>2, <1>9 DEF Reinit, Reopening, At
  <2>2. WholeAt("db")
    BY <1>3, <2>1 DEF Lineage, At
  <2>3. PathFile = name["db"] /\ Created = Found /\ (Connect(Found) => UNCHANGED name)
    BY <1>0, <2>2, LiveIsWhole
  <2>4. UNCHANGED name /\ (UNCHANGED pool \/ pool' = <<PathFile>>)
    BY <1>9, <2>3 DEF Reinit
  <2>5. \A k \in DOMAIN pool' : pool'[k] = name["db"]
    BY <2>3, <2>4 DEF Connected
  <2>6. QED BY <1>4, <1>5, <2>1, <2>4, <2>5 DEF Connected
<1>10. CASE Count(i) \/ CountRaises(i)
  <2>1. /\ job[i].at = "reopened" /\ UNCHANGED <<cached, page>> /\ CountSession
        /\ job'[i].at \in {"done", "late"}
    <3>1. CASE Count(i)
      BY <1>1, <3>1 DEF Count, At, Jobs
    <3>2. CASE CountRaises(i)
      BY <1>2, <3>2 DEF CountRaises, At
    <3>3. QED BY <1>10, <3>1, <3>2
  <2>2. WholeAt("db")
    BY <1>3, <2>1 DEF Lineage, At
  <2>3. /\ Seen = disk[name["db"]] /\ UNCHANGED name
        /\ \A k \in DOMAIN pool' : pool'[k] = name["db"]
    BY <1>0, <2>1, <2>2, CountsLive
  <2>4. Connected'
    BY <1>4, <2>1, <2>3 DEF Connected
  <2>5. CASE Count(i)
    <3>1. job' = [job EXCEPT ![i].at = "done", ![i].reported = Seen.rows]
      BY <2>5 DEF Count
    <3>2. job'[i].upload = job[i].upload /\ job'[i].reported = Seen.rows
      BY <1>1, <3>1 DEF Jobs
    <3>3. job[i].upload.rows \subseteq disk[name["db"]].rows
      BY <1>0, <2>1 DEF Kept, Uploaded
    <3>4. QED BY <1>3, <2>3, <2>4, <3>2, <3>3 DEF Counted
  <2>6. CASE CountRaises(i)
    BY <1>2, <1>5, <2>4, <2>6 DEF CountRaises
  <2>7. QED BY <1>10, <2>5, <2>6
<1>11. QED
  BY <1>6, <1>7, <1>8, <1>9, <1>10 DEF ImportStep

(* An import writes to no file that an export is copying.                  *)
LEMMA ImportCopies ==
  ASSUME SwapInv, Copies, NEW i \in Importers, ImportStep(i)
  PROVE  Copies'
<1>0. /\ TypeOK /\ Sound /\ Apart /\ Kept(i)
      /\ name \in [Names -> Inodes \cup {None}] /\ None \notin Inodes
      /\ disk \in [Inodes -> Content] /\ page \in [Pages -> Sessions]
  BY BackupAssumption DEF SwapInv, IInv, TypeOK
<1>1. \A p \in Pages : page'[p].at = page[p].at /\ page'[p].conn = page[p].conn
  BY <1>0 DEF ImportStep, Truncate, WriteTmp, Validate, Fails, ReleaseEngine, MoveAside, MoveIn,
              MoveInFails, RollbackFails, Cleanup, CleanupFails, Reinit, ReinitRaises, Count,
              CountRaises, Sessions
<1>2. SUFFICES ASSUME NEW p \in Pages, page[p].at = "copying"
               PROVE  Whole(disk'[page[p].conn]) /\ page[p].conn # name'["tmp"]
  BY <1>1 DEF Copies
<1>3. /\ Whole(disk[page[p].conn]) /\ page[p].conn # name["tmp"]
      /\ page[p].conn \in Inodes /\ page[p].conn \in Used
  BY <1>0, <1>2 DEF Copies, Sound, Unconnected, Used
<1>4. CASE Truncate(i)
  <2> DEFINE f == IF name["tmp"] = None THEN Fresh ELSE name["tmp"]
  <2>1. f # page[p].conn
    BY <1>3, <1>4 DEF Truncate, Room, Fresh
  <2>2. name' = [name EXCEPT !["tmp"] = f] /\ disk' = [disk EXCEPT ![f] = Blank]
    BY <1>4 DEF Truncate
  <2>3. QED BY <1>0, <1>3, <2>1, <2>2
<1>5. CASE WriteTmp(i)
  <2>1. UNCHANGED name /\ disk' = [disk EXCEPT ![name["tmp"]] = job[i].upload]
    BY <1>0, <1>5 DEF WriteTmp, At, Kept
  <2>2. QED BY <1>0, <1>3, <2>1
<1>6. CASE Validate(i)
  <2>1. UNCHANGED <<name, disk>>
    BY <1>0, <1>6 DEF Validate, At, Kept
  <2>2. QED BY <1>3, <2>1
<1>7. CASE Connect(Created) \/ Connect(Found)
  BY <1>0, <1>2, <1>7, ConnectCopies
<1>8. CASE UNCHANGED disk /\ (name'["tmp"] = name["tmp"] \/ name'["tmp"] = None)
  BY <1>0, <1>3, <1>8
<1>9. CASE MoveAside(i) \/ MoveIn(i) \/ MoveInFails(i) \/ Cleanup(i)
  <2>1. UNCHANGED disk /\ (name'["tmp"] = name["tmp"] \/ name'["tmp"] = None)
    BY <1>0, <1>9 DEF MoveAside, MoveIn, MoveInFails, Cleanup
  <2>2. QED BY <1>8, <2>1
<1>10. QED
  BY <1>4, <1>5, <1>6, <1>7, <1>8, <1>9
     DEF ImportStep, ReleaseEngine, Fails, RollbackFails, CleanupFails, Reinit, ReinitRaises,
         Count, CountRaises, CountSession

LEMMA StepServes ==
  ASSUME OneImporter, EngineInv, [Next]_vars
  PROVE  EngineInv'
<1>0. /\ SwapInv /\ Pooled /\ IInv /\ TypeOK /\ Apart
      /\ ~disturbed =>
           Lineage /\ Connected /\ Counted /\ Copies /\ (~hollow => Whole(exported))
  BY DEF EngineInv, SwapInv, IInv
<1>1. SwapInv'
  BY <1>0, StepKeeps
<1>2. ASSUME NEW p \in Pages, PageStep(p) PROVE EngineInv'
  <2>1. /\ Steady
        /\ \A i \in Importers : /\ job'[i].at = job[i].at /\ job'[i].upload = job[i].upload
                                /\ job'[i].reported = job[i].reported
                                /\ job'[i].moved = job[i].moved
    BY <1>0, <1>2, PageIsSteady DEF Stays
  <2>2. Pooled'
    BY <1>0, <1>2, PagePools
  <2>3. ASSUME ~disturbed'
        PROVE  Lineage' /\ Connected' /\ Counted' /\ Copies' /\ (~hollow' => Whole(exported'))
    <3>1. ~disturbed
      BY <1>2, <2>3 DEF PageStep, CreateEngine, CacheEngine, Checkout, BeginWrite, Commit, Leave,
                        StartExport, OpenExport, CopyExport
    <3>2. \A n \in Names : WholeAt(n) => WholeAt(n)'
      BY <2>1, WholeSteady
    <3>3. Lineage'
      BY <1>0, <2>1, <3>1, <3>2 DEF Lineage, Line, At
    <3>4. Connected'
      BY <1>0, <1>2, <2>3, <3>1, PageConnects
    <3>5. Counted'
      BY <1>0, <2>1, <3>1 DEF Counted, At
    <3>6. Copies' /\ (~hollow' => Whole(exported'))
      BY <1>0, <1>2, <3>1, PageCopies, PageExports
    <3>7. QED BY <3>3, <3>4, <3>5, <3>6
  <2>4. QED BY <1>1, <2>2, <2>3 DEF EngineInv
<1>3. ASSUME NEW i \in Importers, ImportStep(i) PROVE EngineInv'
  <2>1. Pooled'
    BY <1>0, <1>3, ImportPools
  <2>2. CASE RollbackFails(i)
    BY <1>1, <2>1, <2>2 DEF EngineInv, RollbackFails
  <2>3. CASE ~RollbackFails(i)
    <3>1. UNCHANGED <<disturbed, exported, hollow>>
      BY <1>3, <2>3 DEF ImportStep, Truncate, WriteTmp, Validate, Fails, ReleaseEngine, MoveAside,
                  MoveIn, MoveInFails, Cleanup, CleanupFails, Reinit, ReinitRaises, Count,
                  CountRaises
    <3>2. ~disturbed => Lineage' /\ Connected' /\ Counted' /\ Copies'
      BY <1>0, <1>3, <2>3, ImportLineage, ImportConnects, ImportCopies
    <3>3. QED BY <1>0, <1>1, <2>1, <3>1, <3>2 DEF EngineInv
  <2>4. QED BY <2>2, <2>3
<1>4. ASSUME NEW i \in Importers, NEW u \in Uploads, Begin(i, u)
      PROVE  EngineInv'
  <2>1. UNCHANGED <<name, disk, cached, pool, page, exported, hollow, disturbed>>
    BY <1>4 DEF Begin
  <2>2. job[i].at \in Ended /\ job'[i].at \in {"decoded", "refused"}
    <3>1. job \in [Importers -> Jobs]
      BY <1>0 DEF TypeOK
    <3>2. QED BY <1>4, <3>1 DEF Begin
  <2>3. \A j \in Importers : j = i
    BY DEF OneImporter
  <2>4. Pooled'
    BY <1>0, <2>1 DEF Pooled, Unpooled
  <2>5. ~disturbed => Lineage' /\ Connected' /\ Counted'
    BY <1>0, <2>1, <2>2, <2>3 DEF Lineage, Line, WholeAt, Connected, Counted, Swapping, At, Ended
  <2>6. ~disturbed => Copies' /\ (~hollow' => Whole(exported'))
    BY <1>0, <2>1 DEF Copies
  <2>7. QED BY <1>1, <2>1, <2>4, <2>5, <2>6 DEF EngineInv
<1>5. CASE Kill
  <2>1. /\ UNCHANGED <<name, disk, exported, hollow>>
        /\ ~cached' /\ pool' = <<>>
        /\ \A p \in Pages : ~page'[p].pooled /\ page'[p].at = "idle"
        /\ disturbed' = (disturbed \/ \E i \in Importers : At(i, "aside"))
    BY <1>5 DEF Kill, Closed
  <2>2. \A i \in Importers : (job'[i] = job[i] /\ job[i].at \in Ended) \/ job'[i].at = "killed"
    <3>1. job \in [Importers -> Jobs]
      BY <1>0 DEF TypeOK
    <3>2. QED BY <1>5, <3>1 DEF Kill, Jobs
  <2>3. Pooled'
    BY <2>1 DEF Pooled
  <2>4. ASSUME ~disturbed'
        PROVE  Lineage' /\ Connected' /\ Counted' /\ Copies' /\ (~hollow' => Whole(exported'))
    <3>1. ~disturbed /\ \A i \in Importers : ~At(i, "aside")
      BY <2>1, <2>4
    <3>2. WholeAt("db")'
      BY <1>0, <2>1, <3>1 DEF Lineage, WholeAt
    <3>3. \A i \in Importers : job'[i].at \in Ended
      BY <2>2 DEF Ended
    <3>4. Lineage'
      BY <3>2, <3>3 DEF Lineage, Line, At, Ended
    <3>5. Connected' /\ Counted'
      BY <1>0, <2>1, <2>2, <3>1 DEF Connected, Counted, At
    <3>6. Copies' /\ (~hollow' => Whole(exported'))
      BY <1>0, <2>1, <3>1 DEF Copies
    <3>7. QED BY <3>4, <3>5, <3>6
  <2>5. QED BY <1>1, <2>3, <2>4 DEF EngineInv
<1>6. CASE UNCHANGED vars
  <2>1. UNCHANGED <<name, disk, cached, pool, page, job, exported, hollow, disturbed>>
    BY <1>6 DEF vars
  <2>2. Pooled' /\ (~disturbed => Lineage' /\ Connected' /\ Counted' /\ Copies')
    BY <1>0, <2>1
       DEF Pooled, Unpooled, Lineage, Line, WholeAt, Connected, Counted, Copies, Swapping, At
  <2>3. QED BY <1>0, <1>1, <2>1, <2>2 DEF EngineInv
<1>7. QED
  BY <1>2, <1>3, <1>4, <1>5, <1>6 DEF Next

(* With imports one at a time, no engine cached in a swap and no swap cut  *)
(* off, the engine has connections to the live database only, and what an  *)
(* import reports are the rows of its upload.                              *)
THEOREM ServesTheLiveDatabase ==
  ASSUME OneImporter
  PROVE  Spec => []EngineServesLive
<1>1. EngineInv => EngineServesLive
  BY DEF EngineInv, Connected, Counted, EngineServesLive
<1>2. EngineInv /\ [Next]_vars => EngineInv'
  BY StepServes
<1>3. QED BY <1>1, <1>2, InitEngine, PTL DEF Spec

(* Under the same conditions an export holds a whole database that was     *)
(* live, wherever its steps fall among those of an import, unless it opens *)
(* the database between the two renames: that is the only way to an empty  *)
(* one.                                                                    *)
THEOREM ExportsAreWhole ==
  ASSUME OneImporter
  PROVE  Spec => []ExportIsWhole
<1>1. EngineInv => ExportIsWhole
  BY DEF EngineInv, Whole, ExportIsWhole
<1>2. EngineInv /\ [Next]_vars => EngineInv'
  BY StepServes
<1>3. QED BY <1>1, <1>2, InitEngine, PTL DEF Spec
=============================================================================
