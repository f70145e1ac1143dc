--------------------------- MODULE TestDirectory ---------------------------
(***************************************************************************)
(* TestDirectory (src/src/testdirectory.cpp): a worker thread that mirrors *)
(* the directories of tests under a root directory into an SQLite          *)
(* database, in cycles of a minute.  A method of the cycle that writes is  *)
(* one database scope (SqliteDatabase.tla shows that it is atomic), so it  *)
(* is one action here, with three outcomes: committed, rolled back because *)
(* a statement has thrown, or rolled back by a COMMIT that fails, which    *)
(* the worker does not notice.  Between two actions the disk may change,   *)
(* the owner may ask for a stop and the process may end.                   *)
(*                                                                         *)
(* SqliteDatabase::Insert binds a text with the quotes it was printed      *)
(* with (Bound).  A name that the worker has stored is therefore not found *)
(* again; only the rows that another tool has written have a Plain name.   *)
(* Dates are bound with quotes as well, and what IsoTimeToNs (a library)   *)
(* makes of such a text is left open (Unreadable).                         *)
(*                                                                         *)
(* Names are classes up to letter case; File holds the paths below a test  *)
(* directory that no exclude pattern matches, Test the directories the     *)
(* format parses.  A test is searched recursively and of a path only the   *)
(* name of the file is kept (NameOf), so that two files of one test, in    *)
(* different directories, may have one name: twins.                        *)
(***************************************************************************)
EXTENDS Naturals, FiniteSets, Functions

CONSTANTS
  Test,        \* names of test directories
  File,        \* paths of files in and below them
  NameOf,      \* the name of the file at a path
  SubFile,     \* the paths that lead through a sub directory
  MdfFile,     \* the files that are measurement files
  BedOf,       \* the test bed in the name of a directory, "" for none
  Existing,    \* the database file is there before and holds plain names
  Faults,      \* what may fail for reasons of its own, see FaultKinds
  Paths,       \* bound: the tests and the paths in them where files may be
  MaxTime,     \* bound: seconds that file times tell apart
  MaxTrouble,  \* bound: changes on the disk, faults and crashes
  IdRing       \* bound: ids of a table come round after that many

FaultKinds == {"root", "list", "database", "commit", "mdf", "crash"}

ASSUME TestDirectoryAssumption ==
  /\ IsFiniteSet(Test) /\ IsFiniteSet(File) /\ MdfFile \subseteq File
  /\ NameOf \in [File -> STRING] /\ SubFile \subseteq File
  /\ Paths \subseteq Test \X File /\ BedOf \in [Test -> STRING]
  /\ Existing \in BOOLEAN
  /\ Faults \subseteq FaultKinds
  /\ MaxTime \in Nat \ {0} /\ MaxTrouble \in Nat /\ IdRing \in Nat \ {0}

VARIABLES
  disk,          \* the root directory: 0 stands for what is not there
  clock,         \* the current second
  left,          \* how much trouble is still to come
  stored,        \* the committed tables
  serial,        \* the last id drawn for each table (sqlite_sequence)
  pc,            \* where the worker thread is
  owner,         \* where the thread that calls Start and Stop is
  stop_thread,
  is_ok,         \* the member is_ok_
  cycle_ok,      \* the local is_ok of WorkerThread
  test_bed_list, test_list,      \* what FetchFromDb has read
  test_dir_list,                 \* what ScanRootDir has listed
  bed_index,                     \* test_bed_index of the listed directories
  update_list

outside == <<disk, clock>>
database == <<stored, serial>>
control == <<owner, stop_thread, is_ok>>
fetched == <<test_bed_list, test_list>>
listed == <<test_dir_list, bed_index>>
vars == <<outside, left, database, pc, control, cycle_ok, fetched, listed, update_list>>

Plain(n) == [text |-> n, quoted |-> FALSE]
Bound(n) == [text |-> n, quoted |-> TRUE]
Unreadable == MaxTime + 1

NoDir == [modified |-> 0, file |-> [f \in File |-> 0]]
IsDir(t) == disk[t].modified # 0
NoIds == [f \in File |-> 0]
EmptyIndex == [t \in {} |-> 0]
Entry(t, id) == [name |-> t, index |-> id, file |-> NoDir.file, id |-> NoIds]

-----------------------------------------------------------------------------
(***************************************************************************)
(* Drawing ids (AUTOINCREMENT) and ending a scope.  An id that has come    *)
(* round is passed over while a row has it.                                *)
(***************************************************************************)
Id == 1 .. IdRing
Ids(rows) == {r.id : r \in rows}

\* How many ids are drawn after the last one before it is the turn of this.
Turn(last, id) == (id + IdRing - last - 1) % IdRing

NextIds(rows, last, n) ==
  LET free == Id \ Ids(rows)
  IN  {id \in free : Cardinality({x \in free : Turn(last, x) < Turn(last, id)}) < n}

\* S numbered with the next ids, in any order.
Numberings(rows, last, S) == Bijection(S, NextIds(rows, last, Cardinality(S)))

Latest(ids, last) == {id \in ids : \A x \in ids : Turn(last, x) <= Turn(last, id)}

LastDrawn(ids, last) == IF ids = {} THEN last ELSE CHOOSE id \in Latest(ids, last) : TRUE

Trouble(kind) == kind \in Faults /\ left > 0 /\ left' = left - 1

Leave(tables, ids) ==
  \/ stored' = tables /\ serial' = ids /\ UNCHANGED left
  \/ Trouble("commit") /\ UNCHANGED database

\* A statement is refused by a constraint, or fails for reasons of its own.
Rollback(refused) ==
  /\ IF refused THEN UNCHANGED left ELSE Trouble("database")
  /\ UNCHANGED database

\* The tables without some tests or files: ON DELETE CASCADE takes what
\* belongs to them along.
WithoutFiles(tables, ids) ==
  [tables EXCEPT !.file = {r \in @ : r.id \notin ids},
                 !.meas = {r \in @ : r.file \notin ids}]

WithoutTests(tables, ids) ==
  LET rest == WithoutFiles(tables, {r.id : r \in {x \in tables.file : x.parent \in ids}})
  IN  [rest EXCEPT !.test = {r \in @ : r.id \notin ids}]

-----------------------------------------------------------------------------
(***************************************************************************)
(* The beginning: any disk, and a database that is new, or that another    *)
(* tool has filled with some of the tests and files that are on the disk,  *)
(* files of one name once.                                                 *)
(***************************************************************************)
Beds(known) == {BedOf[t] : t \in known} \ {""}

\* Files of one test with one name, S being of pairs of a test and a path.
Twins(S) == \E p, q \in S : p # q /\ p[1] = q[1] /\ NameOf[p[2]] = NameOf[q[2]]

FilesOnDisk == {p \in Test \X File : disk[p[1]].file[p[2]] # 0}

PlainTables(bed, test, file) ==
  [bed  |-> {[id |-> bed[b], name |-> Plain(b)] : b \in DOMAIN bed},
   test |-> {[id |-> test[t], name |-> Plain(t), modified |-> disk[t].modified,
              bed |-> IF BedOf[t] = "" THEN 0 ELSE bed[BedOf[t]]] : t \in DOMAIN test},
   file |-> {[id |-> file[p], name |-> Plain(NameOf[p[2]]), parent |-> test[p[1]], at |-> p,
              modified |-> disk[p[1]].file[p[2]]] : p \in DOMAIN file},
   meas |-> {[name |-> Plain(NameOf[p[2]]), parent |-> test[p[1]], file |-> file[p]]
             : p \in {q \in DOMAIN file : q[2] \in MdfFile}}]

Init ==
  /\ clock = 1 /\ left = MaxTrouble
  /\ disk \in [Test -> {NoDir} \cup [modified : {1}, file : [File -> {0, 1}]]]
  /\ FilesOnDisk \subseteq Paths
  /\ \E known \in SUBSET (IF Existing THEN {t \in Test : IsDir(t)} ELSE {}) :
       \E files \in SUBSET {p \in FilesOnDisk : p[1] \in known}, b, n, k \in 0 .. IdRing :
         \E bed \in Bijection(Beds(known), 1 .. b), test \in Bijection(known, 1 .. n),
            file \in Bijection(files, 1 .. k) :
           /\ ~ Twins(files)
           /\ stored = PlainTables(bed, test, file)
           /\ serial = [bed |-> b, test |-> n, file |-> k]
  /\ pc = "none" /\ owner = "idle" /\ stop_thread = FALSE /\ is_ok = FALSE
  /\ cycle_ok = TRUE
  /\ test_bed_list = {} /\ test_list = {} /\ test_dir_list = {}
  /\ bed_index = EmptyIndex /\ update_list = {}

(***************************************************************************)
(* The disk (external): directories and files come, change and go.  A      *)
(* directory is modified when an entry of it comes or goes; a file below a *)
(* sub directory leaves the test directory as it is, unless its sub        *)
(* directory comes or goes with it.                                        *)
(***************************************************************************)
ChangeDisk(t, dir) ==
  /\ left > 0 /\ left' = left - 1
  /\ disk' = [disk EXCEPT ![t] = dir]
  /\ UNCHANGED <<clock, database, pc, control, cycle_ok, fetched, listed, update_list>>

CreateDir(t) == ~IsDir(t) /\ ChangeDisk(t, [NoDir EXCEPT !.modified = clock])

RemoveDir(t) == IsDir(t) /\ ChangeDisk(t, NoDir)

Touched(t, f) == IF f \in SubFile THEN {disk[t].modified, clock} ELSE {clock}

SetFile(t, f, time) ==
  LET comes_or_goes == (disk[t].file[f] = 0) # (time = 0)
  IN  \E modified \in IF comes_or_goes THEN Touched(t, f) ELSE {disk[t].modified} :
        ChangeDisk(t, [modified |-> modified, file |-> [disk[t].file EXCEPT ![f] = time]])

WriteFile(t, f) == IsDir(t) /\ <<t, f>> \in Paths /\ SetFile(t, f, clock)

RemoveFile(t, f) == disk[t].file[f] # 0 /\ SetFile(t, f, 0)

Second ==
  /\ clock < MaxTime /\ clock' = clock + 1
  /\ UNCHANGED <<disk, left, database, pc, control, cycle_ok, fetched, listed, update_list>>

Disk ==
  \/ \E t \in Test : CreateDir(t) \/ RemoveDir(t)
  \/ \E t \in Test, f \in File : WriteFile(t, f) \/ RemoveFile(t, f)
  \/ Second

(***************************************************************************)
(* The owner of the object: Init, Start, Stop; and the end of the process. *)
(***************************************************************************)
InitEnvironment ==
  /\ owner = "idle" /\ pc = "none"
  /\ \/ is_ok' = TRUE /\ UNCHANGED left
     \/ is_ok' = FALSE /\ Trouble("database")
  /\ UNCHANGED <<outside, database, pc, owner, stop_thread, cycle_ok, fetched, listed, update_list>>

\* A second Start, or one without a successful Init, changes nothing.
Start ==
  /\ owner = "idle" /\ pc = "none" /\ is_ok
  /\ stop_thread' = FALSE /\ pc' = "begin"
  /\ UNCHANGED <<outside, left, database, owner, is_ok, cycle_ok, fetched, listed, update_list>>

\* Stop sets the flag, notifies without the lock, and joins the thread.
StopRequest ==
  /\ owner = "idle"
  /\ stop_thread' = TRUE /\ owner' = "notify"
  /\ UNCHANGED <<outside, left, database, pc, is_ok, cycle_ok, fetched, listed, update_list>>

StopNotify ==
  /\ owner = "notify" /\ owner' = "join"
  /\ pc' = IF pc = "asleep" THEN "wait" ELSE pc
  /\ UNCHANGED <<outside, left, database, stop_thread, is_ok, cycle_ok, fetched, listed, update_list>>

StopJoin ==
  /\ owner = "join" /\ pc \in {"none", "ended"}
  /\ owner' = "idle" /\ pc' = "none"
  /\ UNCHANGED <<outside, left, database, stop_thread, is_ok, cycle_ok, fetched, listed, update_list>>

ClearLists ==
  /\ test_bed_list' = {} /\ test_list' = {} /\ test_dir_list' = {}
  /\ bed_index' = EmptyIndex /\ update_list' = {}

Crash ==
  /\ pc # "none" /\ Trouble("crash")
  /\ pc' = "none" /\ owner' = "idle" /\ stop_thread' = FALSE /\ is_ok' = FALSE
  /\ cycle_ok' = TRUE /\ ClearLists
  /\ UNCHANGED <<outside, database>>

Owner == InitEnvironment \/ Start \/ StopRequest \/ StopNotify \/ StopJoin

(***************************************************************************)
(* WorkerThread: its begin, its end, and the wait between two cycles.      *)
(***************************************************************************)
Begin ==
  /\ pc = "begin" /\ pc' = "top" /\ is_ok' = TRUE
  /\ UNCHANGED <<outside, left, database, owner, stop_thread, cycle_ok, fetched, listed, update_list>>

End ==
  /\ pc = "top" /\ stop_thread /\ pc' = "ended" /\ is_ok' = TRUE
  /\ UNCHANGED <<outside, left, database, owner, stop_thread, cycle_ok, fetched, listed, update_list>>

\* wait_for looks at the flag and then goes to sleep; Stop does not take the
\* lock, so that its notify may come in between and is lost.
Wait ==
  /\ \/ pc = "wait" /\ pc' = IF stop_thread THEN "top" ELSE "drowsy"
     \/ pc = "drowsy" /\ pc' = "asleep"
  /\ UNCHANGED <<outside, left, database, control, cycle_ok, fetched, listed, update_list>>

\* Mutant: wait instead of wait_for.
MutWaitForever == pc = "asleep" /\ UNCHANGED vars

WaitTimeout ==
  /\ pc = "asleep" /\ pc' = "top"
  /\ UNCHANGED <<outside, left, database, control, cycle_ok, fetched, listed, update_list>>

EndCycle ==
  /\ pc' = "wait" /\ is_ok' = cycle_ok' /\ ClearLists
  /\ UNCHANGED <<owner, stop_thread>>

(***************************************************************************)
(* FetchFromDb: the four tables one after the other (the quantities and    *)
(* units, which serve the measurement data, are in MeasImport); a failure  *)
(* leaves the lists as far as they have come.                              *)
(***************************************************************************)
FetchFromDb ==
  /\ pc = "top" /\ ~stop_thread /\ pc' = "scan"
  /\ \/ test_bed_list' = stored.bed /\ test_list' = stored.test
        /\ cycle_ok' = TRUE /\ UNCHANGED left
     \/ /\ Trouble("database") /\ cycle_ok' = FALSE
        /\ test_bed_list' \in SUBSET stored.bed
        /\ test_list' \in SUBSET (IF test_bed_list' = stored.bed THEN stored.test ELSE {})
  /\ test_dir_list' = {} /\ update_list' = {}
  /\ UNCHANGED <<outside, database, control, bed_index>>

(***************************************************************************)
(* ScanRootDir: the directories with their times, or as many as it has     *)
(* come to; the cycle goes on in both cases.                               *)
(***************************************************************************)
Directories == {[name |-> t, modified |-> disk[t].modified] : t \in {x \in Test : IsDir(x)}}

ScanRootDir ==
  /\ pc = "scan" /\ pc' = "bed"
  /\ \/ test_dir_list' = Directories /\ UNCHANGED <<left, cycle_ok>>
     \/ Trouble("root") /\ cycle_ok' = FALSE /\ test_dir_list' \in SUBSET Directories
  /\ bed_index' = EmptyIndex
  /\ UNCHANGED <<outside, database, control, fetched, update_list>>

(***************************************************************************)
(* AddNewTestBed, one directory a step: no test bed, one that this cycle   *)
(* has seen (index_list), one of the database, or a new one in a scope of  *)
(* its own.  A failure ends the method; what it returns is not looked at.  *)
(***************************************************************************)
Handled == DOMAIN bed_index
SetBed(t, id) == bed_index' = [x \in Handled \cup {t} |-> IF x = t THEN id ELSE bed_index[x]]

SeenBed(t) == {bed_index[x] : x \in {y \in Handled : BedOf[y] = BedOf[t]}}
FetchedBed(t) == Ids({r \in test_bed_list : r.name = Plain(BedOf[t])})
StoredBed(t) == {r \in stored.bed : r.name = Bound(BedOf[t])}

KnownBed(t) ==
  IF BedOf[t] = "" THEN {0} ELSE IF SeenBed(t) # {} THEN SeenBed(t) ELSE FetchedBed(t)

IsNewBed(t) == KnownBed(t) = {}

InsertBed(t) ==
  \E id \in NextIds(stored.bed, serial.bed, 1) :
    /\ Leave([stored EXCEPT !.bed = @ \cup {[id |-> id, name |-> Bound(BedOf[t])]}],
             [serial EXCEPT !.bed = id])
    /\ SetBed(t, id)

AddNewTestBed ==
  /\ pc = "bed"
  /\ LET todo == {d.name : d \in test_dir_list} \ Handled
     IN  \/ todo = {} /\ pc' = "test" /\ UNCHANGED <<left, database, bed_index>>
         \/ \E t \in todo :
              \/ (\E id \in KnownBed(t) : SetBed(t, id)) /\ UNCHANGED <<left, database, pc>>
              \/ IsNewBed(t) /\ StoredBed(t) = {} /\ InsertBed(t) /\ UNCHANGED pc
              \/ /\ IsNewBed(t) /\ Rollback(StoredBed(t) # {})
                 /\ pc' = "test" /\ UNCHANGED bed_index
  /\ UNCHANGED <<outside, control, cycle_ok, fetched, test_dir_list, update_list>>

(***************************************************************************)
(* AddTest: a test that has been fetched is put on the update list when    *)
(* its directory is newer than its row (which is not written again), any   *)
(* other is inserted and put on the list with its id, before the COMMIT.   *)
(***************************************************************************)
FetchedTest(t) == {r \in test_list : r.name = Plain(t)}
Bed(t) == IF t \in Handled THEN bed_index[t] ELSE 0

Newer(time, row) == IF row.modified = Unreadable THEN BOOLEAN ELSE {time > row.modified}

NewTests == {d.name : d \in {x \in test_dir_list : FetchedTest(x.name) = {}}}

Modified ==
  {Entry(p[1].name, p[2].id) : p \in {q \in test_dir_list \X test_list :
     q[2].name = Plain(q[1].name) /\ q[1].modified > q[2].modified}}

TestRow(t, id) == [id |-> id, name |-> Bound(t), modified |-> Unreadable, bed |-> Bed(t)]

\* UNIQUE(name), and the foreign key to the test bed.
RefusedTests ==
  {t \in NewTests :
     \/ \E r \in stored.test : r.name = Bound(t)
     \/ Bed(t) # 0 /\ Bed(t) \notin Ids(stored.bed)}

\* Mutant: the copy goes on the update list before it has its index.
MutAddedBeforeIndex(id) == Modified \cup {Entry(t, 0) : t \in DOMAIN id}

Added(id) == Modified \cup {Entry(t, id[t]) : t \in DOMAIN id}

InsertTests ==
  /\ NewTests # {} /\ RefusedTests = {}
  /\ \E id \in Numberings(stored.test, serial.test, NewTests) :
       /\ Leave([stored EXCEPT !.test = @ \cup {TestRow(t, id[t]) : t \in NewTests}],
                [serial EXCEPT !.test = LastDrawn(Range(id), @)])
       /\ update_list' = Added(id)
  /\ UNCHANGED cycle_ok

InsertTestsFails ==
  /\ NewTests # {}
  /\ Rollback(RefusedTests # {}) /\ cycle_ok' = FALSE
  /\ \E done \in SUBSET (NewTests \ RefusedTests) \ {NewTests} :
       \E id \in Numberings(stored.test, serial.test, done) : update_list' = Added(id)

AddTest ==
  /\ pc = "test" /\ pc' = "delete"
  /\ \/ NewTests = {} /\ update_list' = Modified /\ UNCHANGED <<left, database, cycle_ok>>
     \/ InsertTests
     \/ InsertTestsFails
  /\ UNCHANGED <<outside, control, fetched, listed>>

(***************************************************************************)
(* DeleteTest: the tests that have been fetched and not been listed.       *)
(* Then the update of the files begins, if nothing has failed so far.      *)
(***************************************************************************)
Gone == {r \in test_list : \A d \in test_dir_list : r.name # Plain(d.name)}

\* Mutant: handle_test && DeleteTest(), so that a refused test stops it.
MutDeleteShortCircuit ==
  /\ pc = "delete"
  /\ IF Gone # {} /\ cycle_ok THEN Leave(WithoutTests(stored, Ids(Gone)), serial)
                              ELSE UNCHANGED <<left, database>>
  /\ UNCHANGED cycle_ok
  /\ IF update_list # {} /\ cycle_ok'
       THEN /\ pc' = "list"
            /\ test_dir_list' = {} /\ bed_index' = EmptyIndex
            /\ UNCHANGED <<control, fetched, update_list>>
       ELSE EndCycle
  /\ UNCHANGED outside

DeleteTest ==
  /\ pc = "delete"
  /\ \/ Gone = {} /\ UNCHANGED <<left, database, cycle_ok>>
     \/ Gone # {} /\ Leave(WithoutTests(stored, Ids(Gone)), serial) /\ UNCHANGED cycle_ok
     \/ Gone # {} /\ Rollback(FALSE) /\ cycle_ok' = FALSE
  /\ IF update_list # {} /\ cycle_ok'
       THEN /\ pc' = "list"
            /\ test_dir_list' = {} /\ bed_index' = EmptyIndex
            /\ UNCHANGED <<control, fetched, update_list>>
       ELSE EndCycle
  /\ UNCHANGED outside

(***************************************************************************)
(* ScanUpdateTest: the files in and below each test on the update list,    *)
(* twins one by one.  A failure leaves the file list it has come to        *)
(* incomplete and the next ones empty.                                     *)
(***************************************************************************)
\* Mutant: directory_iterator instead of recursive_directory_iterator.
MutScannedFlat(e, files) ==
  [e EXCEPT !.file = [f \in File |-> IF f \in files \ SubFile THEN disk[e.name].file[f] ELSE 0]]

Scanned(e, files) == [e EXCEPT !.file = [f \in File |-> IF f \in files THEN disk[e.name].file[f] ELSE 0]]

ScanUpdateTest ==
  /\ pc = "list" /\ pc' = "file"
  /\ \/ update_list' = {Scanned(e, File) : e \in update_list} /\ UNCHANGED <<left, cycle_ok>>
     \/ /\ Trouble("list") /\ cycle_ok' = FALSE
        /\ \E last \in update_list, part \in SUBSET File :
             \E done \in SUBSET (update_list \ {last}) :
               update_list' = {Scanned(e, File) : e \in done} \cup {Scanned(last, part)}
                                \cup (update_list \ (done \cup {last}))
  /\ UNCHANGED <<outside, database, control, fetched, listed>>

(***************************************************************************)
(* UpdateTestFile, one scope for all tests on the list.  A listed file     *)
(* whose name is fetched is updated when it is newer, by an UPDATE whose   *)
(* filter is the test (pix); any other is inserted; the fetched rows that  *)
(* are not listed are deleted.                                             *)
(***************************************************************************)
ListedFiles(e) == {f \in File : e.file[f] # 0}
Rows(e) == {r \in stored.file : r.parent = e.index}
Match(e, f) == {r \in Rows(e) : r.name = Plain(NameOf[f])}

NewFiles == {p \in update_list \X File : p[2] \in ListedFiles(p[1]) /\ Match(p[1], p[2]) = {}}

\* The foreign key to the test, and UNIQUE(name, test), which a stored row or
\* the row of a twin meets.
\* Mutant: foreign keys are not enforced.
MutNoForeignKeys == {p \in NewFiles : \E r \in Rows(p[1]) : r.name = Bound(NameOf[p[2]])}

RefusedFiles ==
  {p \in NewFiles :
     \/ p[1].index \notin Ids(stored.test)
     \/ \E r \in Rows(p[1]) : r.name = Bound(NameOf[p[2]])}

FilesRefused == RefusedFiles # {} \/ Twins(NewFiles)

FileRow(p, id) ==
  [id |-> id, name |-> Bound(NameOf[p[2]]), parent |-> p[1].index, at |-> <<p[1].name, p[2]>>,
   modified |-> Unreadable]

\* The files that the last UPDATE of a test may be for; "" when there is none.
Answers(e, f) == UNION {Newer(e.file[f], r) : r \in Match(e, f)}
LastUpdate(e) ==
  {f \in ListedFiles(e) : TRUE \in Answers(e, f)}
    \cup {x \in {""} : \A f \in ListedFiles(e) : Answers(e, f) # {TRUE}}

\* The UPDATE reaches every row that the test has at that moment: all the
\* fetched ones, and those of the new ones that have been inserted before.
Updated(rows, e, f) ==
  {IF r.parent = e.index THEN [r EXCEPT !.at = <<e.name, f>>, !.modified = Unreadable] ELSE r
   : r \in rows}

FilesAfter(e, id, last, before) ==
  LET mine == {p \in DOMAIN id : p[1] = e}
      inserted(S) == {FileRow(p, id[p]) : p \in S}
      all == Rows(e) \cup inserted(mine \cap before)
  IN  (IF last = "" THEN all ELSE Updated(all, e, last)) \cup inserted(mine \ before)

Unlisted(e) == {r \in Rows(e) : \A f \in ListedFiles(e) : r.name # Plain(NameOf[f])}

FileScope(id) ==
  \E last \in [update_list -> File \cup {""}], before \in SUBSET NewFiles :
    /\ \A e \in update_list :
         /\ last[e] \in LastUpdate(e)
         /\ last[e] = "" => \A p \in before : p[1] # e
    /\ LET kept == {r \in stored.file : \A e \in update_list : r.parent # e.index}
           all == kept \cup UNION {FilesAfter(e, id, last[e], before) : e \in update_list}
       IN  Leave(WithoutFiles([stored EXCEPT !.file = all],
                              UNION {Ids(Unlisted(e)) : e \in update_list}),
                 [serial EXCEPT !.file = LastDrawn(Range(id), @)])

\* test_file.index of the files that have been dealt with.
Indexed(id, done) ==
  {[e EXCEPT !.id = [f \in File |->
      IF <<e, f>> \in DOMAIN id THEN id[<<e, f>>]
      ELSE IF <<e, f>> \in done /\ f \in ListedFiles(e)
             THEN (CHOOSE r \in Match(e, f) : TRUE).id ELSE 0]]
   : e \in update_list}

UpdateFiles ==
  /\ ~ FilesRefused
  /\ \E id \in Numberings(stored.file, serial.file, NewFiles) :
       FileScope(id) /\ update_list' = Indexed(id, update_list \X File)
  /\ UNCHANGED cycle_ok

ReachedFiles(done) == \E id \in Numberings(stored.file, serial.file, done \cap NewFiles) : update_list' = Indexed(id, done)

\* Mutant: the scope is rolled back and true is returned.
MutFailsTrue == Rollback(FilesRefused) /\ ReachedFiles({}) /\ UNCHANGED cycle_ok

UpdateFilesFails ==
  /\ Rollback(FilesRefused) /\ cycle_ok' = FALSE
  /\ \E done \in SUBSET {p \in update_list \X File : p[2] \in ListedFiles(p[1])} :
       done \cap RefusedFiles = {} /\ ~ Twins(done \cap NewFiles) /\ ReachedFiles(done)

UpdateTestFile ==
  /\ pc = "file" /\ pc' = "meas"
  /\ UpdateFiles \/ UpdateFilesFails
  /\ UNCHANGED <<outside, control, fetched, listed>>

(***************************************************************************)
(* UpdateMeasFile, one scope: a measurement file that has an id and can be *)
(* read (MdfReader, external) gets a row, the fetched rows whose file is   *)
(* not listed are deleted.  UpdateMeas and what is below it are left out:  *)
(* tables of their own, in the same scope, which fail as this one does.    *)
(***************************************************************************)
MeasRows(e) == {r \in stored.meas : r.parent = e.index}

Readable ==
  LET files == {p \in update_list \X MdfFile : p[1].file[p[2]] # 0 /\ p[1].id[p[2]] # 0}
  IN  IF "mdf" \in Faults THEN SUBSET files ELSE {files}

NewMeas(files) == {p \in files : \A r \in MeasRows(p[1]) : r.name # Plain(NameOf[p[2]])}

\* The foreign keys to the test and to the file, and UNIQUE(name, test).
RefusedMeas(p) ==
  \/ p[1].index \notin Ids(stored.test) \/ p[1].id[p[2]] \notin Ids(stored.file)
  \/ \E r \in MeasRows(p[1]) : r.name = Bound(NameOf[p[2]])

UnlistedMeas ==
  {r \in stored.meas : \E e \in update_list :
     r.parent = e.index /\ \A f \in ListedFiles(e) : r.name # Plain(NameOf[f])}

MeasRow(p) == [name |-> Bound(NameOf[p[2]]), parent |-> p[1].index, file |-> p[1].id[p[2]]]

UpdateMeasFile ==
  /\ pc = "meas"
  /\ \E files \in Readable :
       LET refused == Twins(NewMeas(files)) \/ \E p \in NewMeas(files) : RefusedMeas(p)
           all == (stored.meas \ UnlistedMeas) \cup {MeasRow(p) : p \in NewMeas(files)}
       IN  \/ ~refused /\ Leave([stored EXCEPT !.meas = all], serial) /\ UNCHANGED cycle_ok
           \/ Rollback(refused) /\ cycle_ok' = FALSE
  /\ EndCycle
  /\ UNCHANGED outside

-----------------------------------------------------------------------------
Worker ==
  \/ Begin \/ End \/ Wait \/ WaitTimeout
  \/ FetchFromDb \/ ScanRootDir \/ AddNewTestBed \/ AddTest \/ DeleteTest
  \/ ScanUpdateTest \/ UpdateTestFile \/ UpdateMeasFile

Next == Disk \/ Owner \/ Crash \/ Worker

Spec == Init /\ [][Next]_vars

\* The thread runs, its wait ends after 60 seconds at the latest, and Stop
\* goes on once it has begun.
Fairness == WF_vars(Worker) /\ WF_vars(StopNotify) /\ WF_vars(StopJoin)

FairSpec == Spec /\ Fairness

-----------------------------------------------------------------------------
(***************************************************************************)
(* Properties.                                                             *)
(***************************************************************************)
Text == [text : Test \cup {NameOf[f] : f \in File} \cup {BedOf[t] : t \in Test}, quoted : BOOLEAN]
Time == 0 .. MaxTime
Dir == [modified : Time, file : [File -> Time]]

\* The variables keep their types, and the ids of a table are distinct.
TypeOK ==
  /\ disk \in [Test -> Dir] /\ clock \in Time /\ left \in 0 .. MaxTrouble
  /\ \A r \in stored.bed : r \in [id : Id, name : Text]
  /\ \A r \in stored.test : r \in [id : Id, name : Text, modified : Time \cup {Unreadable},
                                  bed : Id \cup {0}]
  /\ \A r \in stored.file : r \in [id : Id, name : Text, parent : Id, at : Test \X File,
                                  modified : Time \cup {Unreadable}]
  /\ \A r \in stored.meas : r \in [name : Text, parent : Id, file : Id]
  /\ \A rows \in {stored.bed, stored.test, stored.file} : \A r, s \in rows : r.id = s.id => r = s
  /\ serial \in [bed : 0 .. IdRing, test : 0 .. IdRing, file : 0 .. IdRing]
  /\ pc \in {"none", "begin", "top", "scan", "bed", "test", "delete", "list", "file", "meas",
             "wait", "drowsy", "asleep", "ended"}
  /\ owner \in {"idle", "notify", "join"}
  /\ stop_thread \in BOOLEAN /\ is_ok \in BOOLEAN /\ cycle_ok \in BOOLEAN
  /\ \A e \in update_list : e \in [name : Test, index : Id, file : [File -> Time],
                                  id : [File -> Id \cup {0}]]

\* Every row hangs on the right one: a file on the test whose directory it
\* lies in, a measurement on the file of its name in the same test.  The ids
\* that AddTest and UpdateTestFile hand on before their COMMIT may be of rows
\* that are rolled back and be drawn again by a later cycle.
RowsBelong ==
  /\ \A r \in stored.file : \E t \in stored.test : t.id = r.parent /\ t.name.text = r.at[1]
  /\ \A m \in stored.meas : \E r \in stored.file :
       r.id = m.file /\ r.parent = m.parent /\ r.name.text = m.name.text

\* A cycle that leaves IsOk() true has stored every test of its update list
\* with exactly the names of the files that were found for it.
ListedNames(e) == {NameOf[f] : f \in ListedFiles(e)}

FileNames(tables, id) == {r.name.text : r \in {x \in tables.file : x.parent = id}}

CycleOk == pc \in {"delete", "meas"} /\ pc' = "wait" /\ is_ok'

StoredEntry(e) ==
  /\ \E t \in stored.test : t.id = e.index /\ t.name.text = e.name
  /\ FileNames(stored', e.index) = ListedNames(e)

OkIsStored == [][CycleOk => \A e \in update_list : StoredEntry(e)]_vars

\* What another program has stored: a test, a file of it, the measurement file
\* that it is, all by their plain names.
TestStored(t) == \E r \in stored.test : r.name = Plain(t)

FileStored(t, f) ==
  \E r \in stored.test, x \in stored.file :
    r.name = Plain(t) /\ x.parent = r.id /\ x.name = Plain(NameOf[f])

MeasStored(t, f) ==
  \E r \in stored.test, x \in stored.file, m \in stored.meas :
    /\ r.name = Plain(t) /\ x.parent = r.id /\ x.name = Plain(NameOf[f])
    /\ m.file = x.id /\ m.name = Plain(NameOf[f])

\* A scan of the root directory, or of the tests, that has failed had come to
\* the directory, or the file, before.
TestSeen(t) == pc = "bed" /\ ~ cycle_ok => \E d \in test_dir_list : d.name = t

FileSeen(t, f) ==
  pc = "file" /\ ~ cycle_ok => \A e \in update_list : e.name = t => e.file[f] # 0

\* What another program has stored, the row of a test, of a file in it or of
\* a measurement file, and what is there when a cycle begins, stays as long as
\* it stands on the disk and no scan fails before it has come to it, whatever
\* else fails.  (After a scan that fails, DeleteTest and UpdateTestFile delete
\* what it has not come to; and the rows that the worker has stored itself it
\* does not find again: it deletes them and inserts them anew, in every second
\* cycle.)
BetweenCycles == pc \in {"none", "begin", "top", "wait", "drowsy", "asleep", "ended"}

KeepsTest(t) ==
  [](BetweenCycles /\ TestStored(t) /\ [](IsDir(t) /\ TestSeen(t)) => []TestStored(t))

Stands(t, f) == IsDir(t) /\ TestSeen(t) /\ disk[t].file[f] # 0 /\ FileSeen(t, f)

KeepsFile(t, f) ==
  /\ [](BetweenCycles /\ FileStored(t, f) /\ []Stands(t, f) => []FileStored(t, f))
  /\ [](BetweenCycles /\ MeasStored(t, f) /\ []Stands(t, f) => []MeasStored(t, f))

KeepsStored == \A t \in Test : KeepsTest(t) /\ \A f \in File : KeepsFile(t, f)

\* While the worker runs, and no test has twins any more, the database is
\* again and again the image of the disk, whatever has failed or crashed
\* before: nothing that a failed cycle or a scope refused because of twins has
\* left behind stops the following ones.  (As long as a test has twins, the
\* files of no test on the update list are stored.)
InSync ==
  /\ {r.name.text : r \in stored.test} = {t \in Test : IsDir(t)}
  /\ \A r \in stored.test :
       FileNames(stored, r.id) = {NameOf[p[2]] : p \in {q \in FilesOnDisk : q[1] = r.name.text}}

Running == pc \notin {"none", "ended"} /\ ~stop_thread

Recovers == <>[](Running /\ ~ Twins(FilesOnDisk)) => []<>InSync

\* Stop comes to its end although its notify may be lost.
StopEnds == owner # "idle" ~> owner = "idle"

\* UpdateTestFile: "Update file" (testdirectory.cpp:697): an update writes
\* the row of the file that is newer, so that a row names its own file.
UpdatesOneFile == \A r \in stored.file : NameOf[r.at[2]] = r.name.text
=============================================================================
