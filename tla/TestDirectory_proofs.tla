------------------------ MODULE TestDirectory_proofs ------------------------
(***************************************************************************)
(* Theorems of TestDirectory, for any directories, files, faults and      *)
(* bounds.                                                                 *)
(***************************************************************************)
EXTENDS TestDirectory, WellFoundedInduction, TLAPS

BedRecord == [id : Id, name : Text]
TestRecord == [id : Id, name : Text, modified : Time \cup {Unreadable}, bed : Id \cup {0}]
FileRecord == [id : Id, name : Text, parent : Id, at : Test \X File,
               modified : Time \cup {Unreadable}]
MeasRecord == [name : Text, parent : Id, file : Id]
ListedDir == [name : Test, modified : Time]
UpdateEntry == [name : Test, index : Id, file : [File -> Time], id : [File -> Id \cup {0}]]
Places == {"none", "begin", "top", "scan", "bed", "test", "delete", "list", "file", "meas",
           "wait", "drowsy", "asleep", "ended"}

StoredType ==
  stored \in [bed : SUBSET BedRecord, test : SUBSET TestRecord, file : SUBSET FileRecord,
              meas : SUBSET MeasRecord]

TypeInv ==
  /\ disk \in [Test -> Dir] /\ clock \in Time /\ left \in 0 .. MaxTrouble
  /\ StoredType
  /\ serial \in [bed : 0 .. IdRing, test : 0 .. IdRing, file : 0 .. IdRing]
  /\ pc \in Places /\ owner \in {"idle", "notify", "join"}
  /\ stop_thread \in BOOLEAN /\ is_ok \in BOOLEAN /\ cycle_ok \in BOOLEAN
  /\ test_bed_list \in SUBSET BedRecord /\ test_list \in SUBSET TestRecord
  /\ test_dir_list \in SUBSET ListedDir
  /\ DOMAIN bed_index \subseteq Test
  /\ \A t \in DOMAIN bed_index : bed_index[t] \in Id \cup {0}
  /\ update_list \in SUBSET UpdateEntry

-----------------------------------------------------------------------------
(***************************************************************************)
(* Drawing ids.                                                            *)
(***************************************************************************)
Less == {p \in Nat \X Nat : p[1] < p[2]}

LEMMA LessIsWellFounded == IsWellFoundedOn(Less, Nat)
<1>1. OpToRel(<, Nat) = Less
  BY DEF OpToRel, Less
<1> QED
  BY <1>1, NatLessThanWellFounded

LEMMA LeastElement ==
  ASSUME NEW T \in SUBSET Nat, T # {}
  PROVE  \E x \in T : \A y \in T : x <= y
<1>1. PICK x \in T : \A y \in T : ~ (<<y, x>> \in Less)
  BY LessIsWellFounded, WFMin
<1>2. ASSUME NEW y \in T
      PROVE  x <= y
  <2>1. x \in Nat /\ y \in Nat
    OBVIOUS
  <2>2. ~ (y < x)
    BY <1>1, <2>1 DEF Less
  <2> QED
    BY <2>1, <2>2
<1> QED
  BY <1>2

LEMMA TurnType ==
  ASSUME NEW last \in 0 .. IdRing, NEW id \in Id
  PROVE  Turn(last, id) \in 0 .. IdRing - 1
<1>1. IdRing \in Nat \ {0}
  BY TestDirectoryAssumption
<1>2. PICK k \in Nat : k = id + IdRing - last - 1
  BY <1>1 DEF Id
<1>3. k % IdRing \in 0 .. IdRing - 1
  BY <1>1
<1> QED
  BY <1>2, <1>3 DEF Turn

LEMMA LastDrawnType ==
  ASSUME NEW last \in 0 .. IdRing, NEW ids \in SUBSET Id
  PROVE  LastDrawn(ids, last) \in 0 .. IdRing
<1>1. IdRing \in Nat \ {0}
  BY TestDirectoryAssumption
<1>2. CASE ids # {}
  <2> DEFINE T == {IdRing - Turn(last, x) : x \in ids}
  <2>1. \A x \in ids : Turn(last, x) \in 0 .. IdRing - 1
    BY TurnType
  <2>2. T \in SUBSET Nat /\ T # {}
    BY <1>1, <1>2, <2>1
  <2>3. PICK z \in T : \A y \in T : z <= y
    BY <2>2, LeastElement
  <2>4. PICK id \in ids : z = IdRing - Turn(last, id)
    OBVIOUS
  <2>5. ASSUME NEW x \in ids
        PROVE  Turn(last, x) <= Turn(last, id)
    <3>1. z <= IdRing - Turn(last, x)
      BY <2>3
    <3> QED
      BY <1>1, <2>1, <2>4, <3>1
  <2>6. LastDrawn(ids, last) \in ids
    <3>1. Latest(ids, last) # {} /\ Latest(ids, last) \subseteq ids
      BY <2>5 DEF Latest
    <3>2. (CHOOSE i \in Latest(ids, last) : TRUE) \in Latest(ids, last)
      BY <3>1
    <3> QED
      BY <1>2, <3>1, <3>2 DEF LastDrawn
  <2>7. LastDrawn(ids, last) \in Id
    BY <2>6
  <2>8. \A i \in Id : i \in 0 .. IdRing
    BY <1>1 DEF Id
  <2> QED
    BY <2>7, <2>8
<1> QED
  BY <1>2 DEF LastDrawn

LEMMA NumberingsFacts ==
  ASSUME NEW rows, NEW last, NEW S, NEW id \in Numberings(rows, last, S)
  PROVE  /\ id \in [S -> Id] /\ Range(id) \in SUBSET Id
         /\ \A x, y \in S : id[x] = id[y] => x = y
         /\ \A x \in S : id[x] \notin Ids(rows)
<1>1. NextIds(rows, last, Cardinality(S)) \subseteq Id \ Ids(rows)
  BY DEF NextIds
<1>2. id \in [S -> NextIds(rows, last, Cardinality(S))]
      /\ \A x, y \in S : id[x] = id[y] => x = y
  BY DEF Numberings, Bijection, Injection, IsInjective
<1> QED
  BY <1>1, <1>2 DEF Range

-----------------------------------------------------------------------------
(***************************************************************************)
(* The invariant: the types, ids that are distinct, and rows that belong   *)
(* together, for which the lists of the worker have to be right: what it   *)
(* has fetched is stored until AddTest is done, an entry of the update     *)
(* list has the id of no test but its own, and the id of a listed file is  *)
(* the id of no stored file but its own.  An id that was drawn by a scope  *)
(* that has been rolled back may be the id of no row at all.               *)
(***************************************************************************)
Distinct(rows) == \A r, s \in rows : r.id = s.id => r = s

UniqueInv == Distinct(stored.bed) /\ Distinct(stored.test) /\ Distinct(stored.file)

TestIsOwn(e, tests) == \A t \in tests : t.id = e.index => t.name.text = e.name

FileIsOwn(e, f, files) == \A r \in files : r.id = e.id[f] => r.parent = e.index /\ r.name.text = NameOf[f]

ListInv ==
  /\ pc \in {"scan", "bed", "test", "delete"} => test_list \subseteq stored.test
  /\ \A e \in update_list : TestIsOwn(e, stored.test)
  /\ \A e, g \in update_list : e.index = g.index => e = g
  /\ \A e \in update_list : \A f \in File : FileIsOwn(e, f, stored.file)

RowsInv == TypeInv /\ UniqueInv /\ ListInv /\ RowsBelong

LEMMA BijectionFacts ==
  ASSUME NEW S, NEW T, NEW f \in Bijection(S, T)
  PROVE  f \in [S -> T] /\ \A x, y \in S : f[x] = f[y] => x = y
BY DEF Bijection, Injection, IsInjective

LEMMA DiskTypes ==
  /\ NoDir \in Dir
  /\ \A r \in [modified : {1}, file : [File -> {0, 1}]] : r \in Dir
  /\ 0 \in Time /\ 1 \in Time /\ Unreadable \notin Time
<1>1. MaxTime \in Nat \ {0}
  BY TestDirectoryAssumption
<1>2. {0, 1} \subseteq Time /\ Unreadable \notin Time
  BY <1>1 DEF Time, Unreadable
<1> QED
  BY <1>2 DEF NoDir, Dir

LEMMA RowsInitial == Init => RowsInv
<1> SUFFICES ASSUME Init
             PROVE  RowsInv
  OBVIOUS
<1>1. PICK known \in SUBSET {t \in Test : IsDir(t)} :
        \E files \in SUBSET {p \in FilesOnDisk : p[1] \in known}, b, n, k \in 0 .. IdRing :
          \E bed \in Bijection(Beds(known), 1 .. b), test \in Bijection(known, 1 .. n),
             file \in Bijection(files, 1 .. k) :
            /\ stored = PlainTables(bed, test, file)
            /\ serial = [bed |-> b, test |-> n, file |-> k]
  BY DEF Init
<1>2. PICK files \in SUBSET {p \in FilesOnDisk : p[1] \in known}, b, n, k \in 0 .. IdRing :
        \E bed \in Bijection(Beds(known), 1 .. b), test \in Bijection(known, 1 .. n),
           file \in Bijection(files, 1 .. k) :
          /\ stored = PlainTables(bed, test, file)
          /\ serial = [bed |-> b, test |-> n, file |-> k]
  BY <1>1
<1>3. PICK bed \in Bijection(Beds(known), 1 .. b), test \in Bijection(known, 1 .. n),
           file \in Bijection(files, 1 .. k) :
          /\ stored = PlainTables(bed, test, file)
          /\ serial = [bed |-> b, test |-> n, file |-> k]
  BY <1>2
<1>4. /\ bed \in [Beds(known) -> Id] /\ \A x, y \in Beds(known) : bed[x] = bed[y] => x = y
      /\ test \in [known -> Id] /\ \A x, y \in known : test[x] = test[y] => x = y
      /\ file \in [files -> Id] /\ \A x, y \in files : file[x] = file[y] => x = y
  <2>1. 1 .. b \subseteq Id /\ 1 .. n \subseteq Id /\ 1 .. k \subseteq Id
    BY TestDirectoryAssumption DEF Id
  <2> QED
    BY <2>1, BijectionFacts, SMTT(30)
<1>5. disk \in [Test -> Dir]
  BY DiskTypes DEF Init
<1>6. /\ known \subseteq Test /\ files \subseteq known \X File
      /\ \A t \in known : BedOf[t] # "" => BedOf[t] \in Beds(known)
      /\ \A x \in Beds(known) : Plain(x) \in Text
      /\ \A t \in known : Plain(t) \in Text
      /\ \A p \in files : Plain(NameOf[p[2]]) \in Text
  <2>1. \A p \in files : p \in Test \X File /\ p[1] \in known /\ p = <<p[1], p[2]>>
    BY DEF FilesOnDisk
  <2>2. \A f \in File : Plain(NameOf[f]) \in Text
    BY DEF Plain, Text
  <2> QED
    BY <2>1, <2>2 DEF Beds, Plain, Text
<1> DEFINE BedId(t) == IF BedOf[t] = "" THEN 0 ELSE bed[BedOf[t]]
           BedRow(x) == [id |-> bed[x], name |-> Plain(x)]
           OldTest(t) == [id |-> test[t], name |-> Plain(t), modified |-> disk[t].modified,
                          bed |-> BedId(t)]
           OldFile(p) == [id |-> file[p], name |-> Plain(NameOf[p[2]]), parent |-> test[p[1]], at |-> p,
                          modified |-> disk[p[1]].file[p[2]]]
           OldMeas(p) == [name |-> Plain(NameOf[p[2]]), parent |-> test[p[1]], file |-> file[p]]
<1>7. /\ stored = [bed |-> stored.bed, test |-> stored.test, file |-> stored.file,
                  meas |-> stored.meas]
      /\ stored.bed = {BedRow(x) : x \in Beds(known)}
      /\ stored.test = {OldTest(t) : t \in known}
      /\ stored.file = {OldFile(p) : p \in files}
      /\ stored.meas = {OldMeas(p) : p \in {q \in files : q[2] \in MdfFile}}
  <2>1. DOMAIN bed = Beds(known) /\ DOMAIN test = known /\ DOMAIN file = files
    BY <1>4
  <2> QED
    BY <1>3, <2>1 DEF PlainTables
<1>8. /\ \A x \in Beds(known) : BedRow(x) \in BedRecord
      /\ \A t \in known : OldTest(t) \in TestRecord
      /\ \A p \in files : OldFile(p) \in FileRecord /\ OldMeas(p) \in MeasRecord
  <2>1. ASSUME NEW t \in known
        PROVE  OldTest(t) \in TestRecord
    <3>1. disk[t].modified \in Time
      BY <1>5, <1>6 DEF Dir
    <3>2. BedId(t) \in Id \cup {0} /\ test[t] \in Id
      BY <1>4, <1>6
    <3> QED
      BY <1>6, <3>1, <3>2 DEF TestRecord
  <2>2. ASSUME NEW p \in files
        PROVE  OldFile(p) \in FileRecord /\ OldMeas(p) \in MeasRecord
    <3>1. p[1] \in known /\ p[2] \in File /\ p \in Test \X File
      BY <1>6
    <3>2. disk[p[1]].file[p[2]] \in Time
      BY <1>5, <3>1, <1>6 DEF Dir
    <3>3. file[p] \in Id /\ test[p[1]] \in Id /\ Plain(NameOf[p[2]]) \in Text
      BY <1>4, <1>6, <3>1
    <3>4. OldFile(p) \in FileRecord
      BY <3>1, <3>2, <3>3 DEF FileRecord
    <3>5. OldMeas(p) \in MeasRecord
      BY <3>3 DEF MeasRecord
    <3> QED
      BY <3>4, <3>5
  <2> QED
    BY <1>4, <1>6, <2>1, <2>2 DEF BedRecord
<1>9. StoredType
  <2> HIDE DEF BedRow, OldTest, OldFile, OldMeas
  <2>1. /\ stored.bed \subseteq BedRecord /\ stored.test \subseteq TestRecord
        /\ stored.file \subseteq FileRecord /\ stored.meas \subseteq MeasRecord
    BY <1>7, <1>8
  <2> QED
    BY <1>7, <2>1 DEF StoredType
<1>10. UniqueInv
  <2>1. ASSUME NEW r \in stored.bed, NEW s \in stored.bed, r.id = s.id
        PROVE  r = s
    <3>1. PICK x \in Beds(known), y \in Beds(known) : r = BedRow(x) /\ s = BedRow(y)
      BY <1>7
    <3> QED
      BY <1>4, <2>1, <3>1
  <2>2. ASSUME NEW r \in stored.test, NEW s \in stored.test, r.id = s.id
        PROVE  r = s
    <3>1. PICK x \in known, y \in known : r = OldTest(x) /\ s = OldTest(y)
      BY <1>7
    <3> QED
      BY <1>4, <2>2, <3>1
  <2>3. ASSUME NEW r \in stored.file, NEW s \in stored.file, r.id = s.id
        PROVE  r = s
    <3>1. PICK x \in files, y \in files : r = OldFile(x) /\ s = OldFile(y)
      BY <1>7
    <3> QED
      BY <1>4, <2>3, <3>1
  <2> QED
    BY <2>1, <2>2, <2>3 DEF UniqueInv, Distinct
<1>11. RowsBelong
  <2>1. ASSUME NEW p \in files
        PROVE  \E t \in stored.test : t.id = OldFile(p).parent /\ t.name.text = OldFile(p).at[1]
    <3>1. p[1] \in known
      BY <1>6
    <3>2. OldTest(p[1]) \in stored.test /\ OldTest(p[1]).name.text = p[1]
      BY <1>7, <3>1 DEF Plain
    <3> QED
      BY <3>2
  <2>2. ASSUME NEW p \in files, p[2] \in MdfFile
        PROVE  \E r \in stored.file : /\ r.id = OldMeas(p).file /\ r.parent = OldMeas(p).parent
                                       /\ r.name.text = OldMeas(p).name.text
    <3>1. OldFile(p) \in stored.file
      BY <1>7
    <3> QED
      BY <3>1
  <2>3. \A r \in stored.file : \E p \in files : r = OldFile(p)
    BY <1>7
  <2>4. \A m \in stored.meas : \E p \in files : p[2] \in MdfFile /\ m = OldMeas(p)
    BY <1>7
  <2> HIDE DEF OldFile, OldMeas
  <2> QED
    BY <2>1, <2>2, <2>3, <2>4 DEF RowsBelong
<1>12. TypeInv
  <2>1. clock \in Time /\ left \in 0 .. MaxTrouble
    BY DiskTypes, TestDirectoryAssumption DEF Init
  <2>2. serial \in [bed : 0 .. IdRing, test : 0 .. IdRing, file : 0 .. IdRing]
    BY <1>3
  <2> QED
    BY <1>5, <1>9, <2>1, <2>2 DEF Init, TypeInv, Places, EmptyIndex
<1>13. ListInv
  BY DEF Init, ListInv
<1> QED
  BY <1>10, <1>11, <1>12, <1>13 DEF RowsInv

-----------------------------------------------------------------------------
(***************************************************************************)
(* The steps that write no rows.                                           *)
(***************************************************************************)
LEMMA QuietStep ==
  ASSUME RowsInv, TypeInv', stored' = stored, update_list' \in {{}, update_list},
         pc' \in {"scan", "bed", "test", "delete"} =>
           \/ pc \in {"scan", "bed", "test", "delete"} /\ test_list' = test_list
           \/ test_list' \subseteq stored.test
  PROVE  RowsInv'
<1>1. UniqueInv' /\ RowsBelong'
  BY DEF RowsInv, UniqueInv, RowsBelong
<1>2. ListInv'
  BY DEF RowsInv, ListInv
<1> QED
  BY <1>1, <1>2 DEF RowsInv

LEMMA TroubleType ==
  ASSUME left \in 0 .. MaxTrouble, NEW kind, Trouble(kind)
  PROVE  left' \in 0 .. MaxTrouble
BY TestDirectoryAssumption DEF Trouble

LEMMA DiskStep == RowsInv /\ Disk => RowsInv'
<1> SUFFICES ASSUME RowsInv, Disk
             PROVE  RowsInv'
  OBVIOUS
<1>0. TypeInv /\ 0 \in Time
  BY DiskTypes DEF RowsInv
<1>1. /\ UNCHANGED <<stored, serial, pc, owner, stop_thread, is_ok, cycle_ok, test_bed_list, test_list,
                     test_dir_list, bed_index, update_list>>
  BY DEF Disk, CreateDir, RemoveDir, WriteFile, RemoveFile, SetFile, ChangeDisk, Second,
         database, control, fetched, listed
<1>2. disk' \in [Test -> Dir] /\ clock' \in Time /\ left' \in 0 .. MaxTrouble
  <2>1. ASSUME NEW t \in Test, NEW dir \in Dir, ChangeDisk(t, dir)
        PROVE  disk' \in [Test -> Dir] /\ clock' \in Time /\ left' \in 0 .. MaxTrouble
    BY <1>0, <2>1, TestDirectoryAssumption DEF TypeInv, ChangeDisk
  <2>2. CASE Second
    BY <1>0, <2>2, TestDirectoryAssumption DEF TypeInv, Second, Time
  <2>3. ASSUME NEW t \in Test, CreateDir(t) \/ RemoveDir(t)
        PROVE  \E dir \in Dir : ChangeDisk(t, dir)
    <3>1. NoDir \in Dir /\ [NoDir EXCEPT !.modified = clock] \in Dir
      BY <1>0 DEF TypeInv, NoDir, Dir
    <3> QED
      BY <2>3, <3>1 DEF CreateDir, RemoveDir
  <2>4. ASSUME NEW t \in Test, NEW f \in File, WriteFile(t, f) \/ RemoveFile(t, f)
        PROVE  \E dir \in Dir : ChangeDisk(t, dir)
    <3>1. /\ disk[t].modified \in Time /\ disk[t].file \in [File -> Time] /\ clock \in Time
      BY <1>0 DEF TypeInv, Dir
    <3>2. [disk[t].file EXCEPT ![f] = clock] \in [File -> Time]
          /\ [disk[t].file EXCEPT ![f] = 0] \in [File -> Time]
      BY <1>0, <3>1
    <3>3. \A m \in {disk[t].modified, clock} :
            /\ [modified |-> m, file |-> [disk[t].file EXCEPT ![f] = clock]] \in Dir
            /\ [modified |-> m, file |-> [disk[t].file EXCEPT ![f] = 0]] \in Dir
      BY <3>1, <3>2 DEF Dir
    <3>4. PICK time \in {clock, 0} : SetFile(t, f, time)
      BY <2>4 DEF WriteFile, RemoveFile
    <3>5. PICK m \in {disk[t].modified, clock} :
            ChangeDisk(t, [modified |-> m, file |-> [disk[t].file EXCEPT ![f] = time]])
      BY <3>4 DEF SetFile, Touched
    <3> QED
      BY <3>3, <3>5
  <2> QED
    BY <2>1, <2>2, <2>3, <2>4 DEF Disk
<1>3. TypeInv'
  BY <1>0, <1>1, <1>2 DEF TypeInv, StoredType
<1> QED
  BY <1>1, <1>3, QuietStep

LEMMA ControlStep == RowsInv /\ (Owner \/ Crash \/ Begin \/ End \/ Wait \/ WaitTimeout) => RowsInv'
<1> SUFFICES ASSUME RowsInv, Owner \/ Crash \/ Begin \/ End \/ Wait \/ WaitTimeout
             PROVE  RowsInv'
  OBVIOUS
<1>0. TypeInv
  BY DEF RowsInv
<1>1. CASE Crash
  <2>1. left' \in 0 .. MaxTrouble
    BY <1>0, <1>1, TroubleType DEF TypeInv, Crash
  <2>2. TypeInv' /\ stored' = stored /\ update_list' = {} /\ pc' = "none"
    BY <1>0, <1>1, <2>1 DEF TypeInv, Crash, ClearLists, EmptyIndex, Places, outside, database, StoredType
  <2> QED
    BY <2>2, QuietStep
<1>2. CASE ~Crash
  <2>1. /\ UNCHANGED <<disk, clock, stored, serial, cycle_ok, test_bed_list, test_list, test_dir_list,
                       bed_index, update_list>>
        /\ pc' \in Places /\ (pc' = pc \/ pc' \notin {"scan", "bed", "test", "delete"})
    BY <1>0, <1>2 DEF TypeInv, Owner, InitEnvironment, Start, StopRequest, StopNotify, StopJoin, Begin, End,
                      Wait, WaitTimeout, Places, outside, database, control, fetched, listed
  <2>2. /\ owner' \in {"idle", "notify", "join"} /\ stop_thread' \in BOOLEAN /\ is_ok' \in BOOLEAN
    BY <1>0, <1>2 DEF TypeInv, Owner, InitEnvironment, Start, StopRequest, StopNotify, StopJoin, Begin, End,
                      Wait, WaitTimeout, control
  <2>3. left' \in 0 .. MaxTrouble
    <3>1. left' = left \/ Trouble("database")
      BY <1>2 DEF Owner, InitEnvironment, Start, StopRequest, StopNotify, StopJoin, Begin, End,
                  Wait, WaitTimeout
    <3> QED
      BY <1>0, <3>1, TroubleType DEF TypeInv
  <2>4. TypeInv'
    BY <1>0, <2>1, <2>2, <2>3 DEF TypeInv, StoredType
  <2> QED
    BY <2>1, <2>4, QuietStep
<1> QED
  BY <1>1, <1>2

LEMMA FetchStep == RowsInv /\ FetchFromDb => RowsInv'
<1> SUFFICES ASSUME RowsInv, FetchFromDb
             PROVE  RowsInv'
  OBVIOUS
<1>0. TypeInv
  BY DEF RowsInv
<1>1. test_bed_list' \subseteq stored.bed /\ test_list' \subseteq stored.test
  BY DEF FetchFromDb
<1>2. cycle_ok' \in BOOLEAN /\ left' \in 0 .. MaxTrouble
  BY <1>0, TroubleType DEF TypeInv, FetchFromDb
<1>3. /\ UNCHANGED <<disk, clock, stored, serial, owner, stop_thread, is_ok, bed_index>>
      /\ pc' = "scan" /\ test_dir_list' = {} /\ update_list' = {}
  BY DEF FetchFromDb, outside, database, control
<1>4. TypeInv'
  BY <1>0, <1>1, <1>2, <1>3 DEF TypeInv, StoredType, Places
<1> QED
  BY <1>1, <1>3, <1>4, QuietStep

LEMMA ScanStep == RowsInv /\ ScanRootDir => RowsInv'
<1> SUFFICES ASSUME RowsInv, ScanRootDir
             PROVE  RowsInv'
  OBVIOUS
<1>0. TypeInv
  BY DEF RowsInv
<1>1. Directories \subseteq ListedDir
  BY <1>0 DEF TypeInv, Directories, ListedDir, Dir
<1>2. cycle_ok' \in BOOLEAN /\ left' \in 0 .. MaxTrouble /\ test_dir_list' \subseteq ListedDir
  BY <1>0, <1>1, TroubleType DEF TypeInv, ScanRootDir
<1>3. /\ UNCHANGED <<disk, clock, stored, serial, owner, stop_thread, is_ok, test_bed_list, test_list,
                     update_list>>
      /\ pc = "scan" /\ pc' = "bed" /\ bed_index' = EmptyIndex
  BY DEF ScanRootDir, outside, database, control, fetched
<1>4. TypeInv'
  BY <1>0, <1>2, <1>3 DEF TypeInv, StoredType, Places, EmptyIndex
<1> QED
  BY <1>3, <1>4, QuietStep

-----------------------------------------------------------------------------
(***************************************************************************)
(* AddNewTestBed.                                                          *)
(***************************************************************************)
LEMMA LeaveFacts ==
  ASSUME left \in 0 .. MaxTrouble, NEW tables, NEW ids, Leave(tables, ids)
  PROVE  /\ left' \in 0 .. MaxTrouble
         /\ \/ stored' = tables /\ serial' = ids
            \/ "commit" \in Faults /\ stored' = stored /\ serial' = serial
<1>1. left' = left \/ Trouble("commit")
  BY DEF Leave
<1>2. left' \in 0 .. MaxTrouble
  BY <1>1, TroubleType
<1> QED
  BY <1>2 DEF Leave, Trouble, database

LEMMA RollbackFacts ==
  ASSUME left \in 0 .. MaxTrouble, NEW refused, Rollback(refused)
  PROVE  left' \in 0 .. MaxTrouble /\ stored' = stored /\ serial' = serial
BY TroubleType DEF Rollback, database

LEMMA InsertBedFacts ==
  ASSUME RowsInv, NEW t \in Test, InsertBed(t)
  PROVE  /\ StoredType' /\ Distinct(stored'.bed)
         /\ stored'.test = stored.test /\ stored'.file = stored.file /\ stored'.meas = stored.meas
         /\ serial' \in [bed : 0 .. IdRing, test : 0 .. IdRing, file : 0 .. IdRing]
         /\ left' \in 0 .. MaxTrouble
         /\ \E id \in Id : SetBed(t, id)
<1>0. TypeInv /\ UniqueInv
  BY DEF RowsInv
<1>1. PICK id \in NextIds(stored.bed, serial.bed, 1) :
        /\ Leave([stored EXCEPT !.bed = @ \cup {[id |-> id, name |-> Bound(BedOf[t])]}],
                 [serial EXCEPT !.bed = id])
        /\ SetBed(t, id)
  BY DEF InsertBed
<1>2. id \in Id /\ \A r \in stored.bed : r.id # id
  BY DEF NextIds, Ids
<1>3. id \in 0 .. IdRing
  BY <1>2, TestDirectoryAssumption DEF Id
<1> DEFINE new == [id |-> id, name |-> Bound(BedOf[t])]
<1>4. new \in BedRecord /\ new.id = id
  BY <1>2 DEF BedRecord, Bound, Text
<1> HIDE DEF new
<1>5. /\ left' \in 0 .. MaxTrouble
      /\ \/ stored' = [stored EXCEPT !.bed = @ \cup {new}] /\ serial' = [serial EXCEPT !.bed = id]
         \/ stored' = stored /\ serial' = serial
  BY <1>0, <1>1, LeaveFacts DEF TypeInv, new
<1>6. CASE stored' = [stored EXCEPT !.bed = @ \cup {new}] /\ serial' = [serial EXCEPT !.bed = id]
  <2>1. /\ stored'.bed = stored.bed \cup {new}
        /\ stored'.test = stored.test /\ stored'.file = stored.file /\ stored'.meas = stored.meas
        /\ StoredType'
    BY <1>0, <1>4, <1>6 DEF TypeInv, StoredType
  <2>2. Distinct(stored'.bed)
    BY <1>0, <1>2, <1>4, <2>1 DEF UniqueInv, Distinct
  <2>3. serial' \in [bed : 0 .. IdRing, test : 0 .. IdRing, file : 0 .. IdRing]
    BY <1>0, <1>3, <1>6 DEF TypeInv
  <2> QED
    BY <1>1, <1>2, <1>5, <2>1, <2>2, <2>3
<1>7. CASE stored' = stored /\ serial' = serial
  BY <1>0, <1>1, <1>2, <1>5, <1>7 DEF TypeInv, StoredType, UniqueInv
<1> QED
  BY <1>5, <1>6, <1>7

LEMMA KnownBedType == ASSUME TypeInv, NEW t \in Test PROVE KnownBed(t) \subseteq Id \cup {0}
<1>1. SeenBed(t) \subseteq Id \cup {0}
  BY DEF TypeInv, SeenBed, Handled
<1>2. FetchedBed(t) \subseteq Id
  BY DEF TypeInv, FetchedBed, Ids, BedRecord
<1> QED
  BY <1>1, <1>2 DEF KnownBed

LEMMA BedStep == RowsInv /\ AddNewTestBed => RowsInv'
<1> SUFFICES ASSUME RowsInv, AddNewTestBed
             PROVE  RowsInv'
  OBVIOUS
<1>0. TypeInv /\ UniqueInv
  BY DEF RowsInv
<1>1. /\ UNCHANGED <<disk, clock, owner, stop_thread, is_ok, cycle_ok, test_bed_list, test_list,
                     test_dir_list, update_list>>
      /\ pc = "bed" /\ pc' \in {"bed", "test"}
  BY DEF AddNewTestBed, outside, control, fetched
<1>2. /\ StoredType' /\ Distinct(stored'.bed)
      /\ stored'.test = stored.test /\ stored'.file = stored.file /\ stored'.meas = stored.meas
      /\ serial' \in [bed : 0 .. IdRing, test : 0 .. IdRing, file : 0 .. IdRing]
      /\ left' \in 0 .. MaxTrouble
      /\ UNCHANGED bed_index \/ \E t \in Test : \E id \in Id \cup {0} : SetBed(t, id)
  <2>1. CASE pc' = "test" /\ UNCHANGED <<left, database, bed_index>>
    BY <1>0, <2>1 DEF TypeInv, StoredType, UniqueInv, database
  <2>2. ASSUME NEW t \in {d.name : d \in test_dir_list},
               (\E id \in KnownBed(t) : SetBed(t, id)) /\ UNCHANGED <<left, database, pc>>
        PROVE  <1>2!:
    <3>1. t \in Test
      BY <1>0 DEF TypeInv, ListedDir
    <3>2. \E id \in Id \cup {0} : SetBed(t, id)
      BY <1>0, <2>2, <3>1, KnownBedType
    <3> QED
      BY <1>0, <2>2, <3>1, <3>2 DEF TypeInv, StoredType, UniqueInv, database
  <2>3. ASSUME NEW t \in {d.name : d \in test_dir_list}, InsertBed(t)
        PROVE  <1>2!:
    <3>1. t \in Test
      BY <1>0 DEF TypeInv, ListedDir
    <3> QED
      BY <2>3, <3>1, InsertBedFacts
  <2>4. ASSUME NEW t \in {d.name : d \in test_dir_list},
               Rollback(StoredBed(t) # {}), UNCHANGED bed_index
        PROVE  <1>2!:
    <3>1. left' \in 0 .. MaxTrouble /\ stored' = stored /\ serial' = serial
      BY <1>0, <2>4, RollbackFacts DEF TypeInv
    <3> QED
      BY <1>0, <2>4, <3>1 DEF TypeInv, StoredType, UniqueInv
  <2> QED
    BY <2>1, <2>2, <2>3, <2>4 DEF AddNewTestBed
<1>3. DOMAIN bed_index' \subseteq Test /\ \A t \in DOMAIN bed_index' : bed_index'[t] \in Id \cup {0}
  <2>1. ASSUME NEW t \in Test, NEW id \in Id \cup {0}, SetBed(t, id)
        PROVE  <1>3!:
    BY <1>0, <2>1 DEF TypeInv, SetBed, Handled
  <2> QED
    BY <1>0, <1>2, <2>1 DEF TypeInv
<1>4. TypeInv'
  BY <1>0, <1>1, <1>2, <1>3 DEF TypeInv, Places
<1>5. UniqueInv' /\ RowsBelong' /\ ListInv'
  BY <1>1, <1>2 DEF RowsInv, UniqueInv, RowsBelong, ListInv
<1> QED
  BY <1>4, <1>5 DEF RowsInv

-----------------------------------------------------------------------------
(***************************************************************************)
(* AddTest.                                                                *)
(***************************************************************************)
LEMMA EntryFacts ==
  ASSUME NEW t \in Test, NEW k \in Id
  PROVE  /\ Entry(t, k) \in UpdateEntry
         /\ Entry(t, k).name = t /\ Entry(t, k).index = k
         /\ \A f \in File : Entry(t, k).id[f] = 0
<1>1. NoDir.file \in [File -> Time] /\ NoIds \in [File -> Id \cup {0}]
  BY DiskTypes DEF NoDir, NoIds
<1> QED
  BY <1>1 DEF Entry, UpdateEntry, NoIds

LEMMA ModifiedFacts ==
  ASSUME RowsInv, pc = "test", NEW e \in Modified
  PROVE  \E t \in Test : \E r \in test_list :
           /\ r \in stored.test /\ r.id \in Id /\ r.name = Plain(t) /\ e = Entry(t, r.id)
           /\ \E d \in test_dir_list : d.name = t
<1>1. test_list \subseteq stored.test /\ test_list \subseteq TestRecord /\ test_dir_list \subseteq ListedDir
  BY DEF RowsInv, TypeInv, ListInv
<1>2. PICK p \in test_dir_list \X test_list : /\ p[2].name = Plain(p[1].name)
                                              /\ e = Entry(p[1].name, p[2].id)
  BY DEF Modified
<1>3. p[1] \in test_dir_list /\ p[1].name \in Test /\ p[2] \in test_list /\ p[2].id \in Id
  BY <1>1, <1>2 DEF ListedDir, TestRecord
<1> QED
  BY <1>1, <1>2, <1>3

NewIds(id, S) ==
  /\ id \in [S -> Id] /\ \A x, y \in S : id[x] = id[y] => x = y
  /\ \A x \in S : \A r \in stored.test : r.id # id[x]

LEMMA AddedFacts ==
  ASSUME RowsInv, pc = "test", NEW S \in SUBSET Test, NEW id, NewIds(id, S)
  PROVE  /\ Added(id) \subseteq UpdateEntry
         /\ \A e, g \in Added(id) : e.index = g.index => e = g
         /\ \A e \in Added(id) : /\ TestIsOwn(e, stored.test)
                                 /\ \A t \in S : e.index = id[t] => e = Entry(t, id[t])
                                 /\ \A f \in File : e.id[f] = 0
<1>1. /\ id \in [S -> Id] /\ \A x, y \in S : id[x] = id[y] => x = y
      /\ \A x \in S : \A r \in stored.test : r.id # id[x]
  BY DEF NewIds
<1>2. \A r, s \in stored.test : r.id = s.id => r = s
  BY DEF RowsInv, UniqueInv, Distinct
<1>3. \A t, u : Plain(t) = Plain(u) => t = u
  BY DEF Plain
<1>4. \A t : Plain(t).text = t
  BY DEF Plain
<1> DEFINE Old(e, t, r) == /\ t \in Test /\ r \in stored.test /\ r.id \in Id /\ r.name = Plain(t)
                           /\ e = Entry(t, r.id)
           New(e, t) == t \in S /\ e = Entry(t, id[t])
<1>5. ASSUME NEW e \in Added(id)
      PROVE  (\E t, r : Old(e, t, r)) \/ (\E t : New(e, t))
  <2>1. CASE e \in Modified
    <3>1. PICK t \in Test : \E r \in test_list :
           /\ r \in stored.test /\ r.id \in Id /\ r.name = Plain(t) /\ e = Entry(t, r.id)
      BY <2>1, ModifiedFacts
    <3> QED
      BY <3>1
  <2>2. CASE e \in {Entry(t, id[t]) : t \in DOMAIN id}
    BY <1>1, <2>2
  <2> QED
    BY <2>1, <2>2 DEF Added
<1>6. \A e, t, r : Old(e, t, r) => /\ e \in UpdateEntry /\ e.name = t /\ e.index = r.id
                                   /\ \A f \in File : e.id[f] = 0
  BY EntryFacts
<1>7. \A e, t : New(e, t) => /\ e \in UpdateEntry /\ e.name = t /\ e.index = id[t]
                             /\ \A f \in File : e.id[f] = 0
  BY <1>1, EntryFacts
<1>8. ASSUME NEW e \in Added(id)
      PROVE  /\ e \in UpdateEntry /\ \A f \in File : e.id[f] = 0
             /\ TestIsOwn(e, stored.test)
             /\ \A t \in S : e.index = id[t] => e = Entry(t, id[t])
  <2>1. CASE \E t, r : Old(e, t, r)
    <3>1. PICK t, r : Old(e, t, r)
      BY <2>1
    <3>2. TestIsOwn(e, stored.test)
      BY <1>2, <1>4, <1>6, <3>1 DEF TestIsOwn
    <3>3. \A u \in S : e.index # id[u]
      BY <1>1, <1>6, <3>1
    <3> QED
      BY <1>6, <3>1, <3>2, <3>3
  <2>2. CASE \E t : New(e, t)
    <3>1. PICK t : New(e, t)
      BY <2>2
    <3>2. TestIsOwn(e, stored.test)
      BY <1>1, <1>7, <3>1 DEF TestIsOwn
    <3>3. \A u \in S : e.index = id[u] => u = t
      BY <1>1, <1>7, <3>1
    <3> QED
      BY <1>7, <3>1, <3>2, <3>3
  <2> QED
    BY <1>5, <2>1, <2>2
<1>9. ASSUME NEW e \in Added(id), NEW g \in Added(id), e.index = g.index
      PROVE  e = g
  <2>1. CASE \E t : New(e, t)
    BY <1>7, <1>8, <1>9, <2>1
  <2>2. CASE \E t : New(g, t)
    BY <1>7, <1>8, <1>9, <2>2
  <2>3. CASE (\E t, r : Old(e, t, r)) /\ (\E t, r : Old(g, t, r))
    <3>1. PICK t, r : Old(e, t, r)
      BY <2>3
    <3>2. PICK u, s : Old(g, u, s)
      BY <2>3
    <3>3. r = s
      BY <1>2, <1>6, <1>9, <3>1, <3>2
    <3> QED
      BY <1>3, <3>1, <3>2, <3>3
  <2> QED
    BY <1>5, <2>1, <2>2, <2>3
<1> QED
  BY <1>8, <1>9

LEMMA TestRowType ==
  ASSUME TypeInv, NEW t \in Test, NEW k \in Id
  PROVE  TestRow(t, k) \in TestRecord /\ TestRow(t, k).id = k /\ TestRow(t, k).name.text = t
<1>1. Bed(t) \in Id \cup {0} /\ Bound(t) \in Text /\ Bound(t).text = t
  BY DEF TypeInv, Bed, Handled, Bound, Text
<1> QED
  BY <1>1 DEF TestRow, TestRecord

LEMMA AddTestStep == RowsInv /\ AddTest => RowsInv'
<1> SUFFICES ASSUME RowsInv, AddTest
             PROVE  RowsInv'
  OBVIOUS
<1>0. TypeInv /\ UniqueInv /\ RowsBelong /\ ListInv
  BY DEF RowsInv
<1>1. /\ UNCHANGED <<disk, clock, owner, stop_thread, is_ok, test_bed_list, test_list,
                     test_dir_list, bed_index>>
      /\ pc = "test" /\ pc' = "delete" /\ NewTests \in SUBSET Test
  BY <1>0 DEF AddTest, outside, control, fetched, listed, NewTests, TypeInv, ListedDir
<1> DEFINE Tests(S, id) == stored.test \cup {TestRow(t, id[t]) : t \in S}
<1>2. \A S : \A id \in Numberings(stored.test, serial.test, S) : NewIds(id, S) /\ Range(id) \in SUBSET Id
  BY NumberingsFacts DEF Ids, NewIds
<1>3. \E S, id :
        /\ S \in SUBSET NewTests /\ NewIds(id, S)
        /\ update_list' = Added(id)
        /\ \/ stored' = stored /\ serial' = serial
           \/ /\ stored' = [stored EXCEPT !.test = Tests(S, id)]
              /\ serial' = [serial EXCEPT !.test = LastDrawn(Range(id), @)]
              /\ Range(id) \in SUBSET Id
        /\ left' \in 0 .. MaxTrouble /\ cycle_ok' \in BOOLEAN
  <2>1. CASE NewTests = {} /\ update_list' = Modified /\ UNCHANGED <<left, database, cycle_ok>>
    <3>1. PICK id : id = [t \in {} |-> 0]
      OBVIOUS
    <3>2. NewIds(id, {})
      BY <3>1 DEF NewIds
    <3>3. Added(id) = Modified
      BY <3>1 DEF Added
    <3> QED
      BY <1>0, <2>1, <3>2, <3>3 DEF database, TypeInv
  <2>2. CASE InsertTests
    <3>1. PICK id \in Numberings(stored.test, serial.test, NewTests) :
            /\ Leave([stored EXCEPT !.test = @ \cup {TestRow(t, id[t]) : t \in NewTests}],
                     [serial EXCEPT !.test = LastDrawn(Range(id), @)])
            /\ update_list' = Added(id)
      BY <2>2 DEF InsertTests
    <3> QED
      BY <1>0, <1>2, <2>2, <3>1, LeaveFacts DEF InsertTests, TypeInv
  <2>3. CASE InsertTestsFails
    <3>1. PICK S \in SUBSET NewTests : \E id \in Numberings(stored.test, serial.test, S) :
            update_list' = Added(id)
      BY <2>3 DEF InsertTestsFails
    <3>2. left' \in 0 .. MaxTrouble /\ stored' = stored /\ serial' = serial /\ cycle_ok' \in BOOLEAN
      BY <1>0, <2>3, RollbackFacts DEF InsertTestsFails, TypeInv
    <3> QED
      BY <1>2, <3>1, <3>2
  <2> QED
    BY <2>1, <2>2, <2>3 DEF AddTest
<1>4. PICK S, id :
        /\ S \in SUBSET NewTests /\ NewIds(id, S)
        /\ update_list' = Added(id)
        /\ \/ stored' = stored /\ serial' = serial
           \/ /\ stored' = [stored EXCEPT !.test = Tests(S, id)]
              /\ serial' = [serial EXCEPT !.test = LastDrawn(Range(id), @)]
              /\ Range(id) \in SUBSET Id
        /\ left' \in 0 .. MaxTrouble /\ cycle_ok' \in BOOLEAN
  BY <1>3
<1>5. /\ update_list' \subseteq UpdateEntry
      /\ \A e, g \in update_list' : e.index = g.index => e = g
      /\ \A e \in update_list' : /\ TestIsOwn(e, stored.test)
                                 /\ \A t \in S : e.index = id[t] => e = Entry(t, id[t])
                                 /\ \A f \in File : e.id[f] = 0
  <2>1. S \in SUBSET Test
    BY <1>1, <1>4
  <2>2. /\ Added(id) \subseteq UpdateEntry
        /\ \A e, g \in Added(id) : e.index = g.index => e = g
        /\ \A e \in Added(id) : /\ TestIsOwn(e, stored.test)
                                /\ \A t \in S : e.index = id[t] => e = Entry(t, id[t])
                                /\ \A f \in File : e.id[f] = 0
    BY <1>1, <1>4, <2>1, AddedFacts
  <2> QED
    BY <1>4, <2>2
<1>6. \A t \in S : TestRow(t, id[t]) \in TestRecord /\ TestRow(t, id[t]).id = id[t]
                 /\ TestRow(t, id[t]).name.text = t /\ Entry(t, id[t]).name = t
  <2>1. \A t \in S : t \in Test /\ id[t] \in Id
    BY <1>1, <1>4 DEF NewIds
  <2> QED
    BY <1>0, <2>1, TestRowType, EntryFacts
<1>7. /\ StoredType' /\ Distinct(stored'.test)
      /\ stored'.bed = stored.bed /\ stored'.file = stored.file /\ stored'.meas = stored.meas
      /\ serial' \in [bed : 0 .. IdRing, test : 0 .. IdRing, file : 0 .. IdRing]
      /\ stored.test \subseteq stored'.test
      /\ \A e \in update_list' : TestIsOwn(e, stored'.test)
  <2>1. CASE stored' = stored /\ serial' = serial
    BY <1>0, <1>5, <2>1 DEF TypeInv, StoredType, UniqueInv
  <2>2. CASE /\ stored' = [stored EXCEPT !.test = Tests(S, id)]
             /\ serial' = [serial EXCEPT !.test = LastDrawn(Range(id), @)]
             /\ Range(id) \in SUBSET Id
    <3>1. /\ stored'.test = Tests(S, id)
          /\ stored'.bed = stored.bed /\ stored'.file = stored.file /\ stored'.meas = stored.meas
          /\ StoredType'
      BY <1>0, <1>6, <2>2 DEF TypeInv, StoredType
    <3>2. serial' \in [bed : 0 .. IdRing, test : 0 .. IdRing, file : 0 .. IdRing]
      <4>1. LastDrawn(Range(id), serial.test) \in 0 .. IdRing
        BY <1>0, <2>2, LastDrawnType DEF TypeInv
      <4> QED
        BY <1>0, <2>2, <4>1 DEF TypeInv
    <3>3. Distinct(stored'.test)
      BY <1>0, <1>4, <1>6, <3>1 DEF UniqueInv, Distinct, NewIds
    <3>4. \A e \in update_list' : TestIsOwn(e, stored'.test)
      BY <1>5, <1>6, <3>1 DEF TestIsOwn
    <3> QED
      BY <3>1, <3>2, <3>3, <3>4
  <2> QED
    BY <1>4, <2>1, <2>2
<1>8. TypeInv'
  BY <1>0, <1>1, <1>4, <1>5, <1>7 DEF TypeInv, Places
<1>9. UniqueInv' /\ RowsBelong'
  BY <1>0, <1>7 DEF UniqueInv, RowsBelong
<1>10. ListInv'
  <2>1. \A e \in update_list' : \A f \in File : FileIsOwn(e, f, stored'.file)
    <3>1. \A r \in stored.file : r.id # 0
      BY <1>0, TestDirectoryAssumption DEF TypeInv, StoredType, FileRecord, Id
    <3> QED
      BY <1>5, <1>7, <3>1 DEF FileIsOwn
  <2> QED
    BY <1>0, <1>1, <1>5, <1>7, <2>1 DEF ListInv
<1> QED
  BY <1>8, <1>9, <1>10 DEF RowsInv

-----------------------------------------------------------------------------
(***************************************************************************)
(* DeleteTest: the cascade leaves no row without the one it belongs to.    *)
(***************************************************************************)
LEMMA CascadeFacts ==
  ASSUME RowsInv, NEW ids, stored' = WithoutTests(stored, ids)
  PROVE  /\ StoredType' /\ UniqueInv' /\ RowsBelong'
         /\ stored'.test = {r \in stored.test : r.id \notin ids}
         /\ stored'.file \subseteq stored.file
<1>0. TypeInv /\ UniqueInv /\ RowsBelong
  BY DEF RowsInv
<1> DEFINE files == {r.id : r \in {x \in stored.file : x.parent \in ids}}
<1>1. /\ stored' = [bed |-> stored.bed,
                    test |-> {r \in stored.test : r.id \notin ids},
                    file |-> {r \in stored.file : r.id \notin files},
                    meas |-> {r \in stored.meas : r.file \notin files}]
  BY <1>0 DEF WithoutTests, WithoutFiles, TypeInv, StoredType
<1>2. /\ stored'.bed = stored.bed
      /\ stored'.test = {r \in stored.test : r.id \notin ids}
      /\ stored'.file = {r \in stored.file : r.id \notin files}
      /\ stored'.meas = {r \in stored.meas : r.file \notin files}
  BY <1>1
<1>3. StoredType'
  BY <1>0, <1>1 DEF TypeInv, StoredType
<1>4. UniqueInv'
  BY <1>0, <1>2 DEF UniqueInv, Distinct
<1>5. \A r \in stored'.file : \E t \in stored'.test : t.id = r.parent /\ t.name.text = r.at[1]
  BY <1>0, <1>2 DEF RowsBelong
<1>6. \A m \in stored'.meas : \E r \in stored'.file :
        r.id = m.file /\ r.parent = m.parent /\ r.name.text = m.name.text
  <2> HIDE DEF files
  <2> QED
    BY <1>0, <1>2 DEF RowsBelong
<1> QED
  BY <1>2, <1>3, <1>4, <1>5, <1>6 DEF RowsBelong

LEMMA EndCycleType ==
  ASSUME EndCycle, cycle_ok' \in BOOLEAN
  PROVE  /\ pc' = "wait" /\ is_ok' = cycle_ok' /\ UNCHANGED <<owner, stop_thread>>
         /\ test_bed_list' = {} /\ test_list' = {} /\ test_dir_list' = {} /\ bed_index' = EmptyIndex
         /\ update_list' = {}
BY DEF EndCycle, ClearLists

LEMMA DeleteStep == RowsInv /\ DeleteTest => RowsInv'
<1> SUFFICES ASSUME RowsInv, DeleteTest
             PROVE  RowsInv'
  OBVIOUS
<1>0. TypeInv /\ UniqueInv /\ RowsBelong /\ ListInv
  BY DEF RowsInv
<1>1. /\ \/ stored' = stored /\ serial' = serial
         \/ \E ids : stored' = WithoutTests(stored, ids) /\ serial' = serial
      /\ left' \in 0 .. MaxTrouble /\ cycle_ok' \in BOOLEAN
  <2>1. CASE Gone = {} /\ UNCHANGED <<left, database, cycle_ok>>
    BY <1>0, <2>1 DEF TypeInv, database
  <2>2. CASE Gone # {} /\ Leave(WithoutTests(stored, Ids(Gone)), serial) /\ UNCHANGED cycle_ok
    BY <1>0, <2>2, LeaveFacts DEF TypeInv
  <2>3. CASE Gone # {} /\ Rollback(FALSE) /\ cycle_ok' = FALSE
    BY <1>0, <2>3, RollbackFacts DEF TypeInv
  <2> QED
    BY <2>1, <2>2, <2>3 DEF DeleteTest
<1>2. /\ UNCHANGED <<disk, clock>> /\ pc = "delete"
      /\ \/ /\ pc' = "list" /\ test_dir_list' = {} /\ bed_index' = EmptyIndex
            /\ UNCHANGED <<owner, stop_thread, is_ok, test_bed_list, test_list, update_list>>
         \/ /\ pc' = "wait" /\ is_ok' = cycle_ok' /\ UNCHANGED <<owner, stop_thread>>
            /\ test_bed_list' = {} /\ test_list' = {} /\ test_dir_list' = {} /\ bed_index' = EmptyIndex
            /\ update_list' = {}
  BY <1>1, EndCycleType DEF DeleteTest, outside, control, fetched
<1>3. /\ StoredType' /\ UniqueInv' /\ RowsBelong' /\ serial' = serial
      /\ stored'.test \subseteq stored.test /\ stored'.file \subseteq stored.file
  <2>1. CASE stored' = stored /\ serial' = serial
    BY <1>0, <2>1 DEF TypeInv, StoredType, UniqueInv, RowsBelong
  <2>2. CASE \E ids : stored' = WithoutTests(stored, ids) /\ serial' = serial
    BY <2>2, CascadeFacts
  <2> QED
    BY <1>1, <2>1, <2>2
<1>4. TypeInv'
  BY <1>0, <1>1, <1>2, <1>3 DEF TypeInv, Places, EmptyIndex
<1>5. ListInv'
  BY <1>0, <1>2, <1>3 DEF ListInv, TestIsOwn, FileIsOwn
<1> QED
  BY <1>3, <1>4, <1>5 DEF RowsInv

-----------------------------------------------------------------------------
(***************************************************************************)
(* ScanUpdateTest changes the file lists of the entries, no id.            *)
(***************************************************************************)
LEMMA ScannedFacts ==
  ASSUME TypeInv, NEW e \in update_list, NEW files
  PROVE  /\ Scanned(e, files) \in UpdateEntry
         /\ Scanned(e, files).name = e.name /\ Scanned(e, files).index = e.index
         /\ Scanned(e, files).id = e.id
<1>1. e \in UpdateEntry /\ e.name \in Test
  BY DEF TypeInv, UpdateEntry
<1>2. \A f \in File : disk[e.name].file[f] \in Time
  BY <1>1 DEF TypeInv, Dir
<1>3. PICK list : list = [f \in File |-> IF f \in files THEN disk[e.name].file[f] ELSE 0]
  OBVIOUS
<1>4. list \in [File -> Time]
  BY <1>2, <1>3, DiskTypes
<1>5. Scanned(e, files) = [e EXCEPT !.file = list]
  BY <1>3 DEF Scanned
<1> QED
  BY <1>1, <1>4, <1>5 DEF UpdateEntry

LEMMA ScanUpdateStep == RowsInv /\ ScanUpdateTest => RowsInv'
<1> SUFFICES ASSUME RowsInv, ScanUpdateTest
             PROVE  RowsInv'
  OBVIOUS
<1>0. TypeInv /\ UniqueInv /\ RowsBelong /\ ListInv
  BY DEF RowsInv
<1>1. /\ UNCHANGED <<disk, clock, stored, serial, owner, stop_thread, is_ok, test_bed_list, test_list,
                     test_dir_list, bed_index>>
      /\ pc' = "file"
  BY DEF ScanUpdateTest, outside, database, control, fetched, listed
<1>2. left' \in 0 .. MaxTrouble /\ cycle_ok' \in BOOLEAN
  BY <1>0, TroubleType DEF TypeInv, ScanUpdateTest
<1> DEFINE From(g, e) == g = e \/ \E files : g = Scanned(e, files)
<1>3. /\ \A g \in update_list' : \E e \in update_list : From(g, e)
      /\ \A g, h \in update_list' : \A e \in update_list : From(g, e) /\ From(h, e) => g = h
  <2>a. \A e \in update_list : \A g : From(g, e) => g.index = e.index
    BY <1>0, ScannedFacts
  <2>b. \A e, d \in update_list : e.index = d.index => e = d
    BY <1>0 DEF ListInv
  <2>c. \A e, d \in update_list : \A g : From(g, e) /\ From(g, d) => e = d
    BY <2>a, <2>b
  <2>1. CASE update_list' = {Scanned(e, File) : e \in update_list}
    <3>1. ASSUME NEW g \in update_list'
          PROVE  \E e \in update_list : g = Scanned(e, File) /\ From(g, e)
      BY <2>1
    <3>2. ASSUME NEW g \in update_list', NEW h \in update_list', NEW e \in update_list,
                 From(g, e), From(h, e)
          PROVE  g = h
      <4>1. PICK d \in update_list : g = Scanned(d, File) /\ From(g, d)
        BY <3>1
      <4>2. PICK c \in update_list : h = Scanned(c, File) /\ From(h, c)
        BY <3>1
      <4> HIDE DEF From
      <4>3. d = e /\ c = e
        BY <2>c, <3>2, <4>1, <4>2
      <4> QED
        BY <4>1, <4>2, <4>3
    <3> QED
      BY <3>1, <3>2
  <2>2. ASSUME NEW last \in update_list, NEW part \in SUBSET File,
               NEW done \in SUBSET (update_list \ {last}),
               update_list' = {Scanned(e, File) : e \in done} \cup {Scanned(last, part)}
                                \cup (update_list \ (done \cup {last}))
        PROVE  <1>3!:
    <3> DEFINE New(e) == IF e \in done THEN Scanned(e, File)
                         ELSE IF e = last THEN Scanned(e, part) ELSE e
    <3>1. ASSUME NEW g \in update_list'
          PROVE  \E e \in update_list : g = New(e) /\ From(g, e)
      BY <2>2
    <3>2. ASSUME NEW g \in update_list', NEW h \in update_list', NEW e \in update_list,
                 From(g, e), From(h, e)
          PROVE  g = h
      <4>1. PICK d \in update_list : g = New(d) /\ From(g, d)
        BY <3>1
      <4>2. PICK c \in update_list : h = New(c) /\ From(h, c)
        BY <3>1
      <4> HIDE DEF From, New
      <4>3. d = e /\ c = e
        BY <2>c, <3>2, <4>1, <4>2
      <4> QED
        BY <4>1, <4>2, <4>3
    <3> QED
      BY <3>1, <3>2
  <2> QED
    BY <2>1, <2>2 DEF ScanUpdateTest
<1>4. \A e \in update_list : \A g : From(g, e) =>
        g \in UpdateEntry /\ g.name = e.name /\ g.index = e.index /\ g.id = e.id
  BY <1>0, ScannedFacts DEF TypeInv
<1> HIDE DEF From
<1>5. TypeInv'
  BY <1>0, <1>1, <1>2, <1>3, <1>4 DEF TypeInv, StoredType, Places
<1>6. UniqueInv' /\ RowsBelong'
  BY <1>0, <1>1 DEF UniqueInv, RowsBelong
<1>7. ListInv'
  <2>1. \A g, h \in update_list' : g.index = h.index => g = h
    BY <1>0, <1>3, <1>4 DEF ListInv
  <2> QED
    BY <1>0, <1>1, <1>3, <1>4, <2>1 DEF ListInv, TestIsOwn, FileIsOwn
<1> QED
  BY <1>5, <1>6, <1>7 DEF RowsInv

-----------------------------------------------------------------------------
(***************************************************************************)
(* UpdateTestFile.  Every row that the scope leaves is a row that was      *)
(* stored or a new one (Base), perhaps rewritten by the UPDATE of the one  *)
(* entry it belongs to (Turned).                                           *)
(***************************************************************************)
Rewritten(s, e, f) == [s EXCEPT !.at = <<e.name, f>>, !.modified = Unreadable]

Base(id) == stored.file \cup {FileRow(p, id[p]) : p \in NewFiles}

Turned(id, last, before, s, e) ==
  IF last[e] # "" /\ (s \in stored.file \/ \E p \in before : s = FileRow(p, id[p]))
  THEN Rewritten(s, e, last[e]) ELSE s

Same(r, s) == r.id = s.id /\ r.name = s.name /\ r.parent = s.parent

NewFileIds(id, S) ==
  /\ id \in [S -> Id] /\ \A x, y \in S : id[x] = id[y] => x = y
  /\ \A x \in S : \A r \in stored.file : r.id # id[x]

LEMMA NewFileFacts ==
  ASSUME TypeInv, NEW p \in NewFiles, NEW k \in Id
  PROVE  /\ p[1] \in update_list /\ p[2] \in File /\ p = <<p[1], p[2]>>
         /\ p[1] \in UpdateEntry /\ p[1].index \in Id /\ p[1].name \in Test
         /\ FileRow(p, k) \in FileRecord /\ FileRow(p, k).id = k
         /\ FileRow(p, k).parent = p[1].index /\ FileRow(p, k).name = Bound(NameOf[p[2]])
         /\ FileRow(p, k).at = <<p[1].name, p[2]>>
         /\ Bound(NameOf[p[2]]).text = NameOf[p[2]]
<1>1. p[1] \in update_list /\ p[2] \in File /\ p = <<p[1], p[2]>>
  BY DEF NewFiles
<1>2. p[1] \in UpdateEntry /\ p[1].index \in Id /\ p[1].name \in Test
  BY <1>1 DEF TypeInv, UpdateEntry
<1>3. Bound(NameOf[p[2]]) \in Text /\ Bound(NameOf[p[2]]).text = NameOf[p[2]]
  BY <1>1 DEF Bound, Text
<1> QED
  BY <1>1, <1>2, <1>3 DEF FileRow, FileRecord

LEMMA RewrittenFacts ==
  ASSUME TypeInv, NEW s \in FileRecord, NEW e \in update_list, NEW f \in File
  PROVE  /\ Rewritten(s, e, f) \in FileRecord /\ Same(Rewritten(s, e, f), s)
         /\ Rewritten(s, e, f).at[1] = e.name
<1>1. e.name \in Test
  BY DEF TypeInv, UpdateEntry
<1> QED
  BY <1>1 DEF Rewritten, Same, FileRecord

LEMMA BaseFacts ==
  ASSUME RowsInv, NEW id, NewFileIds(id, NewFiles), RefusedFiles = {}
  PROVE  /\ Base(id) \subseteq FileRecord /\ Distinct(Base(id))
         /\ \A s \in Base(id) : \E t \in stored.test : t.id = s.parent /\ t.name.text = s.at[1]
<1>0. TypeInv /\ UniqueInv /\ RowsBelong /\ ListInv /\ stored.file \subseteq FileRecord
  BY DEF RowsInv, TypeInv, StoredType
<1>1. \A p \in NewFiles : /\ p[1] \in update_list
                          /\ FileRow(p, id[p]) \in FileRecord /\ FileRow(p, id[p]).id = id[p]
                          /\ FileRow(p, id[p]).parent = p[1].index
                          /\ FileRow(p, id[p]).at[1] = p[1].name
  <2>1. ASSUME NEW p \in NewFiles
        PROVE  id[p] \in Id
    BY DEF NewFileIds
  <2>2. ASSUME NEW p \in NewFiles
        PROVE  FileRow(p, id[p]).at[1] = p[1].name
    BY DEF FileRow
  <2> QED
    BY <1>0, <2>1, <2>2, NewFileFacts
<1>2. ASSUME NEW p \in NewFiles
      PROVE  \E t \in stored.test : t.id = p[1].index /\ t.name.text = p[1].name
  <2>1. PICK t \in stored.test : t.id = p[1].index
    BY DEF RefusedFiles, Ids
  <2>2. TestIsOwn(p[1], stored.test)
    BY <1>0, <1>1 DEF ListInv
  <2> QED
    BY <2>1, <2>2 DEF TestIsOwn
<1>3. Distinct(Base(id))
  BY <1>0, <1>1 DEF Distinct, Base, NewFileIds, UniqueInv
<1>4. \A s \in Base(id) : \E t \in stored.test : t.id = s.parent /\ t.name.text = s.at[1]
  BY <1>0, <1>1, <1>2 DEF Base, RowsBelong
<1> QED
  BY <1>0, <1>1, <1>3, <1>4 DEF Base

LEMMA TurnedFacts ==
  ASSUME RowsInv, NEW id, NewFileIds(id, NewFiles), NEW before \in SUBSET NewFiles,
         NEW last \in [update_list -> File \cup {""}], NEW e \in update_list
  PROVE  /\ \A r \in FilesAfter(e, id, last[e], before) :
              \E s \in Base(id) : s.parent = e.index /\ r = Turned(id, last, before, s, e)
         /\ \A s \in stored.file : s.parent = e.index =>
              Turned(id, last, before, s, e) \in FilesAfter(e, id, last[e], before)
         /\ \A p \in NewFiles : p[1] = e =>
              Turned(id, last, before, FileRow(p, id[p]), e) \in FilesAfter(e, id, last[e], before)
<1>0. TypeInv
  BY DEF RowsInv
<1>1. DOMAIN id = NewFiles /\ \A p \in NewFiles : id[p] \in Id
  BY DEF NewFileIds
<1>2. \A p \in NewFiles : FileRow(p, id[p]).parent = p[1].index /\ FileRow(p, id[p]).id = id[p]
  BY <1>0, <1>1, NewFileFacts
<1>3. ASSUME NEW p \in NewFiles, NEW q \in NewFiles, FileRow(p, id[p]) = FileRow(q, id[q])
      PROVE  p = q
  <2>1. id[p] = id[q]
    BY <1>2, <1>3
  <2> QED
    BY <2>1 DEF NewFileIds
<1>4. \A p \in NewFiles : FileRow(p, id[p]) \notin stored.file
  BY <1>2 DEF NewFileIds
<1> DEFINE mine == {p \in NewFiles : p[1] = e}
           inserted(S) == {FileRow(p, id[p]) : p \in S}
           all == Rows(e) \cup inserted(mine \cap before)
<1>5. FilesAfter(e, id, last[e], before) =
        (IF last[e] = "" THEN all ELSE Updated(all, e, last[e])) \cup inserted(mine \ before)
  BY <1>1 DEF FilesAfter
<1>6. \A s \in all : s.parent = e.index /\ s \in Base(id)
                     /\ (s \in stored.file \/ \E p \in before : s = FileRow(p, id[p]))
  BY <1>2 DEF Rows, Base
<1>7. \A s \in inserted(mine \ before) : /\ s.parent = e.index /\ s \in Base(id) /\ s \notin stored.file
                                         /\ \A p \in before : s # FileRow(p, id[p])
  <2>1. ASSUME NEW q \in mine \ before
        PROVE  /\ FileRow(q, id[q]).parent = e.index /\ FileRow(q, id[q]) \in Base(id)
               /\ FileRow(q, id[q]) \notin stored.file
               /\ \A p \in before : FileRow(q, id[q]) # FileRow(p, id[p])
    BY <1>2, <1>3, <1>4 DEF Base
  <2> QED
    BY <2>1
<1>8. \A s \in stored.file : s.parent = e.index => s \in all
  BY DEF Rows
<1>9. \A p \in mine : FileRow(p, id[p]) \in all \cup inserted(mine \ before)
  OBVIOUS
<1> HIDE DEF all, inserted
<1>10. Updated(all, e, last[e]) = {Rewritten(s, e, last[e]) : s \in all}
  BY <1>6 DEF Updated, Rewritten
<1>11. \A s \in all : Turned(id, last, before, s, e) = IF last[e] = "" THEN s ELSE Rewritten(s, e, last[e])
  BY <1>6 DEF Turned
<1>12. \A s \in inserted(mine \ before) : Turned(id, last, before, s, e) = s
  BY <1>7 DEF Turned
<1>13. \A r : r \in FilesAfter(e, id, last[e], before) <=>
                \E s \in all \cup inserted(mine \ before) : r = Turned(id, last, before, s, e)
  <2>1. CASE last[e] = ""
    BY <1>5, <1>11, <1>12, <2>1
  <2>2. CASE last[e] # ""
    <3>1. FilesAfter(e, id, last[e], before) =
            {Rewritten(s, e, last[e]) : s \in all} \cup inserted(mine \ before)
      BY <1>5, <1>10, <2>2
    <3>2. \A s \in all : Turned(id, last, before, s, e) = Rewritten(s, e, last[e])
      BY <1>11, <2>2
    <3>3. PICK rest : rest = inserted(mine \ before)
      OBVIOUS
    <3>4. \A s \in rest : Turned(id, last, before, s, e) = s
      BY <1>12, <3>3
    <3>5. \A r : r \in FilesAfter(e, id, last[e], before) <=>
                   (\E s \in all : r = Rewritten(s, e, last[e])) \/ r \in rest
      BY <3>1, <3>3
    <3>6. ASSUME NEW r, r \in FilesAfter(e, id, last[e], before)
          PROVE  \E s \in all \cup rest : r = Turned(id, last, before, s, e)
      BY <3>2, <3>4, <3>5, <3>6
    <3>7. ASSUME NEW s \in all \cup rest
          PROVE  Turned(id, last, before, s, e) \in FilesAfter(e, id, last[e], before)
      BY <3>2, <3>4, <3>5
    <3> QED
      BY <3>3, <3>6, <3>7
  <2> QED
    BY <2>1, <2>2
<1>14. \A r \in FilesAfter(e, id, last[e], before) :
         \E s \in Base(id) : s.parent = e.index /\ r = Turned(id, last, before, s, e)
  BY <1>6, <1>7, <1>13
<1>15. \A s \in stored.file : s.parent = e.index =>
         Turned(id, last, before, s, e) \in FilesAfter(e, id, last[e], before)
  BY <1>8, <1>13
<1>16. \A p \in NewFiles : p[1] = e =>
         Turned(id, last, before, FileRow(p, id[p]), e) \in FilesAfter(e, id, last[e], before)
  BY <1>9, <1>13
<1> QED
  BY <1>14, <1>15, <1>16

FilesLeft(id, last, before) ==
  {r \in stored.file : \A e \in update_list : r.parent # e.index}
    \cup UNION {FilesAfter(e, id, last[e], before) : e \in update_list}

LEMMA FilesLeftFacts ==
  ASSUME RowsInv, NEW id, NewFileIds(id, NewFiles), RefusedFiles = {}, NEW before \in SUBSET NewFiles,
         NEW last \in [update_list -> File \cup {""}]
  PROVE  /\ FilesLeft(id, last, before) \subseteq FileRecord /\ Distinct(FilesLeft(id, last, before))
         /\ \A r \in FilesLeft(id, last, before) :
              /\ \E t \in stored.test : t.id = r.parent /\ t.name.text = r.at[1]
              /\ \E s \in Base(id) : Same(r, s)
         /\ \A s \in Base(id) : \E r \in FilesLeft(id, last, before) : Same(r, s)
<1>0. TypeInv /\ UniqueInv /\ RowsBelong /\ ListInv
  BY DEF RowsInv
<1>1. /\ Base(id) \subseteq FileRecord /\ Distinct(Base(id))
      /\ \A s \in Base(id) : \E t \in stored.test : t.id = s.parent /\ t.name.text = s.at[1]
  BY BaseFacts
<1> DEFINE all == FilesLeft(id, last, before)
           T(s, e) == Turned(id, last, before, s, e)
           Untouched(s) == s \in stored.file /\ \A e \in update_list : s.parent # e.index
<1>2. \A s \in Base(id), e \in update_list :
        /\ T(s, e) \in FileRecord /\ Same(T(s, e), s)
        /\ T(s, e) = s \/ T(s, e).at[1] = e.name
  <2>1. ASSUME NEW s \in Base(id), NEW e \in update_list
        PROVE  /\ T(s, e) \in FileRecord /\ Same(T(s, e), s)
               /\ T(s, e) = s \/ T(s, e).at[1] = e.name
    <3>1. CASE T(s, e) = s
      BY <1>1, <3>1 DEF Same
    <3>2. CASE T(s, e) # s
      <4>1. PICK f \in File : T(s, e) = Rewritten(s, e, f)
        BY <3>2 DEF Turned
      <4>2. s \in FileRecord
        BY <1>1
      <4> HIDE DEF T
      <4> QED
        BY <1>0, <4>1, <4>2, RewrittenFacts
    <3> QED
      BY <3>1, <3>2
  <2> QED
    BY <2>1
<1>a. \A e \in update_list :
        /\ \A r \in FilesAfter(e, id, last[e], before) :
             \E s \in Base(id) : s.parent = e.index /\ r = T(s, e)
        /\ \A s \in stored.file : s.parent = e.index =>
             T(s, e) \in FilesAfter(e, id, last[e], before)
        /\ \A p \in NewFiles : p[1] = e =>
             T(FileRow(p, id[p]), e) \in FilesAfter(e, id, last[e], before)
  BY TurnedFacts
<1>b. \A r : r \in all <=> \/ Untouched(r)
                          \/ \E e \in update_list : r \in FilesAfter(e, id, last[e], before)
  BY DEF FilesLeft
<1> HIDE DEF T, all
<1>3. \A r \in all : \/ Untouched(r)
                     \/ \E e \in update_list : \E s \in Base(id) : s.parent = e.index /\ r = T(s, e)
  <2>1. ASSUME NEW r \in all, ~Untouched(r)
        PROVE  \E e \in update_list : \E s \in Base(id) : s.parent = e.index /\ r = T(s, e)
    <3>1. PICK e \in update_list : r \in FilesAfter(e, id, last[e], before)
      BY <1>b, <2>1
    <3> QED
      BY <1>a, <3>1
  <2> QED
    BY <2>1
<1>4. \A s \in Base(id) : \/ Untouched(s) /\ s \in all
                          \/ \E e \in update_list : s.parent = e.index /\ T(s, e) \in all
  <2>1. ASSUME NEW s \in stored.file
        PROVE  \/ Untouched(s) /\ s \in all
               \/ \E e \in update_list : s.parent = e.index /\ T(s, e) \in all
    BY <1>a, <1>b
  <2>2. ASSUME NEW p \in NewFiles
        PROVE  \E e \in update_list : FileRow(p, id[p]).parent = e.index /\ T(FileRow(p, id[p]), e) \in all
    <3>1. id[p] \in Id
      BY DEF NewFileIds
    <3>2. p[1] \in update_list /\ FileRow(p, id[p]).parent = p[1].index
      BY <1>0, <3>1, NewFileFacts
    <3>3. T(FileRow(p, id[p]), p[1]) \in FilesAfter(p[1], id, last[p[1]], before)
      BY <1>a, <3>2
    <3> QED
      BY <1>b, <3>2, <3>3
  <2> QED
    BY <2>1, <2>2 DEF Base
<1>5. \A r \in all : Untouched(r) => r \in Base(id) /\ Same(r, r)
  BY DEF Base, Same
<1>6. ASSUME NEW r \in all
      PROVE  /\ r \in FileRecord /\ \E s \in Base(id) : Same(r, s)
             /\ \E t \in stored.test : t.id = r.parent /\ t.name.text = r.at[1]
  <2>1. CASE Untouched(r)
    BY <1>1, <1>5, <2>1
  <2>2. CASE ~Untouched(r)
    <3>1. PICK e \in update_list : \E s \in Base(id) : s.parent = e.index /\ r = T(s, e)
      BY <1>3, <2>2
    <3>2. PICK s \in Base(id) : s.parent = e.index /\ r = T(s, e)
      BY <3>1
    <3>3. PICK t \in stored.test : t.id = s.parent /\ t.name.text = s.at[1]
      BY <1>1
    <3>4. TestIsOwn(e, stored.test)
      BY <1>0 DEF ListInv
    <3>5. t.id = r.parent /\ t.name.text = r.at[1]
      BY <1>2, <3>2, <3>3, <3>4 DEF Same, TestIsOwn
    <3> QED
      BY <1>2, <3>2, <3>5
  <2> QED
    BY <2>1, <2>2
<1>7. ASSUME NEW q \in all, NEW r \in all, q.id = r.id
      PROVE  q = r
  <2>0. ASSUME NEW x \in all
        PROVE  \E s \in Base(id) : /\ Same(x, s)
                                   /\ \/ Untouched(x) /\ x = s
                                      \/ \E e \in update_list : s.parent = e.index /\ x = T(s, e)
    <3>1. CASE Untouched(x)
      BY <1>5, <3>1
    <3>2. CASE ~Untouched(x)
      <4>1. PICK e \in update_list, s \in Base(id) : s.parent = e.index /\ x = T(s, e)
        BY <1>3, <3>2
      <4>2. Same(x, s)
        BY <1>2, <4>1
      <4> QED
        BY <4>1, <4>2
    <3> QED
      BY <3>1, <3>2
  <2>1. PICK s \in Base(id) : /\ Same(q, s)
                              /\ \/ Untouched(q) /\ q = s
                                 \/ \E e \in update_list : s.parent = e.index /\ q = T(s, e)
    BY <2>0
  <2>2. PICK u \in Base(id) : /\ Same(r, u)
                              /\ \/ Untouched(r) /\ r = u
                                 \/ \E e \in update_list : u.parent = e.index /\ r = T(u, e)
    BY <2>0
  <2>3. s = u
    BY <1>1, <1>7, <2>1, <2>2 DEF Same, Distinct
  <2>4. \A e, d \in update_list : e.index = d.index => e = d
    BY <1>0 DEF ListInv
  <2>5. CASE Untouched(q) /\ q = s
    BY <2>2, <2>3, <2>5
  <2>6. CASE \E e \in update_list : s.parent = e.index /\ q = T(s, e)
    <3>1. PICK e \in update_list : s.parent = e.index /\ q = T(s, e)
      BY <2>6
    <3>2. ~ (Untouched(r) /\ r = u)
      BY <2>3, <3>1
    <3>3. PICK d \in update_list : u.parent = d.index /\ r = T(u, d)
      BY <2>2, <3>2
    <3>4. e = d
      BY <2>3, <2>4, <3>1, <3>3
    <3> QED
      BY <2>3, <3>1, <3>3, <3>4
  <2> QED
    BY <2>1, <2>5, <2>6
<1>8. \A s \in Base(id) : \E r \in all : Same(r, s)
  BY <1>2, <1>4, <1>5
<1>9. Distinct(all)
  BY <1>7 DEF Distinct
<1> QED
  BY <1>6, <1>8, <1>9 DEF all

\* The ids that the entries have after the loop over their files.
IndexOf(id, done, e) ==
  [e EXCEPT !.id = [f \in File |->
      IF <<e, f>> \in DOMAIN id THEN id[<<e, f>>]
      ELSE IF <<e, f>> \in done /\ f \in ListedFiles(e)
             THEN (CHOOSE r \in Match(e, f) : TRUE).id ELSE 0]]

\* The new ones of the files that have been dealt with.
Reached(done, S) == \A p \in NewFiles : p \in done => p \in S

\* The stored files, and perhaps the new ones.
FileBase(base, id, S) ==
  /\ Distinct(base) /\ stored.file \subseteq base
  /\ \A s \in base :
       /\ s.id # 0
       /\ \/ s \in stored.file
          \/ \E p \in S : s.id = id[p] /\ s.parent = p[1].index /\ s.name = Bound(NameOf[p[2]])

\* The files of S have been numbered, and done dealt with.
Indexing(id, S, done) ==
  /\ S \subseteq NewFiles /\ NewFileIds(id, S) /\ Reached(done, S)

\* What an entry e has become by that.
IsIndexed(g, e, id, S) ==
  /\ g \in UpdateEntry
  /\ g.name = e.name /\ g.index = e.index /\ g.file = e.file
  /\ \A f \in File :
       \/ <<e, f>> \in S /\ g.id[f] = id[<<e, f>>]
       \/ \E r \in stored.file : r.parent = e.index /\ r.name = Plain(NameOf[f]) /\ g.id[f] = r.id
       \/ g.id[f] = 0

LEMMA IndexFacts ==
  ASSUME RowsInv, NEW id, NEW S, NEW done, Indexing(id, S, done), NEW e \in update_list
  PROVE  IsIndexed(IndexOf(id, done, e), e, id, S)
<1>0. /\ TypeInv /\ e \in UpdateEntry /\ stored.file \subseteq FileRecord
      /\ S \subseteq NewFiles /\ NewFileIds(id, S) /\ Reached(done, S)
  BY DEF RowsInv, TypeInv, StoredType, Indexing
<1> DEFINE ids == [f \in File |->
                     IF <<e, f>> \in DOMAIN id THEN id[<<e, f>>]
                     ELSE IF <<e, f>> \in done /\ f \in ListedFiles(e)
                            THEN (CHOOSE r \in Match(e, f) : TRUE).id ELSE 0]
<1>1. ASSUME NEW f \in File
      PROVE  \/ <<e, f>> \in S /\ ids[f] = id[<<e, f>>] /\ ids[f] \in Id
             \/ \E r \in stored.file : /\ r.parent = e.index /\ r.name = Plain(NameOf[f])
                                       /\ ids[f] = r.id /\ r.id \in Id
             \/ ids[f] = 0
  <2>0. DOMAIN id = S /\ \A p \in S : id[p] \in Id
    BY <1>0 DEF NewFileIds
  <2>1. CASE <<e, f>> \in S
    BY <2>0, <2>1
  <2>2. CASE <<e, f>> \notin S /\ <<e, f>> \in done /\ f \in ListedFiles(e)
    <3>1. <<e, f>> \notin NewFiles
      BY <1>0, <2>2 DEF Reached
    <3>2. Match(e, f) # {}
      BY <2>2, <3>1 DEF NewFiles
    <3>3. PICK r \in Match(e, f) : r = CHOOSE x \in Match(e, f) : TRUE
      BY <3>2
    <3>4. r \in stored.file /\ r.parent = e.index /\ r.name = Plain(NameOf[f]) /\ r.id \in Id
      BY <1>0, <3>3 DEF Match, Rows, FileRecord
    <3>5. ids[f] = r.id
      BY <2>0, <2>2, <3>3
    <3> QED
      BY <3>4, <3>5
  <2>3. CASE <<e, f>> \notin S /\ ~(<<e, f>> \in done /\ f \in ListedFiles(e))
    BY <2>0, <2>3
  <2> QED
    BY <2>1, <2>2, <2>3
<1>2. IndexOf(id, done, e) = [e EXCEPT !.id = ids]
  BY DEF IndexOf
<1>3. ids \in [File -> Id \cup {0}]
  <2>1. \A f \in File : ids[f] \in Id \cup {0}
    BY <1>1
  <2> QED
    BY <2>1
<1> HIDE DEF ids
<1>4. /\ IndexOf(id, done, e) \in UpdateEntry /\ IndexOf(id, done, e).id = ids
      /\ IndexOf(id, done, e).name = e.name /\ IndexOf(id, done, e).index = e.index
      /\ IndexOf(id, done, e).file = e.file
  BY <1>0, <1>2, <1>3 DEF UpdateEntry
<1> QED
  BY <1>1, <1>4 DEF IsIndexed

\* The entries stay right when the files are those of a base without the new
\* ids, or with the new rows that have them.
\* What the update list may be, when these are the files.
EntriesAreOwn(list, files) ==
  /\ list \subseteq UpdateEntry
  /\ \A g, h \in list : g.index = h.index => g = h
  /\ \A g \in list : TestIsOwn(g, stored.test)
  /\ \A g \in list : \A f \in File : FileIsOwn(g, f, files)

FilesOf(files, base) == \A r \in files : \E s \in base : Same(r, s)

LEMMA IndexedFacts ==
  ASSUME RowsInv, NEW id, NEW S, NEW done, Indexing(id, S, done),
         NEW base, FileBase(base, id, S), NEW files, FilesOf(files, base)
  PROVE  EntriesAreOwn(Indexed(id, done), files)
<1>0. TypeInv /\ ListInv
  BY DEF RowsInv
<1> DEFINE Ix(e) == IndexOf(id, done, e)
<1>1. \A g \in Indexed(id, done) : \E e \in update_list : g = Ix(e)
  BY DEF Indexed, IndexOf
<1>b. ASSUME NEW e \in update_list
      PROVE  IsIndexed(Ix(e), e, id, S)
  BY IndexFacts
<1> HIDE DEF Ix
<1>2. ASSUME NEW e \in update_list
      PROVE  /\ Ix(e) \in UpdateEntry /\ Ix(e).name = e.name /\ Ix(e).index = e.index
             /\ \A f \in File :
                  \/ <<e, f>> \in S /\ Ix(e).id[f] = id[<<e, f>>]
                  \/ \E r \in stored.file : /\ r.parent = e.index /\ r.name = Plain(NameOf[f])
                                            /\ Ix(e).id[f] = r.id
                  \/ Ix(e).id[f] = 0
  BY <1>b DEF IsIndexed
<1>3. ASSUME NEW e \in update_list, NEW f \in File
      PROVE  FileIsOwn(Ix(e), f, files)
  <2>0. PICK k, p : k = Ix(e).id[f] /\ p = <<e, f>>
    OBVIOUS
  <2>1. \/ p \in S /\ k = id[p]
        \/ \E m \in stored.file : m.parent = e.index /\ m.name = Plain(NameOf[f]) /\ k = m.id
        \/ k = 0
    BY <1>2, <2>0
  <2>2. ASSUME NEW r \in files, r.id = k
        PROVE  r.parent = e.index /\ r.name.text = NameOf[f]
    <3>1. PICK s \in base : r.id = s.id /\ r.name = s.name /\ r.parent = s.parent
      BY DEF FilesOf, Same
    <3>2. s.id = k
      BY <2>2, <3>1
    <3>3. CASE p \in S /\ k = id[p]
      <4>1. \A m \in stored.file : m.id # k
        BY <3>3 DEF Indexing, NewFileIds
      <4>2. PICK q \in S : s.id = id[q] /\ s.parent = q[1].index /\ s.name = Bound(NameOf[q[2]])
        BY <3>2, <4>1 DEF FileBase
      <4>3. q = p
        BY <3>2, <3>3, <4>2 DEF Indexing, NewFileIds
      <4>4. q[1] = e /\ q[2] = f
        BY <2>0, <4>3
      <4> QED
        BY <3>1, <4>2, <4>4 DEF Bound
    <3>4. CASE \E m \in stored.file : m.parent = e.index /\ m.name = Plain(NameOf[f]) /\ k = m.id
      <4>1. PICK m \in stored.file : m.parent = e.index /\ m.name = Plain(NameOf[f]) /\ k = m.id
        BY <3>4
      <4>2. s = m
        BY <3>2, <4>1 DEF FileBase, Distinct
      <4> QED
        BY <3>1, <4>1, <4>2 DEF Plain
    <3>5. CASE k = 0
      BY <3>2, <3>5 DEF FileBase
    <3> QED
      BY <2>1, <3>3, <3>4, <3>5
  <2> QED
    BY <1>2, <2>0, <2>2 DEF FileIsOwn
<1>4. \A g, h \in Indexed(id, done) : g.index = h.index => g = h
  BY <1>0, <1>1, <1>2 DEF ListInv
<1>5. \A g \in Indexed(id, done) : TestIsOwn(g, stored.test)
  BY <1>0, <1>1, <1>2 DEF ListInv, TestIsOwn
<1> QED
  BY <1>1, <1>2, <1>3, <1>4, <1>5 DEF EntriesAreOwn

GoneFiles == UNION {Ids(Unlisted(e)) : e \in update_list}

\* What a committed scope leaves, before the unlisted rows go.
FilesCommitted(id, all) ==
  /\ stored' = [bed |-> stored.bed, test |-> stored.test,
                file |-> {r \in all : r.id \notin GoneFiles},
                meas |-> {r \in stored.meas : r.file \notin GoneFiles}]
  /\ serial' = [serial EXCEPT !.file = LastDrawn(Range(id), @)]
  /\ all \subseteq FileRecord /\ Distinct(all)
  /\ \A r \in all : /\ \E t \in stored.test : t.id = r.parent /\ t.name.text = r.at[1]
                     /\ \E s \in Base(id) : Same(r, s)
  /\ \A s \in Base(id) : \E r \in all : Same(r, s)

LEMMA FileScopeFacts ==
  ASSUME RowsInv, RefusedFiles = {}, NEW id \in Numberings(stored.file, serial.file, NewFiles),
         FileScope(id)
  PROVE  /\ NewFileIds(id, NewFiles) /\ left' \in 0 .. MaxTrouble
         /\ \/ "commit" \in Faults /\ stored' = stored /\ serial' = serial
            \/ \E all : FilesCommitted(id, all)
<1>0. TypeInv /\ NewFileIds(id, NewFiles)
  BY NumberingsFacts DEF Ids, NewFileIds, RowsInv
<1>1. PICK last \in [update_list -> File \cup {""}], before \in SUBSET NewFiles :
        Leave(WithoutFiles([stored EXCEPT !.file = FilesLeft(id, last, before)], GoneFiles),
              [serial EXCEPT !.file = LastDrawn(Range(id), @)])
  BY DEF FileScope, FilesLeft, GoneFiles
<1> DEFINE all == FilesLeft(id, last, before)
           tables == WithoutFiles([stored EXCEPT !.file = all], GoneFiles)
           drawn == [serial EXCEPT !.file = LastDrawn(Range(id), @)]
<1>2. Leave(tables, drawn)
  BY <1>1
<1> HIDE DEF all, tables, drawn
<1>3. /\ left' \in 0 .. MaxTrouble
      /\ \/ stored' = tables /\ serial' = drawn
         \/ "commit" \in Faults /\ stored' = stored /\ serial' = serial
  BY <1>0, <1>2, LeaveFacts DEF TypeInv
<1>4. tables = [bed |-> stored.bed, test |-> stored.test,
                file |-> {r \in all : r.id \notin GoneFiles},
                meas |-> {r \in stored.meas : r.file \notin GoneFiles}]
  <2>1. PICK file, ids, rest :
          /\ file = all /\ ids = GoneFiles
          /\ rest = WithoutFiles([stored EXCEPT !.file = file], ids)
    OBVIOUS
  <2>2. rest = [bed |-> stored.bed, test |-> stored.test, file |-> {r \in file : r.id \notin ids},
                meas |-> {r \in stored.meas : r.file \notin ids}]
    BY <1>0, <2>1 DEF WithoutFiles, TypeInv, StoredType
  <2> QED
    BY <2>1, <2>2 DEF tables
<1>5. /\ all \subseteq FileRecord /\ Distinct(all)
      /\ \A r \in all : /\ \E t \in stored.test : t.id = r.parent /\ t.name.text = r.at[1]
                        /\ \E s \in Base(id) : Same(r, s)
      /\ \A s \in Base(id) : \E r \in all : Same(r, s)
  BY <1>0, FilesLeftFacts DEF all
<1> QED
  BY <1>0, <1>3, <1>4, <1>5 DEF FilesCommitted, drawn

LEMMA FileStep == RowsInv /\ UpdateTestFile => RowsInv'
<1> SUFFICES ASSUME RowsInv, UpdateTestFile
             PROVE  RowsInv'
  OBVIOUS
<1>0. TypeInv /\ UniqueInv /\ RowsBelong /\ ListInv /\ stored.file \subseteq FileRecord
  BY DEF RowsInv, TypeInv, StoredType
<1>1. /\ UNCHANGED <<disk, clock, owner, stop_thread, is_ok, test_bed_list, test_list,
                     test_dir_list, bed_index>>
      /\ pc' = "meas"
  BY DEF UpdateTestFile, outside, control, fetched, listed
<1>2. \A S : \A id \in Numberings(stored.file, serial.file, S) :
        NewFileIds(id, S) /\ Range(id) \in SUBSET Id
  BY NumberingsFacts DEF Ids, NewFileIds
<1>a. 0 \notin Id
  BY TestDirectoryAssumption DEF Id
<1>3. \A r \in stored.file : r.id # 0
  BY <1>0, <1>a DEF FileRecord
<1>4. CASE stored' = stored /\ serial' = serial /\ left' \in 0 .. MaxTrouble /\ cycle_ok' \in BOOLEAN
           /\ \E done, S : \E id \in Numberings(stored.file, serial.file, S) :
                /\ S \in SUBSET NewFiles /\ Reached(done, S)
                /\ update_list' = Indexed(id, done)
  <2>1. PICK done, S : \E id \in Numberings(stored.file, serial.file, S) :
          /\ S \in SUBSET NewFiles /\ Reached(done, S)
          /\ update_list' = Indexed(id, done)
    BY <1>4
  <2>2. PICK id \in Numberings(stored.file, serial.file, S) :
          /\ S \in SUBSET NewFiles /\ Reached(done, S)
          /\ update_list' = Indexed(id, done)
    BY <2>1
  <2>3. Indexing(id, S, done) /\ FileBase(stored.file, id, S) /\ FilesOf(stored.file, stored.file)
    BY <1>0, <1>2, <1>3, <2>2 DEF UniqueInv, Same, FileBase, FilesOf, Indexing
  <2>a. EntriesAreOwn(Indexed(id, done), stored.file)
    BY <2>3, IndexedFacts
  <2>4. /\ update_list' \subseteq UpdateEntry
        /\ \A g, h \in update_list' : g.index = h.index => g = h
        /\ \A g \in update_list' : TestIsOwn(g, stored.test)
        /\ \A g \in update_list' : \A f \in File : FileIsOwn(g, f, stored.file)
    BY <2>2, <2>a DEF EntriesAreOwn
  <2>5. TypeInv'
    BY <1>0, <1>1, <1>4, <2>4 DEF TypeInv, StoredType, Places
  <2> QED
    BY <1>0, <1>1, <1>4, <2>4, <2>5 DEF RowsInv, UniqueInv, RowsBelong, ListInv
<1>5. CASE UpdateFilesFails
  <2>1. left' \in 0 .. MaxTrouble /\ stored' = stored /\ serial' = serial /\ cycle_ok' \in BOOLEAN
    BY <1>0, <1>5, RollbackFacts DEF UpdateFilesFails, FilesRefused, TypeInv
  <2>2. PICK done : \E id \in Numberings(stored.file, serial.file, done \cap NewFiles) :
                      update_list' = Indexed(id, done)
    BY <1>5 DEF UpdateFilesFails, FilesRefused, ReachedFiles
  <2>3. Reached(done, done \cap NewFiles)
    BY DEF Reached
  <2> QED
    BY <1>4, <2>1, <2>2, <2>3
<1>6. CASE UpdateFiles
  <2>1. PICK id \in Numberings(stored.file, serial.file, NewFiles) :
          FileScope(id) /\ update_list' = Indexed(id, update_list \X File)
    BY <1>6 DEF UpdateFiles, FilesRefused
  <2>2. NewFileIds(id, NewFiles) /\ Range(id) \in SUBSET Id /\ RefusedFiles = {} /\ cycle_ok' \in BOOLEAN
    BY <1>0, <1>2, <1>6, <2>1 DEF UpdateFiles, FilesRefused, TypeInv
  <2>4. /\ left' \in 0 .. MaxTrouble
        /\ \/ stored' = stored /\ serial' = serial
           \/ \E all : FilesCommitted(id, all)
    BY <2>1, <2>2, FileScopeFacts
  <2>5. CASE stored' = stored /\ serial' = serial
    <3>1. Reached(update_list \X File, NewFiles) /\ NewFiles \in SUBSET NewFiles
      BY DEF Reached
    <3> QED
      BY <1>4, <2>1, <2>2, <2>4, <2>5, <3>1
  <2>6. ASSUME NEW all, FilesCommitted(id, all)
        PROVE  RowsInv'
    <3>1. /\ stored' = [bed |-> stored.bed, test |-> stored.test,
                        file |-> {r \in all : r.id \notin GoneFiles},
                        meas |-> {r \in stored.meas : r.file \notin GoneFiles}]
          /\ serial' = [serial EXCEPT !.file = LastDrawn(Range(id), @)]
      BY <2>6 DEF FilesCommitted
    <3>2. /\ stored'.bed = stored.bed /\ stored'.test = stored.test
          /\ stored'.file = {r \in all : r.id \notin GoneFiles}
          /\ stored'.meas = {r \in stored.meas : r.file \notin GoneFiles}
      BY <3>1
    <3>3. /\ all \subseteq FileRecord /\ Distinct(all)
          /\ \A r \in all : /\ \E t \in stored.test : t.id = r.parent /\ t.name.text = r.at[1]
                            /\ \E s \in Base(id) : Same(r, s)
          /\ \A s \in Base(id) : \E r \in all : Same(r, s)
      BY <2>6 DEF FilesCommitted
    <3>4. StoredType'
      BY <1>0, <3>1, <3>3 DEF TypeInv, StoredType
    <3>5. UniqueInv'
      BY <1>0, <3>2, <3>3 DEF UniqueInv, Distinct
    <3>6. RowsBelong'
      <4>1. ASSUME NEW m \in stored'.meas
            PROVE  \E r \in stored'.file : /\ r.id = m.file /\ r.parent = m.parent
                                           /\ r.name.text = m.name.text
        <5>1. PICK s \in stored.file : /\ s.id = m.file /\ s.parent = m.parent
                                       /\ s.name.text = m.name.text
          BY <1>0, <3>2 DEF RowsBelong
        <5>2. PICK r \in all : Same(r, s)
          BY <3>3 DEF Base
        <5> QED
          BY <3>2, <5>1, <5>2 DEF Same
      <4>2. \A r \in stored'.file : \E t \in stored'.test : t.id = r.parent /\ t.name.text = r.at[1]
        BY <3>2, <3>3
      <4> QED
        BY <4>1, <4>2 DEF RowsBelong
    <3>7. /\ update_list' \subseteq UpdateEntry
          /\ \A g, h \in update_list' : g.index = h.index => g = h
          /\ \A g \in update_list' : TestIsOwn(g, stored.test)
          /\ \A g \in update_list' : \A f \in File : FileIsOwn(g, f, all)
      <4>1. /\ Base(id) \subseteq FileRecord /\ Distinct(Base(id)) /\ stored.file \subseteq Base(id)
        BY <2>2, BaseFacts DEF Base
      <4>2. \A p \in NewFiles : /\ FileRow(p, id[p]).id = id[p]
                                /\ FileRow(p, id[p]).parent = p[1].index
                                /\ FileRow(p, id[p]).name = Bound(NameOf[p[2]])
        BY DEF FileRow
      <4>3. ASSUME NEW s \in Base(id)
            PROVE  /\ s.id # 0
                   /\ \/ s \in stored.file
                      \/ \E p \in NewFiles : s.id = id[p] /\ s.parent = p[1].index /\ s.name = Bound(NameOf[p[2]])
        <5>1. s.id \in Id
          BY <4>1 DEF FileRecord
        <5>2. CASE s \notin stored.file
          <6>1. PICK p \in NewFiles : s = FileRow(p, id[p])
            BY <5>2 DEF Base
          <6> QED
            BY <1>a, <4>2, <5>1, <6>1
        <5> QED
          BY <1>a, <5>1, <5>2
      <4>4. FileBase(Base(id), id, NewFiles)
        BY <4>1, <4>3 DEF FileBase
      <4>5. Indexing(id, NewFiles, update_list \X File) /\ FilesOf(all, Base(id))
        BY <2>2, <3>3 DEF Reached, Indexing, FilesOf
      <4>6. EntriesAreOwn(Indexed(id, update_list \X File), all)
        BY <4>4, <4>5, IndexedFacts
      <4> QED
        BY <2>1, <4>6 DEF EntriesAreOwn
    <3>8. serial' \in [bed : 0 .. IdRing, test : 0 .. IdRing, file : 0 .. IdRing]
      <4>1. LastDrawn(Range(id), serial.file) \in 0 .. IdRing
        BY <1>0, <2>2, LastDrawnType DEF TypeInv
      <4> QED
        BY <1>0, <3>1, <4>1 DEF TypeInv
    <3>9. TypeInv'
      <4>1. /\ disk' \in [Test -> Dir] /\ clock' \in Time /\ left' \in 0 .. MaxTrouble
            /\ pc' \in Places /\ owner' \in {"idle", "notify", "join"}
            /\ stop_thread' \in BOOLEAN /\ is_ok' \in BOOLEAN /\ cycle_ok' \in BOOLEAN
        BY <1>0, <1>1, <2>2, <2>4 DEF TypeInv, Places
      <4>2. /\ test_bed_list' \in SUBSET BedRecord /\ test_list' \in SUBSET TestRecord
            /\ test_dir_list' \in SUBSET ListedDir
            /\ DOMAIN bed_index' \subseteq Test
            /\ \A t \in DOMAIN bed_index' : bed_index'[t] \in Id \cup {0}
        BY <1>0, <1>1 DEF TypeInv
      <4>3. update_list' \in SUBSET UpdateEntry
        BY <3>7
      <4> QED
        BY <3>4, <3>8, <4>1, <4>2, <4>3 DEF TypeInv
    <3>10. ListInv'
      <4>1. stored'.file \subseteq all
        BY <3>2
      <4>2. ASSUME NEW g \in update_list', NEW f \in File
            PROVE  FileIsOwn(g, f, stored'.file)
        <5>1. FileIsOwn(g, f, all)
          BY <3>7
        <5> QED
          BY <4>1, <5>1 DEF FileIsOwn
      <4> QED
        BY <1>1, <3>2, <3>7, <4>2 DEF ListInv
    <3> QED
      BY <3>5, <3>6, <3>9, <3>10 DEF RowsInv
  <2> QED
    BY <2>4, <2>5, <2>6
<1> QED
  BY <1>5, <1>6 DEF UpdateTestFile

-----------------------------------------------------------------------------
(***************************************************************************)
(* UpdateMeasFile: the id of a listed file is that of a stored file, when  *)
(* the foreign key is not refused, and therefore of its own.               *)
(***************************************************************************)
LEMMA MeasRowFacts ==
  ASSUME RowsInv, NEW p \in update_list \X MdfFile, p[1].id[p[2]] # 0, ~ RefusedMeas(p)
  PROVE  /\ MeasRow(p) \in MeasRecord
         /\ \E r \in stored.file : /\ r.id = MeasRow(p).file /\ r.parent = MeasRow(p).parent
                                   /\ r.name.text = MeasRow(p).name.text
<1>0. /\ TypeInv /\ ListInv /\ MdfFile \subseteq File /\ BedOf \in [Test -> STRING]
      /\ p[1] \in UpdateEntry /\ p[1] \in update_list /\ p[2] \in File
  BY TestDirectoryAssumption DEF RowsInv, TypeInv
<1>1. p[1].index \in Id /\ p[1].id[p[2]] \in Id
  BY <1>0 DEF UpdateEntry
<1>2. MeasRow(p).name = Bound(NameOf[p[2]]) /\ MeasRow(p).parent = p[1].index /\ MeasRow(p).file = p[1].id[p[2]]
  BY DEF MeasRow
<1>3. MeasRow(p) \in MeasRecord
  BY <1>0, <1>1 DEF MeasRow, MeasRecord, Bound, Text
<1>4. PICK r \in stored.file : r.id = p[1].id[p[2]]
  BY DEF RefusedMeas, Ids
<1>5. r.parent = p[1].index /\ r.name.text = NameOf[p[2]]
  BY <1>0, <1>4 DEF ListInv, FileIsOwn
<1> QED
  BY <1>2, <1>3, <1>4, <1>5 DEF Bound

LEMMA MeasStep == RowsInv /\ UpdateMeasFile => RowsInv'
<1> SUFFICES ASSUME RowsInv, UpdateMeasFile
             PROVE  RowsInv'
  OBVIOUS
<1>0. TypeInv /\ UniqueInv /\ RowsBelong /\ ListInv
  BY DEF RowsInv
<1> DEFINE refused(files) == Twins(NewMeas(files)) \/ \E p \in NewMeas(files) : RefusedMeas(p)
           all(files) == (stored.meas \ UnlistedMeas) \cup {MeasRow(p) : p \in NewMeas(files)}
<1>1. PICK files \in Readable :
        \/ /\ ~ refused(files) /\ Leave([stored EXCEPT !.meas = all(files)], serial)
           /\ UNCHANGED cycle_ok
        \/ Rollback(refused(files)) /\ cycle_ok' = FALSE
  BY DEF UpdateMeasFile
<1>2. files \subseteq {p \in update_list \X MdfFile : p[1].file[p[2]] # 0 /\ p[1].id[p[2]] # 0}
  BY DEF Readable
<1>3. /\ left' \in 0 .. MaxTrouble /\ serial' = serial /\ cycle_ok' \in BOOLEAN
      /\ \/ stored' = stored
         \/ ~ refused(files) /\ stored' = [stored EXCEPT !.meas = all(files)]
  <2>1. CASE /\ ~ refused(files) /\ Leave([stored EXCEPT !.meas = all(files)], serial)
             /\ UNCHANGED cycle_ok
    <3> HIDE DEF refused, all
    <3> QED
      BY <1>0, <2>1, LeaveFacts DEF TypeInv
  <2>2. CASE Rollback(refused(files)) /\ cycle_ok' = FALSE
    <3> HIDE DEF refused, all
    <3> QED
      BY <1>0, <2>2, RollbackFacts DEF TypeInv
  <2> QED
    BY <1>1, <2>1, <2>2
<1>4. /\ UNCHANGED <<disk, clock>>
      /\ pc' = "wait" /\ is_ok' = cycle_ok' /\ UNCHANGED <<owner, stop_thread>>
      /\ test_bed_list' = {} /\ test_list' = {} /\ test_dir_list' = {} /\ bed_index' = EmptyIndex
      /\ update_list' = {}
  BY <1>3, EndCycleType DEF UpdateMeasFile, outside
<1>5. /\ stored'.bed = stored.bed /\ stored'.test = stored.test /\ stored'.file = stored.file
      /\ StoredType'
      /\ \A m \in stored'.meas : \E r \in stored.file :
           r.id = m.file /\ r.parent = m.parent /\ r.name.text = m.name.text
  <2>1. CASE stored' = stored
    BY <1>0, <2>1 DEF TypeInv, StoredType, RowsBelong
  <2>2. CASE ~ refused(files) /\ stored' = [stored EXCEPT !.meas = all(files)]
    <3>1. ASSUME NEW m \in all(files)
          PROVE  /\ m \in MeasRecord
                 /\ \E r \in stored.file : r.id = m.file /\ r.parent = m.parent /\ r.name.text = m.name.text
      <4>1. CASE m \in stored.meas
        BY <1>0, <4>1 DEF TypeInv, StoredType, RowsBelong
      <4>2. CASE m \notin stored.meas
        <5>1. PICK p \in NewMeas(files) : m = MeasRow(p)
          BY <4>2
        <5>2. p \in update_list \X MdfFile /\ p[1].id[p[2]] # 0 /\ ~ RefusedMeas(p)
          BY <1>2, <2>2 DEF NewMeas
        <5> QED
          BY <5>1, <5>2, MeasRowFacts
      <4> QED
        BY <4>1, <4>2
    <3> HIDE DEF all
    <3>2. stored' = [bed |-> stored.bed, test |-> stored.test, file |-> stored.file, meas |-> all(files)]
      BY <1>0, <2>2 DEF TypeInv, StoredType
    <3> QED
      BY <1>0, <3>1, <3>2 DEF TypeInv, StoredType
  <2> QED
    BY <1>3, <2>1, <2>2
<1>6. UniqueInv' /\ RowsBelong'
  BY <1>0, <1>5 DEF UniqueInv, RowsBelong
<1>7. TypeInv'
  BY <1>0, <1>3, <1>4, <1>5 DEF TypeInv, Places, EmptyIndex
<1>8. ListInv'
  BY <1>4 DEF ListInv
<1> QED
  BY <1>6, <1>7, <1>8 DEF RowsInv

-----------------------------------------------------------------------------
(***************************************************************************)
(* The theorems.                                                           *)
(***************************************************************************)
LEMMA RowsStep == RowsInv /\ [Next]_vars => RowsInv'
<1> SUFFICES ASSUME RowsInv, [Next]_vars
             PROVE  RowsInv'
  OBVIOUS
<1>1. CASE Disk
  BY <1>1, DiskStep
<1>2. CASE Owner \/ Crash \/ Begin \/ End \/ Wait \/ WaitTimeout
  BY <1>2, ControlStep
<1>3. CASE FetchFromDb \/ ScanRootDir
  BY <1>3, FetchStep, ScanStep
<1>4. CASE AddNewTestBed \/ AddTest \/ DeleteTest
  BY <1>4, BedStep, AddTestStep, DeleteStep
<1>5. CASE ScanUpdateTest \/ UpdateTestFile \/ UpdateMeasFile
  BY <1>5, ScanUpdateStep, FileStep, MeasStep
<1>6. CASE UNCHANGED vars
  <2>1. TypeInv' /\ stored' = stored /\ update_list' = update_list /\ pc' = pc
        /\ test_list' = test_list
    BY <1>6 DEF RowsInv, TypeInv, StoredType, vars, outside, database, control, fetched, listed
  <2> QED
    BY <2>1, QuietStep
<1> QED
  BY <1>1, <1>2, <1>3, <1>4, <1>5, <1>6 DEF Next, Worker

LEMMA RowsType == RowsInv => TypeOK
<1> SUFFICES ASSUME RowsInv
             PROVE  TypeOK
  OBVIOUS
<1>0. TypeInv /\ UniqueInv
  BY DEF RowsInv
<1>1. /\ \A r \in stored.bed : r \in BedRecord
      /\ \A r \in stored.test : r \in TestRecord
      /\ \A r \in stored.file : r \in FileRecord
      /\ \A r \in stored.meas : r \in MeasRecord
  BY <1>0 DEF TypeInv, StoredType
<1>2. \A rows \in {stored.bed, stored.test, stored.file} : \A r, s \in rows : r.id = s.id => r = s
  BY <1>0 DEF UniqueInv, Distinct
<1> QED
  BY <1>0, <1>1, <1>2 DEF TypeInv, TypeOK, Places, BedRecord, TestRecord, FileRecord, MeasRecord, UpdateEntry

LEMMA RowsInvariant == Spec => []RowsInv
BY RowsInitial, RowsStep, PTL DEF Spec

\* The types are kept, and no two rows of a table ever have the same id,
\* though the ids of a scope that was rolled back are drawn again.
THEOREM TypeCorrect == Spec => []TypeOK
BY RowsInvariant, RowsType, PTL

\* RowsBelong: whatever fails, a file hangs on the test of the directory it
\* was found in, and a measurement on the file of its name, though the ids
\* that are handed on to UpdateTestFile and UpdateMeasFile may be of no row.
THEOREM RowsBelongTogether == Spec => []RowsBelong
<1>1. RowsInv => RowsBelong
  BY DEF RowsInv
<1> QED
  BY <1>1, RowsInvariant, PTL

-----------------------------------------------------------------------------
(***************************************************************************)
(* OkIsStored.  As long as nothing has failed in a cycle, the tests of the *)
(* update list are stored, none of them is about to be deleted, and once   *)
(* UpdateTestFile is done they have the files that were found for them.    *)
(* A COMMIT that is lost is not noticed, so none may be.                   *)
(***************************************************************************)
HasTest(e, tests) == \E t \in tests : t.id = e.index /\ t.name.text = e.name

OkInv ==
  /\ pc = "delete" /\ cycle_ok => \A e \in update_list : HasTest(e, stored.test \ Gone)
  /\ pc \in {"list", "file", "meas"} /\ cycle_ok => \A e \in update_list : HasTest(e, stored.test)
  /\ pc = "meas" /\ cycle_ok => \A e \in update_list : FileNames(stored, e.index) = ListedNames(e)

LEMMA OkQuiet ==
  ASSUME OkInv,
         \/ pc' \notin {"delete", "list", "file", "meas"} /\ (pc \in {"delete", "meas"} => pc' # "wait")
         \/ UNCHANGED <<pc, stored, cycle_ok, update_list, test_list, test_dir_list>>
  PROVE  OkInv' /\ ~ CycleOk
<1>1. CASE pc' \notin {"delete", "list", "file", "meas"} /\ (pc \in {"delete", "meas"} => pc' # "wait")
  BY <1>1 DEF OkInv, CycleOk
<1>2. CASE UNCHANGED <<pc, stored, cycle_ok, update_list, test_list, test_dir_list>>
  <2>1. Gone' = Gone
    BY <1>2 DEF Gone
  <2>2. \A e \in update_list : HasTest(e, (stored.test \ Gone)') = HasTest(e, stored.test \ Gone)
    BY <1>2, <2>1
  <2>3. \A e \in update_list : FileNames(stored', e.index) = FileNames(stored, e.index)
    BY <1>2
  <2> QED
    BY <1>2, <2>1, <2>2, <2>3 DEF OkInv, CycleOk
<1> QED
  BY <1>1, <1>2

LEMMA OkAddTest ==
  ASSUME RowsInv, "commit" \notin Faults, AddTest
  PROVE  OkInv' /\ ~ CycleOk
<1>0. TypeInv /\ ListInv /\ pc = "test" /\ pc' = "delete" /\ Gone' = Gone /\ NewTests \in SUBSET Test
  BY DEF RowsInv, AddTest, Gone, fetched, listed, NewTests, TypeInv, ListedDir
<1>1. ASSUME NEW e \in Modified
      PROVE  HasTest(e, stored.test \ Gone)
  <2>1. PICK t \in Test, r \in test_list :
          /\ r \in stored.test /\ r.id \in Id /\ r.name = Plain(t) /\ e = Entry(t, r.id)
          /\ \E d \in test_dir_list : d.name = t
    BY <1>0, ModifiedFacts
  <2>2. r \notin Gone
    BY <2>1 DEF Gone
  <2>3. e.name = t /\ e.index = r.id /\ r.name.text = t
    BY <2>1, EntryFacts DEF Plain
  <2> QED
    BY <2>1, <2>2, <2>3 DEF HasTest
<1>2. CASE NewTests = {} /\ update_list' = Modified /\ UNCHANGED <<left, database, cycle_ok>>
  BY <1>0, <1>1, <1>2 DEF OkInv, CycleOk, database
<1>3. CASE InsertTests
  <2> DEFINE rows(id) == stored.test \cup {TestRow(t, id[t]) : t \in NewTests}
  <2>1. PICK id \in Numberings(stored.test, serial.test, NewTests) :
          /\ Leave([stored EXCEPT !.test = rows(id)],
                   [serial EXCEPT !.test = LastDrawn(Range(id), @)])
          /\ update_list' = Added(id)
    BY <1>3 DEF InsertTests
  <2>2. \A t \in NewTests : id[t] \in Id /\ \A r \in stored.test : r.id # id[t]
    BY NumberingsFacts DEF Ids
  <2>3. stored' = [stored EXCEPT !.test = rows(id)]
    <3> HIDE DEF rows
    <3> QED
      BY <1>0, <2>1, LeaveFacts DEF TypeInv
  <2>4. stored'.test = rows(id)
    BY <1>0, <2>3 DEF TypeInv, StoredType
  <2>5. DOMAIN id = NewTests
    BY NumberingsFacts
  <2>6. ASSUME NEW e \in update_list'
        PROVE  HasTest(e, stored'.test \ Gone)
    <3>1. CASE e \in Modified
      BY <1>1, <2>4, <3>1 DEF HasTest
    <3>2. CASE e \notin Modified
      <4>1. PICK t \in NewTests : e = Entry(t, id[t])
        BY <2>1, <2>5, <3>2 DEF Added
      <4>2. /\ TestRow(t, id[t]).id = id[t] /\ TestRow(t, id[t]).name.text = t
            /\ e.name = t /\ e.index = id[t]
        BY <1>0, <2>2, <4>1, TestRowType, EntryFacts
      <4>3. Gone \subseteq stored.test
        BY <1>0 DEF ListInv, Gone
      <4>4. TestRow(t, id[t]) \notin Gone
        BY <2>2, <4>2, <4>3
      <4> QED
        BY <2>4, <4>2, <4>4 DEF HasTest
    <3> QED
      BY <3>1, <3>2
  <2> QED
    BY <1>0, <2>6 DEF OkInv, CycleOk
<1>4. CASE InsertTestsFails
  BY <1>0, <1>4 DEF InsertTestsFails, OkInv, CycleOk
<1> QED
  BY <1>2, <1>3, <1>4 DEF AddTest

LEMMA OkDelete ==
  ASSUME RowsInv, OkInv, "commit" \notin Faults, DeleteTest
  PROVE  OkInv' /\ (CycleOk => update_list = {})
<1>0. TypeInv /\ UniqueInv /\ ListInv /\ pc = "delete"
  BY DEF RowsInv, DeleteTest
<1>1. /\ \/ pc' = "list" /\ update_list' = update_list
         \/ pc' = "wait" /\ is_ok' = cycle_ok'
      /\ update_list # {} /\ cycle_ok' => pc' = "list"
  BY DEF DeleteTest, EndCycle
<1>2. cycle_ok' => /\ cycle_ok
                   /\ \/ Gone = {} /\ stored' = stored
                      \/ stored' = WithoutTests(stored, Ids(Gone))
  <2>1. CASE Gone = {} /\ UNCHANGED <<left, database, cycle_ok>>
    BY <2>1 DEF database
  <2>2. CASE Gone # {} /\ Leave(WithoutTests(stored, Ids(Gone)), serial) /\ UNCHANGED cycle_ok
    BY <1>0, <2>2, LeaveFacts DEF TypeInv
  <2>3. CASE Gone # {} /\ Rollback(FALSE) /\ cycle_ok' = FALSE
    BY <2>3
  <2> QED
    BY <2>1, <2>2, <2>3 DEF DeleteTest
<1>3. ASSUME cycle_ok', NEW e \in update_list
      PROVE  HasTest(e, stored'.test)
  <2>1. PICK t \in stored.test \ Gone : t.id = e.index /\ t.name.text = e.name
    BY <1>0, <1>2, <1>3 DEF OkInv, HasTest
  <2>2. t.id \notin Ids(Gone)
    <3>1. Gone \subseteq stored.test
      BY <1>0 DEF ListInv, Gone
    <3> QED
      BY <1>0, <2>1, <3>1 DEF UniqueInv, Distinct, Ids
  <2>3. CASE stored' = WithoutTests(stored, Ids(Gone))
    BY <2>1, <2>2, <2>3, CascadeFacts DEF HasTest
  <2> QED
    BY <1>2, <1>3, <2>1, <2>3 DEF HasTest
<1> QED
  BY <1>0, <1>1, <1>3 DEF OkInv, CycleOk

LEMMA OkScan ==
  ASSUME RowsInv, OkInv, ScanUpdateTest
  PROVE  OkInv' /\ ~ CycleOk
<1>0. TypeInv /\ pc = "list" /\ pc' = "file" /\ stored' = stored
  BY DEF RowsInv, ScanUpdateTest, database
<1>1. cycle_ok' => cycle_ok /\ update_list' = {Scanned(e, File) : e \in update_list}
  BY DEF ScanUpdateTest
<1>2. \A e \in update_list : Scanned(e, File).name = e.name /\ Scanned(e, File).index = e.index
  BY <1>0, ScannedFacts
<1> QED
  BY <1>0, <1>1, <1>2 DEF OkInv, CycleOk, HasTest

\* A committed scope leaves exactly the files that are listed for a test.
LEMMA FilesAreListed ==
  ASSUME RowsInv, NEW id, NewFileIds(id, NewFiles), NEW all, FilesCommitted(id, all),
         NEW e \in update_list
  PROVE  FileNames(stored', e.index) = ListedNames(e)
<1>0. /\ TypeInv /\ UniqueInv /\ ListInv
      /\ \A d \in update_list : d.index = e.index => d = e
      /\ \A r, s \in stored.file : r.id = s.id => r = s
  BY DEF RowsInv, ListInv, UniqueInv, Distinct
<1>1. /\ stored'.file = {r \in all : r.id \notin GoneFiles}
      /\ \A r \in all : \E s \in Base(id) : Same(r, s)
      /\ \A s \in Base(id) : \E r \in all : Same(r, s)
  BY DEF FilesCommitted
<1>2. \A k \in GoneFiles : \E d \in update_list : \E u \in Unlisted(d) : u.id = k
  BY DEF GoneFiles, Ids
<1>3. \A d \in update_list : \A u \in Unlisted(d) :
        /\ u \in stored.file /\ u.parent = d.index
        /\ \A f \in ListedFiles(d) : u.name # Plain(NameOf[f])
  BY DEF Unlisted, Rows
<1>4. ASSUME NEW s \in Base(id), s.parent = e.index, s.id \notin GoneFiles
      PROVE  s.name.text \in ListedNames(e)
  <2>1. CASE s \in stored.file
    <3>1. s \notin Unlisted(e)
      BY <1>4 DEF GoneFiles, Ids
    <3>2. PICK f \in ListedFiles(e) : s.name = Plain(NameOf[f])
      BY <1>4, <2>1, <3>1 DEF Unlisted, Rows
    <3> QED
      BY <3>2 DEF Plain, ListedNames
  <2>2. CASE s \notin stored.file
    <3>1. PICK p \in NewFiles : s = FileRow(p, id[p])
      BY <2>2 DEF Base
    <3>2. s.parent = p[1].index /\ s.name = Bound(NameOf[p[2]])
      BY <3>1 DEF FileRow
    <3>3. p[1] \in update_list /\ p[2] \in ListedFiles(p[1])
      BY DEF NewFiles
    <3>4. p[1] = e
      BY <1>0, <1>4, <3>2, <3>3
    <3> QED
      BY <3>2, <3>3, <3>4 DEF Bound, ListedNames
  <2> QED
    BY <2>1, <2>2
<1>5. ASSUME NEW f \in ListedFiles(e)
      PROVE  \E s \in Base(id) : s.parent = e.index /\ s.name.text = NameOf[f] /\ s.id \notin GoneFiles
  <2>1. CASE Match(e, f) = {}
    <3>1. PICK p : p = <<e, f>>
      OBVIOUS
    <3>2. p \in NewFiles
      BY <2>1, <3>1 DEF NewFiles, ListedFiles
    <3>3. PICK s \in Base(id) : s = FileRow(p, id[p])
      BY <3>2 DEF Base
    <3>4. s.id = id[p] /\ s.parent = e.index /\ s.name = Bound(NameOf[f])
      BY <3>1, <3>3 DEF FileRow
    <3>5. \A u \in stored.file : u.id # s.id
      BY <3>2, <3>4 DEF NewFileIds
    <3>6. s.id \notin GoneFiles
      BY <1>2, <1>3, <3>5
    <3> QED
      BY <3>4, <3>6 DEF Bound
  <2>2. CASE Match(e, f) # {}
    <3>1. PICK s \in stored.file : s.parent = e.index /\ s.name = Plain(NameOf[f])
      BY <2>2 DEF Match, Rows
    <3>2. s.id \notin GoneFiles
      BY <1>0, <1>2, <1>3, <3>1
    <3> QED
      BY <3>1, <3>2 DEF Base, Plain
  <2> QED
    BY <2>1, <2>2
<1>6. ASSUME NEW n \in FileNames(stored', e.index)
      PROVE  n \in ListedNames(e)
  <2>1. PICK r \in stored'.file : r.parent = e.index /\ r.name.text = n
    BY DEF FileNames
  <2>2. r \in all /\ r.id \notin GoneFiles
    BY <1>1
  <2>3. PICK s \in Base(id) : s.id = r.id /\ s.name = r.name /\ s.parent = r.parent
    BY <1>1, <2>2 DEF Same
  <2> QED
    BY <1>4, <2>1, <2>2, <2>3
<1>7. ASSUME NEW n \in ListedNames(e)
      PROVE  n \in FileNames(stored', e.index)
  <2>1. PICK f \in ListedFiles(e) : n = NameOf[f]
    BY DEF ListedNames
  <2>2. PICK s \in Base(id) : s.parent = e.index /\ s.name.text = n /\ s.id \notin GoneFiles
    BY <1>5, <2>1
  <2>3. PICK r \in all : r.id = s.id /\ r.name = s.name /\ r.parent = s.parent
    BY <1>1 DEF Same
  <2>4. r \in stored'.file
    BY <1>1, <2>2, <2>3
  <2> QED
    BY <2>2, <2>3, <2>4 DEF FileNames
<1> QED
  BY <1>6, <1>7

LEMMA OkFile ==
  ASSUME RowsInv, OkInv, "commit" \notin Faults, UpdateTestFile
  PROVE  OkInv' /\ ~ CycleOk
<1>0. pc = "file" /\ pc' = "meas"
  BY DEF UpdateTestFile
<1>1. CASE UpdateFilesFails
  BY <1>0, <1>1 DEF UpdateFilesFails, FilesRefused, OkInv, CycleOk
<1>2. CASE UpdateFiles
  <2>1. PICK id \in Numberings(stored.file, serial.file, NewFiles) :
          FileScope(id) /\ update_list' = Indexed(id, update_list \X File)
    BY <1>2 DEF UpdateFiles, FilesRefused
  <2>2. RefusedFiles = {} /\ cycle_ok' = cycle_ok
    BY <1>2 DEF UpdateFiles, FilesRefused
  <2>3. NewFileIds(id, NewFiles) /\ \E all : FilesCommitted(id, all)
    BY <2>1, <2>2, FileScopeFacts
  <2>4. PICK all : FilesCommitted(id, all)
    BY <2>3
  <2>5. stored'.test = stored.test
    BY <2>4 DEF FilesCommitted
  <2>6. Indexing(id, NewFiles, update_list \X File)
    BY <2>3 DEF Indexing, Reached
  <2>7. ASSUME cycle_ok', NEW g \in update_list'
        PROVE  HasTest(g, stored'.test) /\ FileNames(stored', g.index) = ListedNames(g)
    <3>1. PICK e \in update_list : g = IndexOf(id, update_list \X File, e)
      BY <2>1 DEF Indexed, IndexOf
    <3>2. IsIndexed(g, e, id, NewFiles)
      BY <2>6, <3>1, IndexFacts
    <3>3. g.name = e.name /\ g.index = e.index /\ g.file = e.file
      BY <3>2 DEF IsIndexed
    <3>4. HasTest(e, stored.test)
      BY <1>0, <2>2, <2>7 DEF OkInv
    <3>5. FileNames(stored', e.index) = ListedNames(e)
      BY <2>3, <2>4, FilesAreListed
    <3> QED
      BY <2>5, <3>3, <3>4, <3>5 DEF HasTest, ListedNames, ListedFiles
  <2> QED
    BY <1>0, <2>7 DEF OkInv, CycleOk
<1> QED
  BY <1>1, <1>2 DEF UpdateTestFile

LEMMA OkMeas ==
  ASSUME RowsInv, OkInv, "commit" \notin Faults, UpdateMeasFile
  PROVE  OkInv' /\ (CycleOk => \A e \in update_list : StoredEntry(e))
<1>0. TypeInv /\ pc = "meas" /\ pc' = "wait" /\ is_ok' = cycle_ok'
  BY DEF RowsInv, UpdateMeasFile, EndCycle
<1>1. ASSUME cycle_ok'
      PROVE  cycle_ok /\ \E all : stored' = [stored EXCEPT !.meas = all]
  <2>1. cycle_ok /\ \E all : Leave([stored EXCEPT !.meas = all], serial)
    BY <1>1 DEF UpdateMeasFile
  <2>2. PICK all : Leave([stored EXCEPT !.meas = all], serial)
    BY <2>1
  <2>3. stored' = [stored EXCEPT !.meas = all]
    BY <1>0, <2>2, LeaveFacts DEF TypeInv
  <2> QED
    BY <2>1, <2>3
<1>2. ASSUME cycle_ok', NEW e \in update_list
      PROVE  StoredEntry(e)
  <2>1. stored'.file = stored.file
    BY <1>0, <1>1, <1>2 DEF TypeInv, StoredType
  <2>2. HasTest(e, stored.test) /\ FileNames(stored, e.index) = ListedNames(e)
    BY <1>0, <1>1, <1>2 DEF OkInv
  <2> QED
    BY <2>1, <2>2 DEF StoredEntry, HasTest, FileNames
<1> QED
  BY <1>0, <1>2 DEF OkInv, CycleOk

LEMMA OkStep ==
  ASSUME RowsInv, OkInv, "commit" \notin Faults, [Next]_vars
  PROVE  OkInv' /\ (CycleOk => \A e \in update_list : StoredEntry(e))
<1>1. CASE Disk
  <2>1. UNCHANGED <<pc, stored, cycle_ok, update_list, test_list, test_dir_list>>
    BY <1>1 DEF Disk, CreateDir, RemoveDir, WriteFile, RemoveFile, SetFile, ChangeDisk, Second,
                database, fetched, listed
  <2> QED
    BY <2>1, OkQuiet
<1>2. CASE Owner \/ Crash
  <2>1. \/ pc' \in {"none", "begin"}
        \/ pc = "asleep" /\ pc' = "wait"
        \/ UNCHANGED <<pc, stored, cycle_ok, update_list, test_list, test_dir_list>>
    BY <1>2 DEF Owner, InitEnvironment, Start, StopRequest, StopNotify, StopJoin, Crash,
                database, fetched, listed
  <2> QED
    BY <2>1, OkQuiet
<1>3. CASE Begin \/ End \/ Wait \/ WaitTimeout \/ FetchFromDb \/ ScanRootDir \/ AddNewTestBed
  <2>1. /\ pc \in {"begin", "top", "wait", "drowsy", "asleep", "scan", "bed"}
        /\ pc' \notin {"delete", "list", "file", "meas"}
    BY <1>3 DEF Begin, End, Wait, WaitTimeout, FetchFromDb, ScanRootDir, AddNewTestBed
  <2> QED
    BY <2>1, OkQuiet
<1>4. CASE AddTest
  BY <1>4, OkAddTest
<1>5. CASE DeleteTest
  BY <1>5, OkDelete
<1>6. CASE ScanUpdateTest
  BY <1>6, OkScan
<1>7. CASE UpdateTestFile
  BY <1>7, OkFile
<1>8. CASE UpdateMeasFile
  BY <1>8, OkMeas
<1>9. CASE UNCHANGED vars
  <2>1. UNCHANGED <<pc, stored, cycle_ok, update_list, test_list, test_dir_list>>
    BY <1>9 DEF vars, database, fetched, listed
  <2> QED
    BY <2>1, OkQuiet
<1> QED
  BY <1>1, <1>2, <1>3, <1>4, <1>5, <1>6, <1>7, <1>8, <1>9 DEF Next, Worker

\* OkIsStored: if no COMMIT is lost, a cycle that leaves IsOk() true has
\* stored each test of its update list with the files that were found for it,
\* whatever else has failed or crashed before.
THEOREM OkCyclesAreStored ==
  ASSUME "commit" \notin Faults
  PROVE  Spec => OkIsStored
<1>1. Init => OkInv
  BY DEF Init, OkInv
<1>2. RowsInv /\ OkInv /\ [Next]_vars => OkInv'
  BY OkStep
<1>3. RowsInv /\ OkInv /\ [Next]_vars => [CycleOk => \A e \in update_list : StoredEntry(e)]_vars
  BY OkStep
<1> QED
  BY <1>1, <1>2, <1>3, RowsInvariant, PTL DEF Spec, OkIsStored

-----------------------------------------------------------------------------
(***************************************************************************)
(* KeepsStored.  What stands on the disk is listed when DeleteTest and the *)
(* updates of the files look for what is gone, because a scan that has     *)
(* come to its end lists all that stands, and one that has failed had come *)
(* to it; and no other action takes rows away.                             *)
(***************************************************************************)
RootListed(t) == \E d \in test_dir_list : d.name = t

FileListed(t, f) == \A e \in update_list : e.name = t => e.file[f] # 0

TestKept(t) == TestStored(t) /\ (pc \in {"bed", "test", "delete"} => RootListed(t))

FileKept(t, f) ==
  TestKept(t) /\ FileStored(t, f) /\ (pc \in {"file", "meas"} => FileListed(t, f))

MeasKept(t, f) == FileKept(t, f) /\ MeasStored(t, f)

AllRemain ==
  stored.test \subseteq stored'.test /\ stored.file \subseteq stored'.file
    /\ stored.meas \subseteq stored'.meas

\* The three steps after which rows may be missing.
TestsGo == DeleteTest /\ stored' = WithoutTests(stored, Ids(Gone))

FilesGo == UpdateTestFile /\ \E id, all : FilesCommitted(id, all)

MeasGo ==
  /\ UpdateMeasFile /\ stored'.test = stored.test /\ stored'.file = stored.file
  /\ stored.meas \ UnlistedMeas \subseteq stored'.meas

LEMMA RowsRemain ==
  ASSUME RowsInv, [Next]_vars
  PROVE  AllRemain \/ TestsGo \/ FilesGo \/ MeasGo
<1>0. TypeInv /\ StoredType
  BY DEF RowsInv, TypeInv
<1>a. stored' = stored => AllRemain
  BY DEF AllRemain
<1>1. CASE Disk \/ Owner \/ Crash \/ UNCHANGED vars
  <2>1. stored' = stored
    BY <1>1 DEF Disk, CreateDir, RemoveDir, WriteFile, RemoveFile, SetFile, ChangeDisk, Second, Owner,
                InitEnvironment, Start, StopRequest, StopNotify, StopJoin, Crash, vars, database
  <2> QED
    BY <1>a, <2>1
<1>2. CASE Begin \/ End \/ Wait \/ WaitTimeout \/ FetchFromDb \/ ScanRootDir \/ ScanUpdateTest
  <2>1. stored' = stored
    BY <1>2 DEF Begin, End, Wait, WaitTimeout, FetchFromDb, ScanRootDir, ScanUpdateTest, database
  <2> QED
    BY <1>a, <2>1
<1>3. CASE AddNewTestBed
  <2>1. CASE UNCHANGED database
    BY <1>a, <2>1 DEF database
  <2>2. CASE \E refused : Rollback(refused)
    BY <1>a, <2>2 DEF Rollback, database
  <2>3. CASE \E rows, ids : Leave([stored EXCEPT !.bed = rows], ids)
    <3>1. PICK rows, ids : Leave([stored EXCEPT !.bed = rows], ids)
      BY <2>3
    <3>2. stored' = [stored EXCEPT !.bed = rows] \/ stored' = stored
      BY <1>0, <3>1, LeaveFacts DEF TypeInv
    <3> QED
      BY <1>0, <1>a, <3>2 DEF StoredType, AllRemain
  <2>4. \A t : InsertBed(t) => \E rows, ids : Leave([stored EXCEPT !.bed = rows], ids)
    BY DEF InsertBed
  <2> QED
    BY <1>3, <2>1, <2>2, <2>3, <2>4 DEF AddNewTestBed
<1>4. CASE AddTest
  <2>1. CASE UNCHANGED database
    BY <1>a, <2>1 DEF database
  <2>2. CASE InsertTests
    <3>1. PICK rows, ids : Leave([stored EXCEPT !.test = stored.test \cup rows], ids)
      BY <2>2 DEF InsertTests
    <3>2. stored' = [stored EXCEPT !.test = stored.test \cup rows] \/ stored' = stored
      BY <1>0, <3>1, LeaveFacts DEF TypeInv
    <3> QED
      BY <1>0, <1>a, <3>2 DEF StoredType, AllRemain
  <2> QED
    BY <1>4, <2>1, <2>2 DEF AddTest, InsertTestsFails, Rollback
<1>5. CASE DeleteTest
  <2>1. CASE UNCHANGED database
    BY <1>a, <2>1 DEF database
  <2>2. CASE Leave(WithoutTests(stored, Ids(Gone)), serial)
    <3>1. stored' = WithoutTests(stored, Ids(Gone)) \/ stored' = stored
      BY <1>0, <2>2, LeaveFacts DEF TypeInv
    <3> QED
      BY <1>5, <1>a, <3>1 DEF TestsGo
  <2> QED
    BY <1>5, <2>1, <2>2 DEF DeleteTest, Rollback
<1>6. CASE UpdateTestFile
  <2>1. CASE UpdateFilesFails
    BY <1>a, <2>1 DEF UpdateFilesFails, Rollback, database
  <2>2. CASE UpdateFiles
    <3>1. PICK id \in Numberings(stored.file, serial.file, NewFiles) : FileScope(id)
      BY <2>2 DEF UpdateFiles
    <3>2. stored' = stored \/ \E all : FilesCommitted(id, all)
      BY <2>2, <3>1, FileScopeFacts DEF UpdateFiles, FilesRefused
    <3> QED
      BY <1>6, <1>a, <3>2 DEF FilesGo
  <2> QED
    BY <1>6, <2>1, <2>2 DEF UpdateTestFile
<1>7. CASE UpdateMeasFile
  <2>1. CASE \E refused : Rollback(refused)
    BY <1>a, <2>1 DEF Rollback, database
  <2>2. CASE \E new : Leave([stored EXCEPT !.meas = (stored.meas \ UnlistedMeas) \cup new], serial)
    <3>1. PICK new : Leave([stored EXCEPT !.meas = (stored.meas \ UnlistedMeas) \cup new], serial)
      BY <2>2
    <3>2. \/ stored' = [stored EXCEPT !.meas = (stored.meas \ UnlistedMeas) \cup new]
          \/ stored' = stored
      BY <1>0, <3>1, LeaveFacts DEF TypeInv
    <3> QED
      BY <1>0, <1>7, <1>a, <3>2 DEF StoredType, MeasGo
  <2> QED
    BY <1>7, <2>1, <2>2 DEF UpdateMeasFile
<1> QED
  BY <1>1, <1>2, <1>3, <1>4, <1>5, <1>6, <1>7 DEF Next, Worker

\* What DeleteTest takes away.
LEMMA TestsGoFacts ==
  ASSUME RowsInv, TestsGo
  PROVE  LET files == {r.id : r \in {x \in stored.file : x.parent \in Ids(Gone)}}
         IN  /\ stored'.test = {r \in stored.test : r.id \notin Ids(Gone)}
             /\ stored'.file = {r \in stored.file : r.id \notin files}
             /\ stored'.meas = {r \in stored.meas : r.file \notin files}
BY DEF RowsInv, TypeInv, StoredType, TestsGo, WithoutTests, WithoutFiles

\* A test whose directory has been listed is not among those that are gone.
LEMMA ListedIsNotGone ==
  ASSUME RowsInv, NEW t \in Test, pc = "delete" => RootListed(t),
         NEW r \in stored.test, r.name = Plain(t), TestsGo
  PROVE  r.id \notin Ids(Gone)
<1>1. r \notin Gone
  BY DEF Gone, RootListed, TestsGo, DeleteTest
<1>2. Gone \subseteq stored.test
  BY DEF RowsInv, ListInv, Gone, TestsGo, DeleteTest
<1> QED
  BY <1>1, <1>2 DEF RowsInv, UniqueInv, Distinct, Ids

LEMMA TestStays ==
  ASSUME RowsInv, NEW t \in Test, TestKept(t), [Next]_vars,
         NEW r \in stored.test, r.name = Plain(t)
  PROVE  r \in stored'.test
<1>1. CASE AllRemain
  BY <1>1 DEF AllRemain
<1>2. CASE TestsGo
  BY <1>2, TestsGoFacts, ListedIsNotGone DEF TestKept
<1>3. CASE FilesGo
  BY <1>3 DEF FilesGo, FilesCommitted
<1>4. CASE MeasGo
  BY <1>4 DEF MeasGo
<1> QED
  BY <1>1, <1>2, <1>3, <1>4, RowsRemain

\* A file that has been listed is not among those that an entry lacks.
LEMMA ListedFileIsNotGone ==
  ASSUME RowsInv, NEW t \in Test, NEW f \in File, FileListed(t, f),
         NEW r \in stored.test, r.name = Plain(t),
         NEW x \in stored.file, x.parent = r.id, x.name = Plain(NameOf[f])
  PROVE  x.id \notin GoneFiles
<1> SUFFICES ASSUME NEW e \in update_list, NEW u \in Unlisted(e), u.id = x.id
             PROVE  FALSE
  BY DEF GoneFiles, Ids
<1>1. u = x
  BY DEF RowsInv, UniqueInv, Distinct, Unlisted, Rows
<1>2. e.index = r.id
  BY <1>1 DEF Unlisted, Rows
<1>3. e.name = t
  BY <1>2 DEF RowsInv, ListInv, TestIsOwn, Plain
<1>4. f \in ListedFiles(e)
  BY <1>3 DEF FileListed, ListedFiles
<1> QED
  BY <1>1, <1>4 DEF Unlisted

LEMMA FileStays ==
  ASSUME RowsInv, NEW t \in Test, NEW f \in File, FileKept(t, f), [Next]_vars,
         NEW r \in stored.test, r.name = Plain(t),
         NEW x \in stored.file, x.parent = r.id, x.name = Plain(NameOf[f])
  PROVE  /\ \E y \in stored'.file : Same(y, x)
         /\ TestsGo => x \in stored'.file /\ \A z \in stored.file :
              z.parent \in Ids(Gone) => z.id # x.id
         /\ FilesGo => x.id \notin GoneFiles
<1>0. UniqueInv /\ \A z \in stored.file : z.id = x.id => z = x
  BY DEF RowsInv, UniqueInv, Distinct
<1>a. ASSUME TestsGo
      PROVE  x \in stored'.file /\ \A z \in stored.file : z.parent \in Ids(Gone) => z.id # x.id
  <2>1. r.id \notin Ids(Gone)
    BY <1>a, ListedIsNotGone DEF FileKept, TestKept
  <2>2. \A z \in stored.file : z.parent \in Ids(Gone) => z.id # x.id
    BY <1>0, <2>1
  <2> QED
    BY <1>a, <2>2, TestsGoFacts
<1>b. ASSUME FilesGo
      PROVE  x.id \notin GoneFiles
  <2>1. FileListed(t, f)
    BY <1>b DEF FileKept, FilesGo, UpdateTestFile
  <2> QED
    BY <2>1, ListedFileIsNotGone
<1>1. CASE AllRemain
  BY <1>1, <1>a, <1>b DEF AllRemain, Same
<1>2. CASE TestsGo
  BY <1>2, <1>a, <1>b DEF Same
<1>3. CASE FilesGo
  <2>1. PICK id, all : FilesCommitted(id, all)
    BY <1>3 DEF FilesGo
  <2>2. PICK y \in all : Same(y, x)
    BY <2>1 DEF FilesCommitted, Base
  <2>3. y \in stored'.file
    BY <1>3, <1>b, <2>1, <2>2 DEF FilesCommitted, Same
  <2> QED
    BY <1>a, <1>b, <2>2, <2>3
<1>4. CASE MeasGo
  BY <1>4, <1>a, <1>b DEF MeasGo, Same
<1> QED
  BY <1>1, <1>2, <1>3, <1>4, RowsRemain

LEMMA MeasStays ==
  ASSUME RowsInv, NEW t \in Test, NEW f \in File, FileKept(t, f), [Next]_vars,
         NEW r \in stored.test, r.name = Plain(t),
         NEW x \in stored.file, x.parent = r.id, x.name = Plain(NameOf[f]),
         NEW m \in stored.meas, m.file = x.id, m.name = Plain(NameOf[f])
  PROVE  m \in stored'.meas
<1>1. CASE AllRemain
  BY <1>1 DEF AllRemain
<1>2. CASE TestsGo
  BY <1>2, FileStays, TestsGoFacts
<1>3. CASE FilesGo
  <2>1. m.file \notin GoneFiles
    BY <1>3, FileStays
  <2>2. PICK id, all : FilesCommitted(id, all)
    BY <1>3 DEF FilesGo
  <2>3. stored'.meas = {z \in stored.meas : z.file \notin GoneFiles}
    BY <2>2 DEF FilesCommitted
  <2> QED
    BY <2>1, <2>3
<1>4. CASE MeasGo
  <2>1. FileListed(t, f)
    BY <1>4 DEF FileKept, MeasGo, UpdateMeasFile
  <2>2. m.parent = r.id
    BY DEF RowsInv, RowsBelong, UniqueInv, Distinct
  <2>3. ASSUME NEW e \in update_list, m.parent = e.index
        PROVE  f \in ListedFiles(e)
    <3>1. TestIsOwn(e, stored.test) /\ r.name.text = t
      BY DEF RowsInv, ListInv, Plain
    <3>2. e.name = t
      BY <2>2, <2>3, <3>1 DEF TestIsOwn
    <3> QED
      BY <2>1, <3>2 DEF FileListed, ListedFiles
  <2>4. m \notin UnlistedMeas
    BY <2>3 DEF UnlistedMeas
  <2> QED
    BY <1>4, <2>4 DEF MeasGo
<1> QED
  BY <1>1, <1>2, <1>3, <1>4, RowsRemain

LEMMA TestKeptStep ==
  ASSUME NEW t \in Test, RowsInv, IsDir(t), TestSeen(t)', TestKept(t), [Next]_vars
  PROVE  TestKept(t)'
<1>1. TestStored(t)'
  BY TestStays DEF TestKept, TestStored
<1>2. pc' \in {"bed", "test", "delete"} => RootListed(t)'
  <2>1. CASE ScanRootDir
    <3>1. CASE test_dir_list' = Directories
      <4>1. PICK d : d = [name |-> t, modified |-> disk[t].modified]
        OBVIOUS
      <4>2. d \in Directories /\ d.name = t
        BY <4>1 DEF Directories
      <4> QED
        BY <3>1, <4>2 DEF RootListed
    <3>2. CASE ~ cycle_ok'
      BY <2>1, <3>2 DEF ScanRootDir, TestSeen, RootListed
    <3> QED
      BY <2>1, <3>1, <3>2 DEF ScanRootDir
  <2>2. CASE AddNewTestBed \/ AddTest
    BY <2>2 DEF AddNewTestBed, AddTest, TestKept, RootListed, listed
  <2>3. CASE Disk \/ Owner \/ Crash \/ UNCHANGED vars
    BY <2>3 DEF Disk, CreateDir, RemoveDir, WriteFile, RemoveFile, SetFile, ChangeDisk, Second, Owner,
                InitEnvironment, Start, StopRequest, StopNotify, StopJoin, Crash, vars, listed,
                TestKept, RootListed
  <2>4. CASE Begin \/ End \/ Wait \/ WaitTimeout \/ FetchFromDb \/ DeleteTest
    BY <2>4 DEF Begin, End, Wait, WaitTimeout, FetchFromDb, DeleteTest, EndCycle
  <2>5. CASE ScanUpdateTest \/ UpdateTestFile \/ UpdateMeasFile
    BY <2>5 DEF ScanUpdateTest, UpdateTestFile, UpdateMeasFile, EndCycle
  <2> QED
    BY <2>1, <2>2, <2>3, <2>4, <2>5 DEF Next, Worker
<1> QED
  BY <1>1, <1>2 DEF TestKept

LEMMA FileKeptStep ==
  ASSUME NEW t \in Test, NEW f \in File, RowsInv, Stands(t, f), Stands(t, f)', FileKept(t, f),
         [Next]_vars
  PROVE  FileKept(t, f)'
<1>1. TestKept(t)'
  BY TestKeptStep DEF Stands, FileKept
<1>2. FileStored(t, f)'
  <2>1. PICK r \in stored.test : /\ r.name = Plain(t)
                                 /\ \E x \in stored.file : x.parent = r.id /\ x.name = Plain(NameOf[f])
    BY DEF FileKept, FileStored
  <2>2. PICK x \in stored.file : x.parent = r.id /\ x.name = Plain(NameOf[f])
    BY <2>1
  <2>3. r \in stored'.test
    BY <2>1, TestStays DEF FileKept
  <2>4. PICK y \in stored'.file : Same(y, x)
    BY <2>1, <2>2, FileStays
  <2> QED
    BY <2>1, <2>2, <2>3, <2>4 DEF FileStored, Same
<1>3. pc' \in {"file", "meas"} => FileListed(t, f)'
  <2>0. TypeInv
    BY DEF RowsInv
  <2>1. CASE ScanUpdateTest
    <3>1. CASE update_list' = {Scanned(e, File) : e \in update_list}
      <4>1. ASSUME NEW g \in update_list', g.name = t
            PROVE  g.file[f] # 0
        <5>1. PICK e \in update_list : g = Scanned(e, File)
          BY <3>1
        <5>2. e \in UpdateEntry
          BY <2>0 DEF TypeInv
        <5>3. g.name = e.name /\ g.file[f] = disk[e.name].file[f]
          BY <5>1, <5>2 DEF Scanned, UpdateEntry
        <5> QED
          BY <4>1, <5>3 DEF Stands
      <4> QED
        BY <4>1 DEF FileListed
    <3>2. CASE ~ cycle_ok'
      BY <2>1, <3>2 DEF ScanUpdateTest, Stands, FileSeen, FileListed
    <3> QED
      BY <2>1, <3>1, <3>2 DEF ScanUpdateTest
  <2>2. CASE UpdateTestFile
    <3>1. FileListed(t, f) /\ \E id, done : update_list' = Indexed(id, done)
      BY <2>2 DEF FileKept, UpdateTestFile, UpdateFiles, UpdateFilesFails, ReachedFiles
    <3>2. PICK id, done : update_list' = Indexed(id, done)
      BY <3>1
    <3>3. ASSUME NEW g \in update_list', g.name = t
          PROVE  g.file[f] # 0
      <4>1. PICK e \in update_list : g = IndexOf(id, done, e)
        BY <3>2 DEF Indexed, IndexOf
      <4>2. e \in UpdateEntry
        BY <2>0 DEF TypeInv
      <4>3. g.name = e.name /\ g.file = e.file
        BY <4>1, <4>2 DEF IndexOf, UpdateEntry
      <4> QED
        BY <3>1, <3>3, <4>3 DEF FileListed
    <3> QED
      BY <3>3 DEF FileListed
  <2>3. CASE Disk \/ Owner \/ Crash \/ UNCHANGED vars
    BY <2>3 DEF Disk, CreateDir, RemoveDir, WriteFile, RemoveFile, SetFile, ChangeDisk, Second, Owner,
                InitEnvironment, Start, StopRequest, StopNotify, StopJoin, Crash, vars,
                FileKept, FileListed
  <2>4. CASE Begin \/ End \/ Wait \/ WaitTimeout \/ FetchFromDb \/ ScanRootDir \/ DeleteTest
    BY <2>4 DEF Begin, End, Wait, WaitTimeout, FetchFromDb, ScanRootDir, DeleteTest, EndCycle
  <2>5. CASE AddNewTestBed \/ AddTest \/ UpdateMeasFile
    BY <2>5 DEF AddNewTestBed, AddTest, UpdateMeasFile, EndCycle
  <2> QED
    BY <2>1, <2>2, <2>3, <2>4, <2>5 DEF Next, Worker
<1> QED
  BY <1>1, <1>2, <1>3 DEF FileKept

LEMMA MeasKeptStep ==
  ASSUME NEW t \in Test, NEW f \in File, RowsInv, Stands(t, f), Stands(t, f)', MeasKept(t, f),
         [Next]_vars
  PROVE  MeasKept(t, f)'
<1>1. FileKept(t, f) /\ FileKept(t, f)'
  BY FileKeptStep DEF MeasKept
<1>2. PICK r \in stored.test, x \in stored.file, m \in stored.meas :
        /\ r.name = Plain(t) /\ x.parent = r.id /\ x.name = Plain(NameOf[f])
        /\ m.file = x.id /\ m.name = Plain(NameOf[f])
  BY DEF MeasKept, MeasStored
<1>3. r \in stored'.test
  BY <1>1, <1>2, TestStays DEF FileKept
<1>4. PICK y \in stored'.file : Same(y, x)
  BY <1>1, <1>2, FileStays
<1>5. m \in stored'.meas
  BY <1>1, <1>2, MeasStays
<1>6. MeasStored(t, f)'
  BY <1>2, <1>3, <1>4, <1>5 DEF MeasStored, Same
<1> QED
  BY <1>1, <1>6 DEF MeasKept

\* KeepsStored: what another program has stored of a test, its row, the row of
\* a file and that of a measurement file, and what is there when a cycle
\* begins, stays as long as the directory and the file stand and no scan fails
\* before it has come to them, whatever else fails: a statement, a lost COMMIT,
\* a scan that had come to them, a crash.
THEOREM StoredIsKept == Spec => KeepsStored
<1>1. ASSUME NEW t \in Test
      PROVE  Spec => KeepsTest(t)
  <2>1. BetweenCycles /\ TestStored(t) => TestKept(t)
    BY DEF BetweenCycles, TestKept
  <2>2. RowsInv /\ IsDir(t) /\ TestSeen(t)' /\ TestKept(t) /\ [Next]_vars => TestKept(t)'
    BY TestKeptStep
  <2>3. TestKept(t) => TestStored(t)
    BY DEF TestKept
  <2>4. Spec => [](BetweenCycles /\ TestStored(t) /\ [](IsDir(t) /\ TestSeen(t)) => []TestStored(t))
    BY <2>1, <2>2, <2>3, RowsInvariant, PTL DEF Spec
  <2> QED
    BY <2>4 DEF KeepsTest
<1>2. ASSUME NEW t \in Test, NEW f \in File
      PROVE  Spec => KeepsFile(t, f)
  <2>1. /\ BetweenCycles /\ FileStored(t, f) => FileKept(t, f)
        /\ BetweenCycles /\ MeasStored(t, f) => MeasKept(t, f)
    BY DEF BetweenCycles, FileKept, MeasKept, TestKept, TestStored, FileStored, MeasStored
  <2>2. RowsInv /\ Stands(t, f) /\ Stands(t, f)' /\ FileKept(t, f) /\ [Next]_vars => FileKept(t, f)'
    BY FileKeptStep
  <2>3. RowsInv /\ Stands(t, f) /\ Stands(t, f)' /\ MeasKept(t, f) /\ [Next]_vars => MeasKept(t, f)'
    BY MeasKeptStep
  <2>4. /\ FileKept(t, f) => FileStored(t, f)
        /\ MeasKept(t, f) => MeasStored(t, f)
    BY DEF FileKept, MeasKept
  <2>5. Spec => [](BetweenCycles /\ FileStored(t, f) /\ []Stands(t, f) => []FileStored(t, f))
    BY <2>1, <2>2, <2>4, RowsInvariant, PTL DEF Spec
  <2>6. Spec => [](BetweenCycles /\ MeasStored(t, f) /\ []Stands(t, f) => []MeasStored(t, f))
    BY <2>1, <2>3, <2>4, RowsInvariant, PTL DEF Spec
  <2> QED
    BY <2>5, <2>6 DEF KeepsFile
<1> QED
  BY <1>1, <1>2 DEF KeepsStored
=============================================================================
