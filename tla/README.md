# Verification of odslib

odslib is a C++ library for ASAM ODS databases: a model of tables and columns,
database classes for SQLite and PostgreSQL, and worker objects that keep such
databases filled (syslog messages, test directories). This directory holds
TLA+ models of its parts, the TLC runs that check them on small instances, and
TLAPS proofs of the properties that matter most.

    tlc -workers 2 -config SqliteNested.cfg MCSqliteDatabase.tla
    tlapm SqliteDatabase_proofs.tla

## 1. The system

| Component | Code | State | Operations | Talks to |
|---|---|---|---|---|
| Database scopes on SQLite | `databaseguard.cpp`, `sqlitedatabase.cpp`, `sqlitestatement.cpp` | a connection, a transaction, the guards on the stack | enter a guard, statements, `Rollback`, leave | the SQLite file, shared with other handles and processes |
| PostgreSQL database | `postgresdb.cpp`, `postgresstatement.cpp` | a connection, a transaction | as above | a server |
| Database base class | `idatabase.cpp` | `use_indexes_`, `use_constraints_` | `Create`, `ReadModel`, `Insert`, `Exists`, `Update`, `Delete`, `DumpDatabase`, `ReadInDump` | the two classes above, the model |
| Syslog inserter | `sysloginserter.cpp` | three name caches, the model, `IsOk()` | `Init`, `Tick`, `Exit`, `AddOneMessage` | a workflow that hands it lists of messages; a database through guards |
| Test directory worker | `testdirectory.cpp` | lists of tests, test beds, files; a thread | `Start`, `Stop`, the scan and update cycle | the file system; a database, five scopes a cycle |
| Event log environment | `eventlogdb.cpp` | input queues, a thread | `Start`, `Stop`, `AddInput`, `DeleteInput`, the worker's loop | syslog servers; a database, `Vacuum` |
| Model, tables, columns | `imodel.cpp`, `itable.cpp`, `icolumn.cpp`, `irelation.cpp`, `ienum.cpp` | the tree of tables, relations, enumerations | add, delete, `FindNextTableId`, `AllTables`, `SaveModel`, `ReadModel` | used by everything |
| ATFX file | `atfxfile.cpp` | the elements, attributes and units of a file | `Import` | an XML parser; a model |
| Items, attributes, filters, helpers | `iitem.cpp`, `iattribute.cpp`, `sqlfilter.cpp`, `odshelper.cpp`, ... | values | conversions, WHERE clauses, dump rows | used by everything |
| Environments and factory | `ienvironment.cpp`, `odsfactory.cpp` | properties | construction | the applications |
| ODS Configurator | `odsconfigurator/src/` | a model, the model as last saved, a file and its backup, a clipboard | edits of tables, columns, enumerates, relations; copy, paste, save, open, import | the model, ATFX files, databases |
| Other applications | `reportexplorer/`, `global_name/` | views | user actions | the environments; the same database files |

How they interact. Every user of a database enters a `DatabaseGuard`; if the
handle is closed the guard opens it, which begins a transaction, and its
destructor closes it with COMMIT; if the handle is open already the guard does
nothing, so that guards nest. A handle belongs to one thread. Several handles
are on one SQLite file: the worker of an environment has one, the views of the
Report Explorer have others, and SQLite's locks order them.

What is hard, and what makes each part correct:

* **Scopes.** Nested guards, three ways to end a scope, busy locks between
  handles, a COMMIT that may fail, a transaction that SQLite throws away in the
  middle. Correct: a scope is atomic and serialised, sees the current file,
  owns its connection exactly once, and ends.
* **Syslog inserter.** Caches live longer than transactions; a list fails in
  the middle; the answer is given before the commit; the task restarts.
  Correct: a message is stored under its own host and application, a name has
  one row, a list is stored as a whole or not at all, the answer is true.
* **Test directory.** A cycle spreads over five scopes and a file system that
  changes meanwhile; each step may fail; Stop races the wait. Correct: what another
  program has stored stays while it stands on the disk, files belong to their tests, a
  failed cycle is made good by a later one, Stop ends.
* **Event log.** Queues are emptied while the database may be closed; inputs
  are added while the worker runs. Correct: a message that was taken is stored.
* **Model.** Ids that are freed and given again, references and parents by id,
  an order of tables in which references come first, for circular references
  too. Correct: a saved model reads back, a pasted subtree refers to itself.
* **Configurator.** Edits, a timer, saves that fail, imports whose elements
  refer to later ones. Correct: an edit is noticed, no failed save loses the
  model, an import has the references that the file says.
* **Create, dump and read-in.** Row failures, switched-off constraints, new
  ids, tables that are read in scopes of their own, attempts that are repeated.
  Correct: a reported dump is complete, nothing is stored twice, references
  lead where they led, or the caller is told.

The hazards at their lines are listed in `PROJECT.json`, with the properties
that would catch each of them going wrong; two that no property is about are the answer
of `AddOneMessage` without a model (section 3) and the trim that never happens (section 5).

## 2. The modules

| Module | Role |
|---|---|
| `TransactionStore` | abstract: what a database file promises to its handles |
| `SqliteDatabase`, `MCSqliteDatabase`, `SqliteDatabase_proofs` | `DatabaseGuard` and `SqliteDatabase` over SQLite's locks |
| `EventLog` | abstract: what the inserter promises about the log |
| `SyslogInserter`, `MCSyslogInserter`, `SyslogInserter_proofs` | `SyslogInserter` on SQLite or PostgreSQL |
| `TestDirectory`, `MCTestDirectory`, `TestDirectory_proofs` | `TestDirectory`: the worker thread and its owner, on SQLite |
| `MeasImport`, `MCMeasImport`, `MeasImport_proofs` | what that worker stores below a measurement file |
| `EventLogDb`, `MCEventLogDb`, `EventLogDb_proofs` | `EventLogDb`: the worker thread, its inputs and its owner |
| `ModelTables`, `ModelTables_proofs` | the model of tables: a library of operators, no state |
| `AtfxFile` | the import of an ATFX file into such a model, likewise |
| `ModelEditor`, `MCModelEditor`, `ModelEditor_proofs` | a document of the configurator, over `AtfxFile` |
| `DumpRestore`, `MCDumpRestore`, `DumpRestore_proofs` | Create, DumpDatabase and ReadInDump, over `ModelTables` |

The MC modules hold the instances for TLC, the modules `_proofs` the theorems;
`ModelTables_proofs` holds the lemmas about models that the proofs of `ModelEditor`
and `DumpRestore` share.
The operators whose names begin with `Mut` are slips of the code that no
behaviour uses.

How they compose. `SqliteDatabase` shows that a scope is atomic and serialised;
every other module takes a scope as one transaction: `SyslogInserter` and
`EventLogDb` keep the committed tables and those of the open transaction,
`TestDirectory`, `MeasImport` and `DumpRestore` do a scope in one step.
`MeasImport` stands below the files of `TestDirectory`, for files of different names. `ModelEditor` and
`DumpRestore` hold models of `ModelTables`; the editor imports them through
`AtfxFile`, and `DumpRestore` stores, dumps and reads them.

The scopes that `SqliteDatabase` calls broken (SQLite has rolled back by itself)
are left out of the other modules: they need a full disk or an I/O error, after
which the next statements commit one by one.

### SqliteDatabase

`guards[h]` is the stack of live `DatabaseGuard` objects of handle `h`; a guard
is its two members, `own` for `database_ != nullptr` and `ok` for `db_ok_`.
`database[h]` is the connection, `intx[h]` whether it is inside BEGIN,
`call[h]` the SQLite call its thread is inside. `file`, `lock`, `base` and
`work` belong to SQLite: the committed rows, the lock of each connection on the
file, the file as its transaction first saw it, and the rows as it has made
them.

| Code | Actions |
|---|---|
| `DatabaseGuard::DatabaseGuard` | `EnterOwner`, `EnterFailed`, `EnterNested` |
| `DatabaseGuard::Rollback` | `RollbackOwner`, `RollbackNested` |
| `DatabaseGuard::~DatabaseGuard`, `SqliteDatabase::Close` | `LeaveNested`, `LeaveClean`, `LeaveCommit`, then `CommitDone`, `CommitBusy`, `CommitError` |
| a query, `Insert`, `Update`, `Delete` | `Issue`, then `Read`, `Write`, `LoneWrite`, `Busy`, `EngineRollback` |

`Edits` says what one statement makes of the rows: it may drop any of them and
adds at most one that was not there (DELETE, INSERT, UPDATE). A refused
statement is `Busy`, or a `Write` that changes no row.

### SyslogInserter

`pc` is the statement that the message `list[pos]` has come to; the chain is
Hostname, Application, Syslog, SdIdent, SdName, SdData, as in `InsertMessage`
and `InsertData`. `cache` holds `host_cache_`, `app_cache_` and
`identity_cache_`; `ref` the ids that the three lookups have returned. `told`
is what the caller learns. Names are classes up to letter case, because the
caches, `Exists` and UNIQUE all ignore it. The two databases differ in what the
code makes of them: `SqliteDatabase::Insert` binds a text with the quotes that
`sqlite3_mprintf("%Q")` has put around it, so `Exists` does not find it, and
AUTOINCREMENT gives rolled back ids again; `PostgresDb` keeps texts, its serials
never go back, and LOWER() of the integer parent column in `InsertData` is an
error (the condition on `key_parent` asks for EqualIgnoreCase).

| Code | Actions |
|---|---|
| `Init` | `InitTask` |
| `Exit`; the end of the process | `ExitTask`; `Crash` |
| the guard at the head of `Tick` and `AddOneMessage` | `OpenDatabase`, `NoDatabase` |
| `InsertHost`, `InsertApplication`, `InsertIdentity` | the actions of those names, each of `InsertName`, `FindName`, `CachedName`, `EmptyName` |
| `InsertMessage`, `InsertData` | `InsertRow`, `InsertKey`, `InsertValue` |
| the catch block; the guard's destructor | `Throw`; `Commit`, `CommitFails` |

`Faults` selects what may fail for reasons of its own: the opening of the
database, the reading of the model, any statement, the COMMIT. A statement that
a constraint refuses fails in every run (`Refused`).

### TestDirectory

`pc` is the method of the cycle that the worker has come to, `owner` the part
of `Stop` that the calling thread is in. `test_bed_list`, `test_list`,
`test_dir_list` and `update_list` are the members of those names;
`test_bed_index` of a listed directory is kept in `bed_index`. `cycle_ok` is
the local `is_ok` of `WorkerThread`, `is_ok` the member.

| Code | Actions |
|---|---|
| `Init`, `Start` | `InitEnvironment`, `Start` |
| `Stop` | `StopRequest`, `StopNotify`, `StopJoin` |
| `WorkerThread` | `Begin`, `End`, `Wait`, `WaitTimeout`; `EndCycle` in the last method of a cycle |
| the methods of the cycle | the actions of those names |
| file system, clock, end of the process | `Disk` (external), `Crash` |

A method that writes does so in one scope, which `SqliteDatabase` shows to be
atomic; so a method is one action, with the outcomes committed (`Leave`), rolled
back (`Rollback`) and lost COMMIT (in `Leave`). `AddNewTestBed` has a scope for
each new test bed and takes a step for each directory. What is abstracted:

* A scan reads the disk at one moment, or comes to any part of it and fails. The
  scan of a test is recursive (`File` has paths) and keeps only the name of a file
  (`NameOf`): a file in a sub directory (`SubFile`) does not change the time of the test
  directory, and two files of one test may have one name (`Twins`), which UNIQUE refuses. The
  refusal rolls the scope back and with it the files of every test on the update list, in
  each cycle that scans it.
* The ids of AUTOINCREMENT come round after `IdRing` of them; one that a row
  still has is passed over. A scope that is rolled back gives its ids back.
* Names are classes up to letter case. `Plain` is a name as another program
  stores it, `Bound` as `SqliteDatabase::Insert` does, with quotes (see above).
  What the worker has stored is never found again: each cycle inserts all
  directories, is refused, and deletes all rows, or finds the tables empty and
  fills them. The database is the image of the disk in every other cycle only,
  which is why `Recovers` says "again and again".
* Dates are bound with quotes as well. What `IsoTimeToNs` makes of them is left
  open (`Unreadable`): a row may be older than its file or not.
* A modified test is not written again (`AddTest` puts it on the update list
  only), as in the code.
* Where the code updates several files of a test in a row, only the last UPDATE
  and the rows that were inserted before it matter (`LastUpdate`, `before`).

### MeasImport

`db` holds the committed tables of files, measurements, measurement quantities
(MQ), quantities and units with the ids they have drawn; `quantity_list` and
`unit_list` are the members of those names. `UpdateMeasFile` is one scope and so
one step: the operators below it carry the tables and lists of the open scope
through the statements in the order of the code, and the `broken`-th statement
throws.

| Code | Definitions |
|---|---|
| `UpdateUnit`, `UpdateQuantity`, `UpdateMq`, `UpdateMeas` | the operators of those names; `UpdateSamples`, `InsertMq` are the two branches of `UpdateMq`, and `InsertFile`, `InsertMeas`, `InsertMqRow`, `InsertQuantity` their Insert statements |
| `FetchFromDb`; `UpdateMeasFile` | the actions of those names, `EndCycle` |
| the disk; other programs; the end of the process | `WriteFile`; `OtherProgram` (external); `Crash` |

A failed insert of a quantity or of a unit is the id 0 (`return false` in a
function that returns an id), and the import goes on. What the worker has
stored itself is quoted and not found again: a later cycle stores a quantity of
the same name once more, and a unit is refused by UNIQUE, so that its MQ has no
unit. A channel in several channel groups has the number of samples of one of
them: the row is compared as it was fetched, so that with 10, 30 and 20 samples
it ends at 20, which the next import mends; `ImportedCompletely` therefore asks
for the last group, and that no row is left with less than it had. Measurements of a file that is gone stay
without a file (ON DELETE SET NULL). A file that MdfReader cannot read (`NoMdf`)
is passed over and keeps the rows that it has, and the import succeeds all the
same: "complete" is about the files that can be read.

### EventLogDb

Two threads: `owner` calls `Init`, `AddInput`, `DeleteInput`, `Start` and `Stop`;
`worker` is the place of the worker thread in `WorkerThread` with its position in
`input_list_` and its guard. The class is abstract (`IEnvironment::Database`);
what is modelled is the class with a `Database()` that returns `database_`.

| Code | Actions |
|---|---|
| `Init`, `AddInput`, `DeleteInput` | `InitEnvironment`, `AddInput`, `DeleteInput` |
| `Start`; `Stop` | `Start`; `Stop`, `Join` |
| `WorkerThread` | `WorkerStarts`, `Loop`, `WaitFor`, `Block`, `Timeout`, `NextInput`, `OpenGuard`, `TakeMessage`, `NoMessage`, `NullInput`, `CloseGuard` |
| `AddMessage`, `AddUniqueName` | the operators of those names, within `TakeMessage` |
| a syslog server receives a message | `Receive` (external) |

`input_list_` has no lock: a change of it while the worker iterates is undefined
behaviour, and `Disturb` lets the worker go on or the process fail. A host that
is stored already is refused by UNIQUE, so the second message of a host has the
reference 0. An `InitEnvironment` whose `Create` fails may leave the model, and the next one
then answers true without opening the database. A message is taken before the guard is asked: if the database is
closed, the message is gone, which `TakenIsStored` counts.

### ModelTables, AtfxFile, ModelEditor

A model is a record; its tables are a function from application ids, `at` is the
table under which a table is kept and `parent` the field `ParentId`, which the code
keeps apart. Ids are given by `FindNextTableId`, which answers 0 when the ids from 1 to 999
are all taken, and freed by `DeleteTable`. A table that gets the id 0 cannot be told from
the top level afterwards; the editor is bounded by `MaxTables` (at most 998), which keeps
it from that.
`AllTables` is the loop of the code: pass after pass over the walk of the tree it
lists tables that wait for nothing, until a pass adds none.

`AtfxFile` imports the elements in the order of the file, relation by relation;
an element that comes later has no table yet and the reference is 0, so a second
round (`FixRelation`) sets the references, and `FixUnits` puts the names of units
in the place of their ids.

`ModelEditor` is the document. Each handler of the panels runs on the GUI thread
to its end, with modal dialogs, and is one action with the name of the handler;
what the user types is an input. `OnSaveTimer` is the timer of three seconds that
writes the page into the model and sets the modified flag from `operator==`
(`Same`). A handler that ends with `Update()` draws the page anew, so that what is typed there
is gone (`EditAndUpdate`). `DoSaveDocument` moves the file to a backup and writes the new one, or
fails to.

What the code does and the properties take as it is: `operator==` does not see the
order of columns (`imodel.h:53`), so a reordering alone is not saved; `OnSave` is
off while there is no file, so after a failed save only Save As helps; the page is
saved as it was at the last tick of the timer; closing within these three seconds
drops the last edits; a saved model reads back without descriptions, security mode
and inverse base names, and top-level tables without a database name are skipped
with their sub tables; a table of an ATFX file whose parent comes later in the file
stays on the top level, because the second round sets the reference of the column
only.

### DumpRestore

`source` and `target` are two databases: service tables (`svc`), tables with rows,
references and UNIQUE names. `dirs` are the dump directories on the disk,
`dumping` and `reading` where the two long operations are.

| Code | Actions |
|---|---|
| `IEnvironment::CreateDb`, `IDatabase::Create` | `CreateDb`, `Create` with `Statements`: enumerations, entities, attributes, references, tables, relation tables, units, environment |
| `IDatabase::ReadModel`, `ReadSvc...Table`, `FetchModelEnvironment` | `ReadDatabaseModel` and the operators of those names |
| `DumpDatabase` | `CreateDumpDir`, `DumpModel`, one `DumpTable` for each table, `EndDump` |
| `ReadInDump` | `ReadInDumpFiles`, `ReadTargetModel`, `Create`, `CheckEmpty`, one `ReadInTable` for each file, `EndRead` |
| other programs; the end of the process | `WriteSource`, `WriteTarget` (external); `Crash` |

A text carries the number of quotes around it, since each `Insert` on SQLite adds
a pair. What the module shows of the code, and the properties leave room for:

* `ReadInTable` uses `Insert`, which draws a new id (`InsertDumpRow`, which would keep
  it, is called by nobody): a gap in the ids of a dumped table moves the rows after
  it, and references keep the old number.
* `EnableConstraints(false)` comes before the guard's `Open`, so SQLite does not check
  foreign keys while the files come in alphabetical order; PostgreSQL does, and one
  refused row breaks off the transaction of its table. A `BEGIN` that fails leaves
  `connection_` set and each row commits alone.
* `ReadInDump` compares the models with `!=` after reading: a database that is there is
  refused, so that in practice only a new one is filled. The units that `Create`
  stores make a new database of a model with units not empty, and the dump is refused
  then too (`testdatabase.cpp:170` expects it to be read).
* Nobody asks the stream of a dump file whether its rows were written: a write that fails
  (a full disk) leaves a file that ends at a row or in the middle of its line, and the dump
  goes on and is reported (`lost` keeps the rows). The read-in takes what is complete in a torn
  line for a row: nothing, or the values up to its id or up to its name.
* A table of units without a name column refuses the units of `Create`; a text that is empty and
  not obligatory is stored as NULL, without quotes.
* A transient failure of `ReadModel` makes `ReadInDump` run `Create` on a database that
  exists: UNIQUE and the existing tables refuse the second set.
* On an empty PostgreSQL database the missing service tables break off the transaction
  and `ReadInDump` throws; `Create` is reached only when the open fails for once or its
  BEGIN does. `PostgresDb::FetchItems` never counts, so a dump of a PostgreSQL database
  with rows is answered with the empty string.
* `ExistDatabaseTable("SVCREF")` is always false, on SQLite for its quoting
  (`sqlitedatabase.cpp:219`), on PostgreSQL for the small letters: relations are never
  read back.
* BLOBs are dumped in hex and read as Base64 (`garbled`).

## 3. What is checked

| Run | Question | Bounds | Properties |
|---|---|---|---|
| `SqliteNested` | are nested scopes atomic, do they see the current file, is a connection owned once, does every scope end? | 2 handles, 2 rows, guards 2 deep, fair | `TypeOK`, `OneOwner`, `OkMeansOpen`, `SnapshotCurrent`, `StoreSpec`, `ScopeEnds` |
| `SyslogPostgres` | are messages attributed, is a list stored in order or not at all, with all faults? | 3 messages, lists of 2, 3 ids, 2 stored | `TypeOK`, `Attribution`, `LogSpec` |
| `SyslogSqlite` | do references exist, are names unique, is the answer true, with all faults? | 3 messages, lists of 2, 4 ids, 3 stored | `ReferencesExist`, `UniqueNames`, `ReportedIsStored` |
| `TestDirFresh` | does every row belong to its parent, does the worker recover, does `Stop` end? | a new database, 2 directories, in one of them 2 files of one name, one in a sub directory, 2 troubles, fair | `TypeOK`, `RowsBelong`, `Recovers`, `StopEnds` |
| `TestDirExisting` | is `IsOk()` true after a cycle, do the rows of another program stay while their directory and files stand? | a database that is there, 1 directory, 2 files of different names, one in a sub directory, 2 seconds, 2 troubles; no lost COMMIT | `OkIsStored`, `KeepsStored` |
| `MeasImport` | do MQs refer to what is theirs, is an import that says so complete? | 2 files, each unreadable or one of 3 contents of up to 2 groups, 3 cycles, 2 troubles | `TypeOK`, `RefersToItsOwn`, `ImportedCompletely` |
| `EventLog` | is what is taken stored, are references right, does the worker have a model, do `Stop` and every message come to an end? | 2 inputs, 2 messages, 1 fault, 3 changes of the inputs, fair | `TypeOK`, `TakenIsStored`, `Attributed`, `WorksWithModel`, `StopEnds`, `MessagesAreTaken` |
| `ModelDocument` | are tables created in order, does a model read back, is the last save on disk, is a paste a copy, an import as written, an edit noticed? | a chain of 3 tables, an ATFX file of 5 elements, 2 steps, the timer between, fair | `TypeOK`, `DependenceOrder`, `RoundTrip`, `LastSaveOnDisk`, `ImportedAsWritten`, `PasteIsCopy`, `EditIsNoticed` |
| `DumpRestore` | is a reported dump complete, does a read-in keep rows and references and store nothing twice, is what is created read back? | 4 sources and 3 targets on both databases, 1 dump, 2 read-ins, 2 faults (a failed write among them), 1 change | `TypeOK`, `StoredOnce`, `ReferencesKept`, `ReportedIsComplete`, `KeepsRows`, `CreatedIsRead` |

`StoreSpec` is the refinement of `TransactionStore`, `LogSpec` that of
`EventLog`.

### The bounds

Two handles make every conflict between a scope and another one; a reader that joins
while a writer waits for another reader needs a third handle, for which the safety
properties are proved (section 4). Depth two has the owner, the nested guard, and a
guard around a guard that has rolled back; a third level adds another nested guard,
which only changes its own `ok`. Two rows let two writes of a scope be told apart.
Lists of two messages have a message that fails after one that has succeeded; three
ids or more let an id be drawn, rolled back and drawn again. `MaxId` and `MaxLog` stop
the counters; a behaviour that reaches them stays there.

A trouble of `TestDirectory` or `MeasImport` is a change of the disk or of the
database, a fault or a crash: one of them hits every point of a cycle, two are a
change and a fault on top of it, or a lost COMMIT and what follows. The worker of
`TestDirectory` is not bounded. Two directories let one be new while the other is
known, and share a test bed; two files let one be newer than the other, or both have one
name. `Paths` keeps the files of `TestDirFresh` in one of its directories. `IdRing`
leaves enough ids that no row has for what a cycle draws, so that they come round
without two rows sharing one; a rolled back id is drawn again next. Three cycles of
`MeasImport` are a first import, one over rows that the worker has stored, and one
after a failure in between. The contents share a channel and a unit, and one has a
channel in three groups.

In `EventLog` one fault hits every point of the worker, with one message stored before
it or one taken after it; three changes of the inputs add both, or add one, delete it and
add it again. `Init`, `Start` and `Stop` are not bounded. Inputs that are filled faster
than they are emptied would keep the worker in one pass, and so `Stop` waiting; with
`MaxSent` messages in all this does not show.

Two steps of `ModelDocument` are two edits, an edit and a save, a copy and a paste, an
import and a save; the tables to begin with have references, an enumerate and a
clipboard with a subtree, and the forms make references in both directions, so that
circles, freed ids and taken names happen. The file to import has an element before
the one it refers to, two parents, a unit, a circle and a parent that comes later.
In `DumpRestore` the table of the parts comes before that of the tests in the
alphabet; one source has a gap in its ids; a second fault is needed for a BEGIN that
fails after an open that has failed, a second read-in for the attempt after a failure.

`KeepsStored` is about rows with `Plain` names, as another program stores them: of a test,
of a file in it and of a measurement file, at any moment between two cycles. It
excepts a scan that fails before it has come to the directory or the file, because
`DeleteTest` and `UpdateTestFile` then delete what the scan has not come to
(`testdirectory.cpp:488` looks at the list only). It does not speak of the rows that the
worker has stored itself: these it does not find again, so that it deletes them and inserts
them anew in every second cycle, while their directory stands. That it holds with lost COMMITs too is
proved (section 4). `OkIsStored` does not hold when a COMMIT is lost, because nobody
looks at it. `Recovers` asks that no test has twins left: as long as one has, the scope
of `UpdateTestFile`, which is one for all tests on the update list, is refused in every
cycle that scans it, and no file of these tests is stored. `Recovers` is about rows that the worker
has written: a test that another program has stored stays as it is when a file of it
changes but its directory does not, or changes in the second that is recorded.
`ReportedIsComplete` excepts the rows that a failed write has kept from their file (`lost`):
nobody looks at the stream, and the dump is reported all the same.
`ReportedIsStored` excepts two answers that the code gives without looking: a lost
COMMIT, and a call without a model, to which `AddOneMessage` says true.
`ReferencesKept` asks for a table without gaps and leaves out the environment, of which
`Create` stores a row; `StoredOnce` is about the data, neither the environment nor the
units: section 2 says why.

### Fairness

`SqliteNested`: a call of SQLite returns, because the busy handler gives up after a
thousand waits (`BusyHandler`): weak fairness of `Answer` and of `Commit`, where a
failed lock is an answer too. A scope is a C++ block with a finite list of
statements, so its guard is destroyed in the end: strong fairness of leaving at each
depth, because between two statements leaving is disabled while the call is in
SQLite. An I/O error (`CommitError`) is never assumed to happen, nor is any statement
assumed to succeed.

`TestDirFresh`: weak fairness of `Worker`: its thread runs, its calls return, and its
wait ends after 60 seconds whether it is notified or not. Weak fairness of
`StopNotify` and `StopJoin`: `Stop` goes on once it has begun. Nobody is assumed to
call `Start` or `Stop`, and no fault is assumed to be absent; there are finitely many
of them.

`EventLog`: weak fairness of `WorkerThread`, whose wait ends after a second, and of
`Join`. `ModelDocument`: weak fairness of `OnSaveTimer`, a timer that the page
restarts as long as it exists.

### Disagreements

Between the code and what its comments say, each a run with the one property that TLC
finds violated:

| Run | What happens |
|---|---|
| `SyslogMisattributed` | SQLite and no fault: a list is rolled back because the value row of a parameter is refused; its host `b` stays in the cache with id 1; the next new host `c` gets id 1; a message of `b` is stored under `c` |
| `SyslogQuotedName` | after a restart a stored identity is not found, is inserted again and refused |
| `TestDirUpdate` | the UPDATE of one file has the filter of its test: all files of the test get its location and time |

The quotes that keep a stored identity from being found (`SyslogQuotedName`) do the
same to the test beds, tests and files of `TestDirectory`: a test bed, which the
comment at `testdirectory.cpp:453` calls rarely added, is inserted and refused in
every cycle from the second one on. The value of a syslog parameter is inserted into
the table of the keys (`sysloginserter.cpp:329`), where its parent means an identity,
so the table of the values stays empty.

`MessagesAreAttributed` (below) and `SyslogMisattributed` belong together: the
caches that outlive a rollback do no harm exactly because a PostgreSQL serial
never gives an id again; a stale id then meets a foreign key that refuses it.

## 4. What is proved

`SqliteDatabase_proofs`, for any finite nesting, any handles and rows:

* `TypeCorrect`: `Spec => []TypeOK`.
* `ConnectionsHaveOneOwner`: `Spec => []OneOwner`, and `OkGuardsAreOpen`:
  `Spec => []OkMeansOpen`. The inductive invariant `GuardInv` describes the stack of a
  handle: a guard says ok only over an open connection, an open connection has a guard
  that owns it and says ok, and a guard that owns, or tried to, lies below every guard
  that says ok, so that the innermost owner is the only one. The lemmas `StackPush`, `StackClose` and
  `StackNested` say what the constructor, `Rollback` and the destructor make of such a
  stack.
* `ScopesSeeTheCurrentFile`: `Spec => []SnapshotCurrent`. The inductive
  invariant is `IInv == TypeOK /\ ScopeInv /\ SnapshotCurrent`. `ScopeInv` ties
  locks, transactions and connections together: a lock only inside a
  transaction, a transaction only on an open connection, a view only under a
  lock, PENDING while in COMMIT. It is needed because the file changes in two
  places, in `CommitDone`, where all other locks are gone, and in `LoneWrite`,
  where the handle itself holds none: only the tie of lock and transaction says so.
* `ImplementsTransactionStore`: `Spec => StoreSpec`. Every step from a state of
  `IInv` is a step of `TransactionStore` or a stutter under the refinement
  mapping `store <- file`, `scopes <-` open handles, `broken <-` open without a
  transaction, `active <-` holding a lock, `snap <- base`, `view <- work`. A commit needs
  `SnapshotCurrent`: the abstract store commits only over the store it has seen.

`SyslogInserter_proofs`, for any messages, names, faults and bounds:

* `TypeCorrect`: `Spec => []TypeOK`, by `TInv`, which adds that `pos` is a
  position of `list` while a message is being inserted and that the tables are finite.
* `MessagesAreAttributed`: `ASSUME SerialKept PROVE Spec => []Attribution`. The
  inductive invariant `AInv` says of every id that somebody remembers (a cache,
  `ref`) that it has been drawn, and that if the table has a row with it, then
  it is the row of that name (`CacheInv`, `RefInv`, by way of `Fits`); that no
  two rows share an id and none is beyond the serial (`IdInv`); and that the rows of the log
  are attributed (`LogInv`). A row enters the log only past the foreign keys, which turn
  "fits if it is there" into "is there".
* `ReferencesAreThere`: `Spec => []ReferencesExist`, on both databases. `RefersInv` says
  it of the stored tables and of those of the open transaction: names are only
  added to the latter (`NamesGrow`), rows and keys pass the foreign keys, and a
  rollback goes back to stored tables that have the property.
* `NamesAreUnique`: `Spec => []UniqueNames`, on both databases. A row that is inserted
  has a name that is not there, by UNIQUE; for the ids to be unique too, `UniqueInv`
  counts: on a database that gives ids back, the serial is the number of the rows of
  the table, and no stored id is above the number of the stored rows.
* `ImplementsEventLog`: `Spec => LogSpec`. `ScopeInv` says that the log of the open
  transaction is the stored log followed by the finished part of the list; COMMIT then
  appends the whole list, and every other step leaves the stored log as it was.
* `AnswersAreTrue`: `Spec => ReportedIsStored`, from the same invariant: a COMMIT that is
  not lost stores the log of the open transaction, whose end is the list.

`EventLogDb_proofs`, for any inputs, messages, faults and bounds:

* `WorkerHasModel`: `Spec => []WorksWithModel`, by `ModelInv`: `is_ok_` implies a model, and
  so does a worker, because `Start` asks for `is_ok_` and no Init takes a model away.
* `MessagesAreAttributed`: `Spec => []Attributed`. `RowsInv` says of the committed rows
  and of those of the open scope that ids are places in their tables and that
  references are right (`Right`); there is a lemma for each statement of
  `AddMessage`, with the message queues typed by `Traffic`.
* `TypeCorrect`: `Spec => []TypeOK`, from `RowsInv` and `QueuesInv`, which adds that no
  input is in the list twice and that what an input has received waits in its queue,
  is taken, or went away with the input.
* `NothingElseIsLost`: `Spec => []TakenIsStored`. `OrderInv` says
  that messages wait in the order of their numbers and behind those that are logged, so
  that a logged message is never logged again; `CountInv` then counts: what is taken, and
  what a failed open is about to cost, is no more than what the open scope has logged and
  the opens and statements that have failed.

`TestDirectory_proofs`, for any directories, files, faults and any size of the ring of ids:

* `TypeCorrect`, `RowsBelongTogether`: `Spec => []TypeOK` and `Spec => []RowsBelong`. The
  property is not inductive: the entries of the update list carry ids from one scope to
  the next. `ListInv` says that an entry has the id of no test but its own, and for each
  of its files the id of no stored file but that one: the id may be of no row at all, when
  the scope that drew it was rolled back. `UniqueInv` has the ids distinct. The long part is
  `UpdateTestFile`, whose UPDATE hits all files of a test: `FilesLeft` gives its result for
  any order of the entries and of their files.
* `OkCyclesAreStored`: `ASSUME "commit" \notin Faults PROVE Spec => OkIsStored`. `OkInv`
  says for each place of the cycle what is stored as long as `cycle_ok` holds. The
  hypothesis is needed: nobody looks at the answer of COMMIT, so that a lost one leaves
  `IsOk()` true and nothing stored.
* `StoredIsKept`: `Spec => KeepsStored`, with all faults. `TestKept`, `FileKept` and
  `MeasKept` say for each place of the cycle why the row is not deleted next: a scan that has
  ended lists all that stands, and one that has failed had come to it; the lists that were read
  from the database hold the row with its id; and an entry that matches a row is not deleted.
  `RowsRemain` has what the other steps leave: only `DeleteTest`, `UpdateTestFile` and
  `UpdateMeasFile` take rows away.

`MeasImport_proofs`, for any files, contents, other programs and
faults. The loops of the code are recursive functions there (`after`), and what
they do is proved by induction over their turns (`UpTo`, from the well-foundedness of the
numbers); `MqSteps`, `MeasSteps` and `FilesSteps` unfold them.

* `TypeCorrect`: `Spec => []TypeOK`: ids are given once and references lead to rows. The
  invariant has three parts: `DbInv` of the committed tables, `Remembered` of the lists
  (the id of an entry has been drawn and is of no row with another name), and `ScopeInv`,
  the same of the tables and lists of an open scope. `Leads` is what every method does to
  a scope: it keeps `ScopeInv` and takes no file or measurement away.
* `EachRefersToItsOwn`: `Spec => []RefersToItsOwn`, a part of `DbInv` (`Own`).
* `ImportIsComplete`: `Spec => ImportedCompletely`. The invariant is `Once` besides: no
  measurement of a file has its number twice and no MQ of a measurement its name, quoted or
  not, which UNIQUE alone does not say. Method by method the lemmas say what it has done:
  `ChannelDoes` (by `Listed`, which ties the list that `UpdateMq` fetches to the table: an
  MQ never has fewer samples than its entry), `UpdateMqDoes`, `GroupDoes`, `MeasDoes`,
  `FileDoes`, `DeleteDoes`; and `Touches` says what it has left alone, so that what is done
  for one group or file survives the next.

`DumpRestore_proofs`, for any models, databases, other programs and faults:

* `ReportedDumpsAreComplete`: `Spec => ReportedIsComplete`, which excepts the rows that a failed
  write has lost. The invariant is `DumpInv`: the
  source has the tables that it had at first (`SameTables`: other programs write rows,
  and nobody changes its service tables), a stable row is a row of its table, and as long
  as `DumpDatabase` has noticed no failure, the file of a table has all its stable rows except
  the lost ones, or the table is still to come (`DumpingInv`). That a table comes at all rests on the model that `ReadModel`
  finds: rows decide its title and its units, which may be lost when a SELECT is refused
  (`PartModels`), but never its tables (`SameShape`), so that `AllTables` lists those of
  the database whatever is read. `DbtRowsFacts` says that a file has every row of its table.
* `RowsAreKept`: `Spec => KeepsRows`, and `TypeCorrect`: `Spec => []TypeOK`. No statement
  takes a row away, for every id is a new one (`InsertFacts`, `DoneGrows`), and so does no
  list of statements, wherever it breaks off (`CreatedGrows`, `InsertsGrow`, by induction
  over the list). That it is a list, which ends, rests on the model: `ReadInv` says that
  the files of a dump can be read and that the model of a read-in is sound (`IsSound`: its
  tables hang under one another without a circle, its columns are lists, its enumerations
  finite). `ReadIsSound` shows this for the model of any database, where rows of SVCENT
  whose parents never come are left out (`PlacedIsPlaced`), `SavedIsFile` and `FileIsSound`
  for one that is written to a model file and read from it.
* `RowsAreStoredOnce`: `Spec /\ [][OthersInsertNew]_vars => []StoredOnce` under `DataDiffer`.
  The property asks that the rows of a table of the data (neither the environment nor the
  units) can be told apart, so `DataDiffer` says of the constants that the names of their rows
  have letters and differ, that every table of a dumped database has a name there, that its file is one of its
  own, and that a name means data in every model or in none; `OthersInsertNew` says of other
  programs that what they insert has a name that no row and no dump of its table has. The
  instance of the run satisfies both. The invariant is `OnceInv`: the names differ in both
  databases (`RowsDiffer`) and in each file (`IsFull`, which also ties a file to a table of the
  model file beside it), and while rows are read in, those of every file that is left are new
  to its table (`LeftInv`). This part is what a retry could break. `CheckEmpty` establishes
  it: it counts the rows of every table that has a file, because `AllTables` lists every table
  that has a name (`NamedAreListed`), and goes on only if there are none. It lasts because a
  directory that is read is no longer dumped to (`OldDirsStay`), because two files are never
  of one table, and because `Create`, run again after a failure or by `CreateDb`, inserts only
  into the environment and the units (`InsertsElsewhere`, `CreatedKeepsData`).

* `ReferencesAreKept`: `Spec /\ []NamesDiffer => []ReferencesKept` under `TablesAreTold` (a part
  of `DataDiffer`: every table of a dumped database has a name there and a file of its own) and
  `TablesAreNew` (which says of the constants that every table of a dumped database has one of the
  file names that are read in, and that a table of a target without rows has never had one).
  `NamesDiffer` says that the names in a table of the source differ, whatever other programs insert
  there. The id of a row that is read in is not the one it had but the one that the table
  gives, so the claim is that the two are the same (`InsertsAll`): rows that are inserted into a
  fresh table one after the other, none refused, get the numbers 1, 2, ... None is refused, because
  references are not checked while rows are read in and the letters of the rows differ. The
  invariant is `RefsInv`. Its part `KeptInv` says of each counted file that it is unread and its
  table fresh (`IsUnread`), or that it has been read in with its places as ids (`IsReadIn`). `CheckEmpty` establishes it, since all files
  are still to be read (`AllLeftInv`) and a table that it finds empty is fresh (`IsFresh`, kept by
  every insert). It outlives the read-in because other programs add rows behind those there
  are, and because the files that have been read are not dumped to again (`AnsweredInv`).

`ModelTables_proofs`, for any tables that hang under one another without a circle (`IsTree`,
which gives each table a rank above that of the table it hangs under):

* `AllTablesListsEach`: `AllTables` ends and lists every table that it has walked to, each
  once, whatever the tables refer to (`IsListing(AllTables(T), Listed(T))`). `WalkLists`
  orders the tables by their paths, with `BeforeTotal` and `EachPlaceIsTaken`; `PassKeeps` says
  that a pass moves tables from one list to the other and loses none, and the last round of
  the loop adds those of a circle of references.
* `AllTablesInOrder`: in that list a table stands before the tables that refer to it unless it
  is `HeldBack`. `PassOrders` says that what a pass takes fits behind what was taken before
  (`Fits`); `PassesOrder` that after as many passes as there are tables nothing can be taken any
  more (`Stuck`), so that whoever is left waits for somebody who is left. `WaitingIsHeldBack`
  follows such a chain of waiting tables: it is finite and comes back to itself, and
  `ReachedIsClosed` and `ReachedIsLeast` say that `Reached` has computed all of it.
* The lemmas on which the next module rests: `NextIdIsFree` (`FindNextTableId` answers with an
  id that is positive and free as long as there are less than 999 tables), `AddOneIsEdited`,
  `DeletedIsEdited`, `AddTableIsPasted`, `FileIsRead` and `SavedIsFile` (what the operations make
  of a model of numbered tables).

`ModelEditor_proofs`, for any dialogs, ATFX files, clipboards, files and bounds:

* `TypeCorrect`: `Spec => []TypeOK`. Nothing in the property is inductive by itself: a step
  that deletes a table must take away all the tables under it, and a paste or an import must
  find free ids. The invariant is `EditInv`: the model, the model last saved and the clipboard
  are trees of numbered tables (`IsEdited`: no circle of places, columns in a list, references
  and parents that are numbers), and no more of them than there are ids (`WithinIds`); the file,
  its backup and what `DoOpenDocument` would read are lists of such tables (`FileInv`).
  `EditInductive` has one step per handler. The imports take the longest way: `ElementSteps`,
  `FixSteps` and `ImportAppModelKeeps` go through both rounds of `AtfxFile` for any file, with
  elements that refer to later ones or to none. Handlers that work on several columns rest on
  `LeftAreColumns`, `UpAreColumns` and `DownAreColumns`.
* `DependenceOrderHolds`: `Spec => []DependenceOrder`, from `EditInv` and the two theorems above.
* `RoundTripHolds`: `Spec => []RoundTrip`. A model of `EditInv` is saved as a list in which ids
  stand once, so `ReadModel` never has to give a table another id (`ReadBack`, `IsReadBack`): it
  finds each under its own. Under its parent it is found when the parent comes first, which is
  what `AllTablesInOrder` says of a parent that the table refers to.
* `PasteAddsACopy`: `Spec => PasteIsCopy`. `AddTableIsPasted` is the induction over the walk of
  the copied tree: ids that have been given so far are free ones and different ones, and each
  table is a copy under the copy of its parent (`PastedAs`). The places of the walk are in the
  order of the paths, so that the parent has always been copied before (`WalkIsDown`).
* `LastSaveIsOnDisk`: `Spec => []LastSaveOnDisk`. The property alone is not inductive: a
  failed save moves whatever is the file to the backup. `DiskInv` says which of the two
  counts: the file if there is one, the backup otherwise.

The assumptions are `DepthAssumption`, `InserterAssumption`, `TestDirectoryAssumption`,
`MeasAssumption`, `AtfxAssumption` (all on the types of the constants), `EditorAssumption`
(the file that is opened, the imported database and the clipboard hold trees of numbered tables,
within `MaxTables`) and `DumpAssumption` (a database holds rows under ids that it has
handed out, the service tables of one that is dumped list its tables, as `Create`
has written them, and the tables of a model that a database is created from hang under one
another), which TLC evaluates in the runs, and the hypotheses `SerialKept`,
`DataDiffer`, `TablesAreTold`, `TablesAreNew`, `NamesDiffer`, `OthersInsertNew` and `"commit" \notin Faults` where they are stated.

Only model-checked: liveness (`ScopeEnds`, `StopEnds`, `Recovers`, `MessagesAreTaken`,
`EditIsNoticed`), which is out of the prover's reach; of `ModelEditor`, `ImportedAsWritten`,
which compares the result of the import with the file relation by relation, where a name may
stand for one of several tables; and of `DumpRestore`
`CreatedIsRead`, which follows single columns through a whole `Create` and back.

## 5. Not modelled

* `SqliteDatabase::OpenEx` works on a file that nobody else has open. `Vacuum` is
  reached only by the trim of the event log, which never happens: nothing counts
  `nof_messages_` up and `GetNofMessages` is never called.
* The conversion of values in `Insert` and `Update`, except for the quotes of
  texts; letter case of names; more than one parameter or structured data
  element per message; `LastMessage` and `GetNofMessages`.
* Ids that a failed statement draws from a PostgreSQL serial: skipping ids
  changes nothing that the properties tell apart.
* `CreateDb`, `InitDb` and the reading of the model are one outcome of
  `InitEnvironment` in the worker modules; a call of `TestDirectory::Init` while the
  worker runs; its exclude list.
* Spurious wakeups: `wait_for` looks at the flag again and goes on waiting.
* SQLite in WAL mode, which the library never selects.
* After a `BEGIN` of `Create` that fails on PostgreSQL the connection stays open; what a
  later call on the same object makes of it.
* `IDatabase::ExportCsv`, `InsertDumpRow` and `IEnvironment::DumpDb` (nobody calls them),
  and the fetches that only read.
* A write that fails while `SaveModel` writes the model file of a dump (the XML writer is external).
* The enterprise of a data element in the event log, and the half-created database file that an
  `InitEnvironment` with a fault may leave: the next one answers true without opening it.
* In the configurator: layout, the default columns that the table dialog adds (except the
  parent), databases created from its menu (`Create` is in `DumpRestore`). Its menu for
  PostgreSQL imports is a copy of the one for SQLite and opens an SQLite file.
* The XML and ATFX parsers, which are external.
* Items, attributes, filters and helpers: conversions without state. The Report Explorer
  and the global name tool: views that read through guards, whose scopes are those of
  `SqliteDatabase`, and a list of names.

## 6. Plan

In the order of what matters most:

1. Proofs of `CreatedIsRead` in `DumpRestore`, and of `ImportedAsWritten`.
2. `PostgresDb` as a refinement of `TransactionStore` of its own, with the connection that a
   failed BEGIN leaves open.
3. A composition: the worker and the views of the Report Explorer on one file.
4. `sqlfilter.cpp` against a reference definition of its conditions.
