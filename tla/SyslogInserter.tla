--------------------------- MODULE SyslogInserter ---------------------------
(***************************************************************************)
(* SyslogInserter (src/src/sysloginserter.cpp): a workflow task that       *)
(* stores lists of syslog messages in an event log database.  One call of  *)
(* Tick or AddOneMessage is one database transaction (SqliteDatabase.tla,  *)
(* TransactionStore.tla); inside it each message runs a fixed chain of     *)
(* statements, one action each, and any of them may throw.  The host,      *)
(* application and identity caches live in the task object, outside of the *)
(* transaction.                                                            *)
(*                                                                         *)
(* The operators Mut... are the forms a slip in the code would give to the *)
(* definition below them; no behaviour of this module uses them.           *)
(*                                                                         *)
(* Two databases are modelled, by what their Insert leaves behind.         *)
(* SqliteDatabase::Insert binds a text with the quotes it was printed      *)
(* with, so that Exists never finds a name that Insert has stored, and a   *)
(* rolled back transaction gives its ids back (AUTOINCREMENT).  PostgresDb *)
(* uses IDatabase::Insert: texts are kept, serial ids are never given      *)
(* back, and LOWER() of the integer parent column is an error.             *)
(***************************************************************************)
EXTENDS Naturals, Sequences, FiniteSets

CONSTANTS
  Backend,    \* "sqlite" or "postgres"
  Name,       \* names, up to letter case: names are unique without case
  Message,    \* the messages that arrive
  Faults,     \* what may fail for reasons of its own, see FaultKinds
  MaxBatch,   \* bound: messages in one syslog list
  MaxId,      \* bound: ids drawn from one serial
  MaxLog      \* bound: stored messages

RefTable == {"Hostname", "Application", "SdIdent"}
RowRef == {"Hostname", "Application"}    \* the references of a Syslog row

FaultKinds == {"open", "model", "statement", "commit"}

\* A message names a host, an application and a structured data identity, or
\* leaves them empty; key: the identity comes with a parameter.
MessageType == [name : [RefTable -> Name \cup {""}], key : BOOLEAN]

ASSUME InserterAssumption ==
  /\ Backend \in {"sqlite", "postgres"}
  /\ "" \notin Name
  /\ Message \subseteq MessageType
  /\ Faults \subseteq FaultKinds
  /\ MaxBatch \in Nat \ {0} /\ MaxId \in Nat /\ MaxLog \in Nat

TextKept == Backend = "postgres"     \* a stored name is found again
SerialKept == Backend = "postgres"   \* a rollback does not give ids back

VARIABLES
  stored,    \* the committed tables
  tables,    \* the tables as the open transaction has made them
  serial,    \* the last id drawn for each table
  cache,     \* host_cache_, app_cache_, identity_cache_: name -> id
  model,     \* model_ has been read, it is empty otherwise
  op,        \* the call: Init, Tick or AddOneMessage
  list,      \* the messages of the call
  pos,       \* the message of the list being inserted
  pc,        \* the statement it has come to
  ref,       \* the ids found for its names, 0 for an empty name
  told       \* what the last call said: IsOk(), or AddOneMessage's result

database == <<stored, tables, serial>>
vars == <<stored, tables, serial, cache, model, op, list, pos, pc, ref, told>>

\* name: the Hostname, Application and SdIdent rows, log: the Syslog rows,
\* key: the SdName rows, value: the SdData rows.
NoTables ==
  [name |-> [t \in RefTable |-> {}], log |-> <<>>, key |-> {}, value |-> {}]

NoRef == [t \in RefTable |-> 0]
NoCache == [t \in RefTable |-> [n \in {} |-> 0]]

Ids(t) == {r.id : r \in tables.name[t]}
Msg == list[pos]
Statements == RefTable \cup {"Syslog", "SdName", "SdData"}

Init ==
  /\ stored = NoTables /\ tables = NoTables
  /\ serial = [t \in RefTable \cup {"Syslog"} |-> 0]
  /\ cache = NoCache
  /\ model = FALSE
  /\ op = "Init" /\ list = <<>> /\ pos = 1 /\ pc = "exit" /\ ref = NoRef
  /\ told = FALSE

(***************************************************************************)
(* SyslogInserter::Init, on a new task object or again on the same one     *)
(* after Exit: the model is read or stays as it was, the caches stay.      *)
(***************************************************************************)
InitTask ==
  /\ pc = "exit"
  /\ \E read \in BOOLEAN, fresh \in BOOLEAN :
       /\ ~read => "model" \in Faults
       /\ cache' = IF fresh THEN NoCache ELSE cache
       /\ model' = (read \/ (model /\ ~fresh))
       /\ told' = read
  /\ op' = "Init" /\ pc' = "idle"
  /\ UNCHANGED <<database, list, pos, ref>>

\* What the database keeps of an open transaction when it is rolled back.
RollbackTables ==
  /\ tables' = stored
  /\ serial' = IF SerialKept THEN serial ELSE
       [t \in DOMAIN serial |->
          IF t = "Syslog" THEN Len(stored.log) ELSE Cardinality(stored.name[t])]
  /\ UNCHANGED stored

\* SyslogInserter::Exit drops the database object; the caches stay.
ExitTask ==
  /\ pc = "idle"
  /\ pc' = "exit" /\ op' = "Init"
  /\ UNCHANGED <<database, cache, model, list, pos, ref, told>>

\* The process ends, in the middle of a call perhaps: the database rolls back.
Crash ==
  /\ pc # "exit"
  /\ RollbackTables
  /\ cache' = NoCache /\ model' = FALSE
  /\ pc' = "exit" /\ op' = "Init"
  /\ UNCHANGED <<list, pos, ref, told>>

(***************************************************************************)
(* The beginning of Tick and AddOneMessage: the guard opens the database.  *)
(* With an empty model InsertMessage returns at once, for every message.   *)
(* Tick with an empty list, which changes nothing, is left out.            *)
(***************************************************************************)
Call ==
  /\ pc = "idle"
  /\ op' \in {"Tick", "AddOneMessage"}
  /\ \E n \in 1 .. (IF op' = "Tick" THEN MaxBatch ELSE 1) : list' \in [1 .. n -> Message]
  /\ Len(stored.log) + Len(list') <= MaxLog
  /\ pos' = 1

OpenDatabase ==
  /\ Call
  /\ IF model THEN pc' = "Hostname" /\ UNCHANGED told
              ELSE pc' = "commit" /\ told' = TRUE
  /\ ref' = NoRef
  /\ UNCHANGED <<database, cache, model>>

NoDatabase ==
  /\ "open" \in Faults
  /\ Call
  /\ told' = FALSE
  /\ UNCHANGED <<database, cache, model, pc, ref>>

(***************************************************************************)
(* The statements the database refuses.                                    *)
(***************************************************************************)
Cached(t) == Msg.name[t] \in DOMAIN cache[t]
Known(t) == {r \in tables.name[t] : r.name = Msg.name[t]}
MutFoundAny(t) == Ids(t)

Found(t) == IF TextKept THEN {r.id : r \in Known(t)} ELSE {}   \* IDatabase::Exists

\* The tables are created without foreign keys, or without UNIQUE names.
MutNoForeignKeys ==
  pc \in RefTable /\ Msg.name[pc] # "" /\ ~Cached(pc) /\ Found(pc) = {} /\ Known(pc) # {}

MutNoUnique ==
  pc = "Syslog" /\ \E t \in RowRef : ref[t] # 0 /\ ref[t] \notin Ids(t)

Refused ==
  CASE pc \in RefTable ->      \* UNIQUE name
         Msg.name[pc] # "" /\ ~Cached(pc) /\ Found(pc) = {} /\ Known(pc) # {}
    [] pc = "Syslog" ->        \* foreign keys to Hostname and Application
         \E t \in RowRef : ref[t] # 0 /\ ref[t] \notin Ids(t)
    [] pc = "SdName" ->        \* LOWER(bigint), UNIQUE(name, parent), foreign key
         \/ Backend = "postgres"
         \/ ref["SdIdent"] \notin Ids("SdIdent")
         \/ [named |-> TRUE, parent |-> ref["SdIdent"]] \in tables.key
    [] pc = "SdData" ->        \* the message id as a parent of SdName
         serial["Syslog"] \notin Ids("SdIdent")
    [] OTHER -> FALSE

(***************************************************************************)
(* InsertHost, InsertApplication, InsertIdentity: the cache, the table, a  *)
(* new row; whatever id is found is cached before the transaction ends.    *)
(***************************************************************************)
Remember(t, id) ==
  cache' = [cache EXCEPT ![t] =
    [n \in DOMAIN @ \cup {Msg.name[t]} |-> IF n = Msg.name[t] THEN id ELSE @[n]]]

Resolved(t, id) ==
  /\ ~Refused
  /\ ref' = [ref EXCEPT ![t] = id]
  /\ UNCHANGED <<stored, model, op, list>>

MutInsertEmptyName(t) ==
  /\ ~Cached(t) /\ Found(t) = {}
  /\ serial[t] < MaxId
  /\ Resolved(t, serial[t] + 1)
  /\ serial' = [serial EXCEPT ![t] = @ + 1]
  /\ tables' = [tables EXCEPT !.name[t] = @ \cup {[id |-> serial[t] + 1, name |-> Msg.name[t]]}]
  /\ Remember(t, serial[t] + 1)

InsertName(t) ==
  /\ Msg.name[t] # "" /\ ~Cached(t) /\ Found(t) = {}
  /\ serial[t] < MaxId
  /\ Resolved(t, serial[t] + 1)
  /\ serial' = [serial EXCEPT ![t] = @ + 1]
  /\ tables' = [tables EXCEPT !.name[t] = @ \cup {[id |-> serial[t] + 1, name |-> Msg.name[t]]}]
  /\ Remember(t, serial[t] + 1)

FindName(t) ==
  /\ Msg.name[t] # "" /\ ~Cached(t)
  /\ \E id \in Found(t) : Resolved(t, id) /\ Remember(t, id)
  /\ UNCHANGED <<tables, serial>>

CachedName(t) ==
  /\ Msg.name[t] # "" /\ Cached(t)
  /\ Resolved(t, cache[t][Msg.name[t]])
  /\ UNCHANGED <<tables, serial, cache>>

EmptyName(t) ==
  /\ Msg.name[t] = ""
  /\ Resolved(t, 0)
  /\ UNCHANGED <<tables, serial, cache>>

Resolve(t) ==
  pc = t /\ (InsertName(t) \/ FindName(t) \/ CachedName(t) \/ EmptyName(t))

\* The next message of the list, or the answer and the end of the scope.
NextMessage ==
  \/ /\ pos < Len(list)
     /\ pos' = pos + 1 /\ pc' = "Hostname" /\ UNCHANGED told
  \/ /\ pos = Len(list)
     /\ pc' = "commit" /\ told' = TRUE /\ UNCHANGED pos

Goto(where) == pc' = where /\ UNCHANGED <<pos, told>>

InsertHost == Resolve("Hostname") /\ Goto("Application")
InsertApplication == Resolve("Application") /\ Goto("Syslog")

InsertRow ==
  /\ pc = "Syslog" /\ ~Refused
  /\ serial["Syslog"] < MaxId
  /\ serial' = [serial EXCEPT !["Syslog"] = @ + 1]
  /\ tables' = [tables EXCEPT !.log =
       Append(@, [id |-> serial["Syslog"] + 1, msg |-> Msg,
                  ref |-> [t \in RowRef |-> ref[t]]])]
  /\ Goto("SdIdent")
  /\ UNCHANGED <<stored, cache, model, op, list, ref>>

InsertIdentity ==
  /\ Resolve("SdIdent")
  /\ IF Msg.key /\ Msg.name["SdIdent"] # "" THEN Goto("SdName") ELSE NextMessage

\* The key of a parameter; Exists has not found it (see Found and Refused).
InsertKey ==
  /\ pc = "SdName" /\ ~Refused
  /\ tables' = [tables EXCEPT !.key = @ \cup {[named |-> TRUE, parent |-> ref["SdIdent"]]}]
  /\ Goto("SdData")
  /\ UNCHANGED <<stored, serial, cache, model, op, list, ref>>

\* The value row goes into the table of the keys: of its columns only the
\* parent is one of that table, and there it means an identity.
InsertValue ==
  /\ pc = "SdData" /\ ~Refused
  /\ tables' = [tables EXCEPT !.key = @ \cup {[named |-> FALSE, parent |-> serial["Syslog"]]}]
  /\ NextMessage
  /\ UNCHANGED <<stored, serial, cache, model, op, list, ref>>

InsertMessage ==
  InsertHost \/ InsertApplication \/ InsertRow \/ InsertIdentity \/ InsertKey \/ InsertValue

(***************************************************************************)
(* The ends of the scope: a statement throws and the guard rolls back, the *)
(* guard commits, or its COMMIT fails, which nobody hears of.              *)
(***************************************************************************)
Rollback ==
  /\ RollbackTables
  /\ pc' = "idle"
  /\ UNCHANGED <<cache, model, op, list, pos, ref>>

\* Without db_lock.Rollback() the guard commits what there is.
MutThrowCommits ==
  /\ pc \in Statements
  /\ Refused \/ "statement" \in Faults
  /\ stored' = tables
  /\ pc' = "idle"
  /\ told' = FALSE
  /\ UNCHANGED <<tables, serial, cache, model, op, list, pos, ref>>

MutThrowTrue ==
  /\ pc \in Statements
  /\ Refused \/ "statement" \in Faults
  /\ Rollback
  /\ told' = TRUE

Throw ==
  /\ pc \in Statements
  /\ Refused \/ "statement" \in Faults
  /\ Rollback
  /\ told' = FALSE

Commit ==
  /\ pc = "commit"
  /\ stored' = tables
  /\ pc' = "idle"
  /\ UNCHANGED <<tables, serial, cache, model, op, list, pos, ref, told>>

CommitFails ==
  /\ pc = "commit" /\ "commit" \in Faults
  /\ Rollback
  /\ UNCHANGED told

Next ==
  \/ InitTask \/ ExitTask \/ Crash
  \/ OpenDatabase \/ NoDatabase
  \/ InsertMessage \/ Throw
  \/ Commit \/ CommitFails

Spec == Init /\ [][Next]_vars

-----------------------------------------------------------------------------
(***************************************************************************)
(* Properties.                                                             *)
(***************************************************************************)
LogRow ==
  [id : Nat, msg : Message, ref : [RowRef -> Nat]]

Tables ==
  [name : [RefTable -> SUBSET [id : Nat, name : Name]], log : Seq(LogRow),
   key : SUBSET [named : BOOLEAN, parent : Nat], value : {{}}]

\* The variables keep their types.
TypeOK ==
  /\ stored \in Tables /\ tables \in Tables
  /\ serial \in [RefTable \cup {"Syslog"} -> Nat]
  /\ DOMAIN cache = RefTable
  /\ \A t \in RefTable : DOMAIN cache[t] \subseteq Name /\ cache[t] \in [DOMAIN cache[t] -> Nat]
  /\ model \in BOOLEAN /\ told \in BOOLEAN
  /\ op \in {"Init", "Tick", "AddOneMessage"}
  /\ list \in Seq(Message) /\ pos \in Nat
  /\ pc \in Statements \cup {"exit", "idle", "commit"}
  /\ ref \in [RefTable -> Nat]

\* A stored message refers to the host and to the application it came from:
\* the ids that the caches hand out belong to the rows of those names, also
\* after rollbacks, failed commits and restarts of the task.
Attribution ==
  \A i \in 1 .. Len(stored.log) : \A t \in RowRef :
    stored.log[i].msg.name[t] # "" =>
      [id |-> stored.log[i].ref[t], name |-> stored.log[i].msg.name[t]] \in stored.name[t]

\* The least the database itself sees to: no stored row refers to nothing.
StoredIds(t) == {r.id : r \in stored.name[t]}

ReferencesExist ==
  /\ \A i \in 1 .. Len(stored.log) : \A t \in RowRef :
       stored.log[i].ref[t] \in StoredIds(t) \cup {0}
  /\ \A k \in stored.key : k.parent \in StoredIds("SdIdent")

\* A host, an application or an identity has one row, and a row an id of its
\* own, however many tasks, restarts and rollbacks there have been: the caches,
\* Exists and UNIQUE together see every row that is there.
UniqueNames ==
  \A t \in RefTable : \A r, s \in tables.name[t] : r.name = s.name \/ r.id = s.id => r = s

\* When Tick leaves IsOk() true, or AddOneMessage returns true, the messages
\* of that call are the last ones of the log.  Two answers are not true, and
\* only they: that of a task without a model, and the one given before a
\* COMMIT that fails.
IsStored(msgs) ==
  LET from == Len(stored.log) - Len(msgs)
  IN  from >= 0 /\ \A i \in 1 .. Len(msgs) : stored.log[from + i].msg = msgs[i]

Answers == pc \in Statements \cup {"commit"} /\ pc' = "idle" /\ told'
CommitLost == pc = "commit" /\ stored' # tables

ReportedIsStored == [][Answers /\ model /\ ~CommitLost => IsStored(list)']_vars

\* InsertIdentity: "Next is to check if the identity already exist in the
\* table": an identity that exists is never inserted again.
IdentityFound == ~(pc = "SdIdent" /\ Refused)

\* A call stores its whole list, in order and behind what is there, or nothing.
Messages(rows) == [i \in DOMAIN rows |-> rows[i].msg]

Log == INSTANCE EventLog WITH
  log <- Messages(stored.log),
  offered <- IF pc \in Statements \cup {"commit"} THEN list ELSE <<>>

LogSpec == Log!Spec
=============================================================================
