----------------------- MODULE SyslogInserter_proofs -----------------------
(***************************************************************************)
(* Theorems of SyslogInserter, for any names, messages, faults and bounds: *)
(* types, attribution and references, then the unique names, and that the  *)
(* message log is an EventLog, whose answers can be believed.              *)
(***************************************************************************)
EXTENDS SyslogInserter, FiniteSetTheorems, SequenceTheorems, TLAPS

Caches == UNION {[S -> Nat] : S \in SUBSET Name}
NameRow == [id : Nat, name : Name]
Serials == RefTable \cup {"Syslog"}

\* A set of tables of the right type, with finitely many rows.
TablesOK(db) == db \in Tables /\ \A t \in RefTable : IsFiniteSet(db.name[t])

DataInv ==
  /\ TablesOK(stored) /\ TablesOK(tables)
  /\ serial \in [Serials -> Nat]
  /\ cache \in [RefTable -> Caches]
  /\ ref \in [RefTable -> Nat]

ControlInv ==
  /\ model \in BOOLEAN /\ told \in BOOLEAN
  /\ op \in {"Init", "Tick", "AddOneMessage"}
  /\ list \in Seq(Message) /\ pos \in Nat
  /\ pc \in Statements \cup {"exit", "idle", "commit"}
  /\ pc \in Statements => pos \in 1 .. Len(list)
  /\ pc \in Statements \cup {"commit"} => Len(list) # 0

TInv == DataInv /\ ControlInv

-----------------------------------------------------------------------------
\* What the statements make of the tables.
LEMMA MessageFacts ==
  ASSUME ControlInv, pc \in Statements
  PROVE  /\ Msg \in Message
         /\ Msg.key \in BOOLEAN
         /\ \A t \in RefTable : Msg.name[t] \in Name \cup {""}
<1>1. Msg \in Message
  BY ElementOfSeq DEF ControlInv, Msg
<1>2. Msg \in MessageType
  BY <1>1, InserterAssumption
<1> QED
  BY <1>1, <1>2 DEF MessageType

LEMMA NoCacheOK == NoCache \in [RefTable -> Caches]
<1>1. [n \in {} |-> 0] \in [{} -> Nat]
  OBVIOUS
<1> QED
  BY <1>1 DEF NoCache, Caches

LEMMA NoTablesOK == TablesOK(NoTables)
<1>1. <<>> \in Seq(LogRow)
  BY EmptySeq
<1>2. [t \in RefTable |-> {}] \in [RefTable -> SUBSET NameRow]
  OBVIOUS
<1>3. NoTables \in Tables
  BY <1>1, <1>2 DEF NoTables, Tables, NameRow
<1> QED
  BY <1>3, FS_EmptySet DEF TablesOK, NoTables

LEMMA AddNameOK ==
  ASSUME TablesOK(tables), NEW t \in RefTable, NEW row \in NameRow,
         tables' = [tables EXCEPT !.name[t] = @ \cup {row}]
  PROVE  /\ TablesOK(tables')
         /\ tables'.name = [tables.name EXCEPT ![t] = @ \cup {row}]
         /\ tables'.log = tables.log /\ tables'.key = tables.key
<1>1. /\ tables.name \in [RefTable -> SUBSET NameRow]
      /\ tables.log \in Seq(LogRow)
      /\ tables.key \in SUBSET [named : BOOLEAN, parent : Nat]
      /\ tables.value \in {{}}
  BY DEF TablesOK, Tables, NameRow
<1>2. tables' = [name |-> [tables.name EXCEPT ![t] = @ \cup {row}], log |-> tables.log,
                 key |-> tables.key, value |-> tables.value]
  BY DEF TablesOK, Tables
<1>3. [tables.name EXCEPT ![t] = @ \cup {row}] \in [RefTable -> SUBSET NameRow]
  BY <1>1
<1>4. tables' \in Tables
  BY <1>1, <1>2, <1>3 DEF Tables, NameRow
<1>5. IsFiniteSet(tables.name[t] \cup {row})
  BY FS_AddElement DEF TablesOK
<1>6. \A u \in RefTable : IsFiniteSet(tables'.name[u])
  BY <1>1, <1>2, <1>5 DEF TablesOK
<1> QED
  BY <1>2, <1>4, <1>6 DEF TablesOK

LEMMA AddRowOK ==
  ASSUME TablesOK(tables), NEW row \in LogRow,
         tables' = [tables EXCEPT !.log = Append(@, row)]
  PROVE  /\ TablesOK(tables')
         /\ tables'.name = tables.name
         /\ tables'.log = Append(tables.log, row)
         /\ tables'.key = tables.key
<1>1. /\ tables.log \in Seq(LogRow)
      /\ tables' = [name |-> tables.name, log |-> Append(tables.log, row),
                    key |-> tables.key, value |-> tables.value]
  BY DEF TablesOK, Tables
<1>2. Append(tables.log, row) \in Seq(LogRow)
  BY <1>1, AppendProperties
<1> QED
  BY <1>1, <1>2 DEF TablesOK, Tables

LEMMA AddKeyOK ==
  ASSUME TablesOK(tables), NEW k \in [named : BOOLEAN, parent : Nat],
         tables' = [tables EXCEPT !.key = @ \cup {k}]
  PROVE  /\ TablesOK(tables')
         /\ tables'.name = tables.name
         /\ tables'.log = tables.log
         /\ tables'.key = tables.key \cup {k}
<1>1. tables' = [name |-> tables.name, log |-> tables.log,
                 key |-> tables.key \cup {k}, value |-> tables.value]
  BY DEF TablesOK, Tables
<1>2. tables.key \cup {k} \in SUBSET [named : BOOLEAN, parent : Nat]
  BY DEF TablesOK, Tables
<1> QED
  BY <1>1, <1>2 DEF TablesOK, Tables

LEMMA RememberOK ==
  ASSUME cache \in [RefTable -> Caches], NEW t \in RefTable, NEW id \in Nat,
         Msg.name[t] \in Name, Remember(t, id)
  PROVE  /\ cache' \in [RefTable -> Caches]
         /\ \A u \in RefTable : u # t => cache'[u] = cache[u]
         /\ DOMAIN cache'[t] = DOMAIN cache[t] \cup {Msg.name[t]}
         /\ \A n \in DOMAIN cache'[t] :
              cache'[t][n] = IF n = Msg.name[t] THEN id ELSE cache[t][n]
<1> DEFINE D == DOMAIN cache[t] \cup {Msg.name[t]}
           c == [n \in D |-> IF n = Msg.name[t] THEN id ELSE cache[t][n]]
<1>1. PICK S \in SUBSET Name : cache[t] \in [S -> Nat]
  BY DEF Caches
<1>2. D \in SUBSET Name /\ c \in [D -> Nat]
  BY <1>1
<1>3. c \in Caches
  BY <1>2 DEF Caches
<1>4. cache' = [cache EXCEPT ![t] = c]
  BY DEF Remember
<1> HIDE DEF c
<1>5. cache' \in [RefTable -> Caches] /\ cache'[t] = c
  BY <1>3, <1>4
<1> QED
  BY <1>4, <1>5 DEF c

LEMMA RollbackOK ==
  ASSUME DataInv, RollbackTables
  PROVE  /\ tables' = stored /\ stored' = stored
         /\ serial' \in [Serials -> Nat]
         /\ SerialKept => serial' = serial
<1>1. Len(stored.log) \in Nat
  BY LenProperties DEF DataInv, TablesOK, Tables
<1>2. \A t \in RefTable : Cardinality(stored.name[t]) \in Nat
  BY FS_CardinalityType DEF DataInv, TablesOK
<1> QED
  BY <1>1, <1>2 DEF RollbackTables, DataInv, Serials

-----------------------------------------------------------------------------
(***************************************************************************)
(* The types.                                                              *)
(***************************************************************************)
LEMMA ResolveTypes ==
  ASSUME TInv, NEW t \in RefTable, Resolve(t)
  PROVE  DataInv' /\ UNCHANGED <<model, op, list>>
<1>1. pc = t /\ pc \in Statements
  BY DEF Resolve, Statements
<1>2. Msg.name[t] # "" => Msg.name[t] \in Name
  BY <1>1, MessageFacts DEF TInv
<1>3. ASSUME NEW id \in Nat, Resolved(t, id)
      PROVE  ref' \in [RefTable -> Nat] /\ stored' = stored /\ UNCHANGED <<model, op, list>>
  BY <1>3 DEF Resolved, TInv, DataInv
<1>4. CASE InsertName(t)
  <2>1. serial[t] + 1 \in Nat /\ serial' \in [Serials -> Nat]
    <3>1. serial \in [Serials -> Nat] /\ t \in Serials
      BY DEF TInv, DataInv, Serials
    <3>2. serial' = [serial EXCEPT ![t] = @ + 1]
      BY <1>4 DEF InsertName
    <3> QED
      BY <3>1, <3>2
  <2>2. [id |-> serial[t] + 1, name |-> Msg.name[t]] \in NameRow
    BY <1>2, <1>4, <2>1 DEF InsertName, NameRow
  <2>3. TablesOK(tables')
    BY <1>4, <2>2, AddNameOK DEF InsertName, TInv, DataInv
  <2>4. cache' \in [RefTable -> Caches]
    BY <1>2, <1>4, <2>1, RememberOK DEF InsertName, TInv, DataInv
  <2> QED
    BY <1>3, <1>4, <2>1, <2>3, <2>4 DEF InsertName, TInv, DataInv
<1>5. CASE FindName(t)
  <2>1. PICK id \in Found(t) : Resolved(t, id) /\ Remember(t, id)
    BY <1>5 DEF FindName
  <2>2. id \in Nat
    BY DEF Found, Known, TInv, DataInv, TablesOK, Tables
  <2>3. cache' \in [RefTable -> Caches]
    BY <1>2, <1>5, <2>1, <2>2, RememberOK DEF FindName, TInv, DataInv
  <2> QED
    BY <1>3, <1>5, <2>1, <2>2, <2>3 DEF FindName, TInv, DataInv
<1>6. CASE CachedName(t)
  <2>1. PICK S \in SUBSET Name : cache[t] \in [S -> Nat]
    BY DEF TInv, DataInv, Caches
  <2>2. cache[t][Msg.name[t]] \in Nat
    BY <1>6, <2>1 DEF CachedName, Cached
  <2> QED
    BY <1>3, <1>6, <2>2 DEF CachedName, TInv, DataInv
<1>7. CASE EmptyName(t)
  BY <1>3, <1>7 DEF EmptyName, TInv, DataInv
<1> QED
  BY <1>4, <1>5, <1>6, <1>7 DEF Resolve

LEMMA NextMessageTypes ==
  ASSUME ControlInv, pc \in Statements, NextMessage, UNCHANGED <<model, op, list>>
  PROVE  ControlInv'
<1>1. pos \in Nat /\ Len(list) \in Nat /\ Len(list) # 0
  BY LenProperties DEF ControlInv
<1>2. CASE pos < Len(list)
  <2>1. pos' = pos + 1 /\ pc' = "Hostname" /\ told' = told
    BY <1>1, <1>2 DEF NextMessage
  <2>2. pos' \in 1 .. Len(list)
    BY <1>1, <1>2, <2>1
  <2> QED
    BY <1>1, <2>1, <2>2 DEF ControlInv, Statements, RefTable
<1>3. CASE ~(pos < Len(list))
  <2>1. pos' = pos /\ pc' = "commit" /\ told' = TRUE
    BY <1>3 DEF NextMessage
  <2> QED
    BY <1>1, <2>1 DEF ControlInv, Statements, RefTable
<1> QED
  BY <1>2, <1>3

LEMMA GotoTypes ==
  ASSUME ControlInv, pc \in Statements, NEW where \in Statements, Goto(where),
         UNCHANGED <<model, op, list>>
  PROVE  ControlInv'
BY DEF Goto, ControlInv

LEMMA InsertMessageTypes ==
  ASSUME TInv, InsertMessage
  PROVE  TInv' /\ UNCHANGED <<model, op, list>> /\ stored' = stored
<1>0. {"Hostname", "Application", "SdIdent", "Syslog", "SdName", "SdData"} = Statements
  BY DEF Statements, RefTable
<1>1. CASE InsertHost
  BY <1>0, <1>1, ResolveTypes, GotoTypes
     DEF InsertHost, Resolve, InsertName, FindName, CachedName, EmptyName, Resolved, TInv, RefTable
<1>2. CASE InsertApplication
  BY <1>0, <1>2, ResolveTypes, GotoTypes
     DEF InsertApplication, Resolve, InsertName, FindName, CachedName, EmptyName, Resolved, TInv, RefTable
<1>3. CASE InsertRow
  <2> DEFINE row == [id |-> serial["Syslog"] + 1, msg |-> Msg, ref |-> [t \in RowRef |-> ref[t]]]
  <2>1. serial["Syslog"] + 1 \in Nat /\ serial' \in [Serials -> Nat]
    BY <1>3 DEF InsertRow, TInv, DataInv, Serials
  <2>2. [t \in RowRef |-> ref[t]] \in [RowRef -> Nat]
    BY DEF RowRef, RefTable, TInv, DataInv
  <2>3. row \in LogRow
    BY <1>0, <1>3, <2>1, <2>2, MessageFacts DEF InsertRow, TInv, LogRow
  <2>4. TablesOK(tables')
    BY <1>3, <2>3, AddRowOK DEF InsertRow, TInv, DataInv
  <2> QED
    BY <1>0, <1>3, <2>1, <2>4, GotoTypes DEF InsertRow, TInv, DataInv
<1>4. CASE InsertIdentity
  BY <1>0, <1>4, ResolveTypes, GotoTypes, NextMessageTypes
     DEF InsertIdentity, Resolve, InsertName, FindName, CachedName, EmptyName, Resolved, TInv, RefTable
<1>5. CASE InsertKey
  <2>1. [named |-> TRUE, parent |-> ref["SdIdent"]] \in [named : BOOLEAN, parent : Nat]
    BY DEF RefTable, TInv, DataInv
  <2>2. TablesOK(tables')
    BY <1>5, <2>1, AddKeyOK DEF InsertKey, TInv, DataInv
  <2> QED
    BY <1>0, <1>5, <2>2, GotoTypes DEF InsertKey, TInv, DataInv
<1>6. CASE InsertValue
  <2>1. [named |-> FALSE, parent |-> serial["Syslog"]] \in [named : BOOLEAN, parent : Nat]
    BY DEF Serials, TInv, DataInv
  <2>2. TablesOK(tables')
    BY <1>6, <2>1, AddKeyOK DEF InsertValue, TInv, DataInv
  <2> QED
    BY <1>0, <1>6, <2>2, NextMessageTypes DEF InsertValue, TInv, DataInv
<1> QED
  BY <1>1, <1>2, <1>3, <1>4, <1>5, <1>6 DEF InsertMessage

LEMMA CallTypes ==
  ASSUME Call
  PROVE  /\ op' \in {"Tick", "AddOneMessage"}
         /\ list' \in Seq(Message) /\ Len(list') \in Nat /\ Len(list') # 0
         /\ pos' = 1 /\ pos' \in 1 .. Len(list')
<1>1. PICK n \in 1 .. (IF op' = "Tick" THEN MaxBatch ELSE 1) : list' \in [1 .. n -> Message]
  BY DEF Call
<1>2. n \in Nat /\ n >= 1
  <2>1. CASE op' = "Tick"
    <3>1. MaxBatch \in Nat
      BY InserterAssumption
    <3>2. n \in 1 .. MaxBatch
      BY <1>1, <2>1
    <3> QED
      BY <3>1, <3>2
  <2>2. CASE op' # "Tick"
    BY <1>1, <2>2
  <2> QED
    BY <2>1, <2>2
<1>3. list' \in Seq(Message)
  BY <1>1, <1>2, SeqDef
<1>4. Len(list') = n
  BY <1>1, <1>2, <1>3, LenProperties
<1> QED
  BY <1>2, <1>3, <1>4 DEF Call

LEMMA TypesInductive == TInv /\ [Next]_vars => TInv'
<1> SUFFICES ASSUME TInv, [Next]_vars
             PROVE  TInv'
  OBVIOUS
<1>1. CASE UNCHANGED vars
  BY <1>1 DEF vars, database, TInv, DataInv, ControlInv, TablesOK
<1>2. CASE InitTask
  <2>2. DataInv'
    BY <1>2, NoCacheOK DEF InitTask, database, TInv, DataInv, TablesOK
  <2>3. ControlInv'
    BY <1>2 DEF InitTask, TInv, ControlInv, Statements, RefTable
  <2> QED
    BY <2>2, <2>3 DEF TInv
<1>3. CASE ExitTask \/ Crash
  <2>1. CASE ExitTask
    BY <2>1 DEF ExitTask, TInv, DataInv, ControlInv, Statements, RefTable, database
  <2>2. CASE Crash
    <3>1. ControlInv'
      BY <2>2 DEF Crash, TInv, ControlInv, Statements, RefTable
    <3>2. DataInv'
      BY <2>2, RollbackOK, NoCacheOK DEF Crash, TInv, DataInv
    <3> QED
      BY <3>1, <3>2 DEF TInv
  <2> QED
    BY <1>3, <2>1, <2>2
<1>4. CASE OpenDatabase \/ NoDatabase
  <2>1. ControlInv'
    <3>1. Call /\ model' = model
      BY <1>4 DEF OpenDatabase, NoDatabase
    <3>2. pc' \in {"Hostname", "commit"} \/ (pc' = pc /\ pc = "idle")
      BY <1>4 DEF OpenDatabase, NoDatabase, Call
    <3>3. told' \in BOOLEAN
      BY <1>4 DEF OpenDatabase, NoDatabase, TInv, ControlInv
    <3> QED
      BY <3>1, <3>2, <3>3, CallTypes DEF TInv, ControlInv, Statements, RefTable
  <2>2. DataInv'
    BY <1>4 DEF OpenDatabase, NoDatabase, database, NoRef, TInv, DataInv, TablesOK
  <2> QED
    BY <2>1, <2>2 DEF TInv
<1>5. CASE InsertMessage
  BY <1>5, InsertMessageTypes
<1>6. CASE Throw
  BY <1>6, RollbackOK DEF Throw, Rollback, TInv, DataInv, ControlInv, Statements, RefTable
<1>7. CASE Commit
  BY <1>7 DEF Commit, TInv, DataInv, ControlInv, TablesOK, Statements, RefTable
<1>8. CASE CommitFails
  BY <1>8, RollbackOK DEF CommitFails, Rollback, TInv, DataInv, ControlInv, Statements, RefTable
<1> QED
  BY <1>1, <1>2, <1>3, <1>4, <1>5, <1>6, <1>7, <1>8 DEF Next

LEMMA TypesInitial == Init => TInv
<1> SUFFICES ASSUME Init
             PROVE  TInv
  OBVIOUS
<1>2. list \in Seq(Message)
  BY EmptySeq DEF Init
<1>3. DataInv
  BY NoCacheOK, NoTablesOK DEF Init, DataInv, NoRef, Serials
<1>4. ControlInv
  BY <1>2 DEF Init, ControlInv, Statements, RefTable
<1> QED
  BY <1>3, <1>4 DEF TInv

LEMMA TypesInvariant == Spec => []TInv
BY TypesInitial, TypesInductive, PTL DEF Spec

\* The variables of the inserter and of its database keep their types.
THEOREM TypeCorrect == Spec => []TypeOK
<1>1. TInv => TypeOK
  <2> SUFFICES ASSUME TInv
               PROVE  TypeOK
    OBVIOUS
  <2>1. ASSUME NEW t \in RefTable
        PROVE  DOMAIN cache[t] \subseteq Name /\ cache[t] \in [DOMAIN cache[t] -> Nat]
    <3>1. PICK S \in SUBSET Name : cache[t] \in [S -> Nat]
      BY DEF TInv, DataInv, Caches
    <3> QED
      BY <3>1
  <2>2. DOMAIN cache = RefTable
    BY DEF TInv, DataInv
  <2> QED
    BY <2>1, <2>2 DEF TInv, DataInv, ControlInv, TablesOK, TypeOK, Serials
<1> QED
  BY <1>1, TypesInvariant, PTL

-----------------------------------------------------------------------------
(***************************************************************************)
(* Attribution, on a database that keeps serial ids.  The caches outlive a *)
(* rollback, so an id in a cache may belong to no row; but no later row    *)
(* gets that id, and an id that does belong to a row belongs to the row of *)
(* the cached name.  The foreign keys see to the rest.                     *)
(***************************************************************************)
\* If the id belongs to a row of t at all, it is the row of name n.
Fits(t, id, n) ==
  id \in 1 .. serial[t] /\ \A r \in tables.name[t] : r.id = id => r.name = n

IdInv ==
  \A t \in RefTable :
    /\ stored.name[t] \subseteq tables.name[t]
    /\ \A r \in tables.name[t] : r.id \in 1 .. serial[t]
    /\ \A r, q \in tables.name[t] : r.id = q.id => r = q

CacheInv == \A t \in RefTable : \A n \in DOMAIN cache[t] : Fits(t, cache[t][n], n)

RefFits(t, n) == IF n = "" THEN ref[t] = 0 ELSE Fits(t, ref[t], n)

RefInv ==
  /\ pc \in {"Application", "Syslog"} => RefFits("Hostname", Msg.name["Hostname"])
  /\ pc = "Syslog" => RefFits("Application", Msg.name["Application"])

Attributed(rows, names) ==
  \A i \in 1 .. Len(rows) : \A t \in RowRef :
    rows[i].msg.name[t] # "" =>
      [id |-> rows[i].ref[t], name |-> rows[i].msg.name[t]] \in names[t]

LogInv == Attributed(stored.log, stored.name) /\ Attributed(tables.log, tables.name)

AInv == IdInv /\ CacheInv /\ RefInv /\ LogInv

LEMMA AttributedGrows ==
  ASSUME NEW rows, NEW names, NEW more, Attributed(rows, names),
         \A t \in RowRef : names[t] \subseteq more[t]
  PROVE  Attributed(rows, more)
BY DEF Attributed

\* The look-ups and the insertion of a name: everything about the table and its
\* cache still fits, and the id found fits the name of the message.
LEMMA ResolveFits ==
  ASSUME TInv, AInv, NEW t \in RefTable, Resolve(t), NEW n, n = Msg.name[t]
  PROVE  /\ IdInv' /\ CacheInv' /\ LogInv' /\ RefFits(t, n)'
         /\ \A u \in RefTable : u # t => /\ ref'[u] = ref[u] /\ serial'[u] = serial[u]
                                       /\ tables'.name[u] = tables.name[u]
<1>0. pc = t /\ pc \in Statements
  BY DEF Resolve, Statements
<1>1. n # "" => n \in Name
  BY <1>0, MessageFacts DEF TInv
<1>2. ASSUME NEW id, Resolved(t, id)
      PROVE  /\ ref'[t] = id /\ stored' = stored
             /\ \A u \in RefTable : u # t => ref'[u] = ref[u]
  BY <1>2 DEF Resolved, TInv, DataInv
<1>3. ASSUME UNCHANGED <<tables, serial, stored>>
      PROVE  /\ IdInv' /\ LogInv'
             /\ \A u \in RefTable : \A id, m : Fits(u, id, m) <=> Fits(u, id, m)'
  BY <1>3 DEF AInv, IdInv, LogInv, Fits
<1>4. CASE InsertName(t)
  <2>0. serial[t] \in Nat /\ serial \in [Serials -> Nat] /\ t \in Serials
    BY DEF TInv, DataInv, Serials
  <2>2. PICK new \in Nat : new = serial[t] + 1
    BY <2>0
  <2> DEFINE row == [id |-> new, name |-> n]
  <2>1. /\ Resolved(t, new) /\ Remember(t, new) /\ n # ""
        /\ serial' = [serial EXCEPT ![t] = @ + 1]
        /\ tables' = [tables EXCEPT !.name[t] = @ \cup {row}]
    BY <1>4, <2>2 DEF InsertName
  <2>3. row \in NameRow
    <3>1. n \in Name
      BY <1>1, <2>1
    <3> QED
      BY <3>1 DEF NameRow
  <2>4. /\ tables'.name = [tables.name EXCEPT ![t] = @ \cup {row}]
        /\ tables'.log = tables.log
    BY <2>1, <2>3, AddNameOK DEF TInv, DataInv
  <2>5. tables.name \in [RefTable -> SUBSET NameRow]
    BY DEF TInv, DataInv, TablesOK, Tables, NameRow
  <2>6. /\ tables'.name[t] = tables.name[t] \cup {row}
        /\ \A u \in RefTable : u # t => tables'.name[u] = tables.name[u]
    BY <2>4, <2>5
  <2>7. serial'[t] = new /\ \A u \in RefTable : u # t => serial'[u] = serial[u]
    BY <2>0, <2>1, <2>2 DEF TInv, DataInv, Serials
  <2>8. stored' = stored /\ ref'[t] = new /\ \A u \in RefTable : u # t => ref'[u] = ref[u]
    BY <1>2, <2>1
  <2>9. \A r \in tables.name[t] : r.id \in 1 .. serial[t]
    BY DEF AInv, IdInv
  <2>10. IdInv'
    <3> SUFFICES ASSUME NEW u \in RefTable
                 PROVE  /\ stored'.name[u] \subseteq tables'.name[u]
                        /\ \A r \in tables'.name[u] : r.id \in 1 .. serial'[u]
                        /\ \A r, q \in tables'.name[u] : r.id = q.id => r = q
      BY DEF IdInv
    <3>1. CASE u # t
      BY <2>6, <2>7, <2>8, <3>1 DEF AInv, IdInv
    <3>2. CASE u = t
      BY <2>0, <2>2, <2>6, <2>7, <2>8, <2>9, <3>2 DEF AInv, IdInv
    <3> QED
      BY <3>1, <3>2
  <2>12. Fits(t, new, n)'
    <3>1. \A r \in tables.name[t] : r.id # new
      BY <2>0, <2>2, <2>9
    <3>2. new \in 1 .. new
      BY <2>0, <2>2
    <3> QED
      BY <2>6, <2>7, <3>1, <3>2 DEF Fits
  <2>13. /\ \A u \in RefTable : u # t => cache'[u] = cache[u]
         /\ DOMAIN cache'[t] = DOMAIN cache[t] \cup {n}
         /\ \A m \in DOMAIN cache'[t] : cache'[t][m] = IF m = n THEN new ELSE cache[t][m]
    <3>1. Msg.name[t] \in Name /\ cache \in [RefTable -> Caches]
      BY <1>1, <2>1 DEF TInv, DataInv
    <3>2. Remember(t, new) /\ new \in Nat
      BY <2>1, <2>2
    <3> QED
      BY <3>1, <3>2, RememberOK
  <2>14. CacheInv'
    <3> SUFFICES ASSUME NEW u \in RefTable, NEW m \in DOMAIN cache'[u]
                 PROVE  Fits(u, cache[u][m], m)'
      BY DEF CacheInv
    <3>1. CASE u # t
      BY <2>6, <2>7, <2>13, <3>1 DEF AInv, CacheInv, Fits
    <3>2. CASE u = t /\ m = n
      BY <2>12, <2>13, <3>2
    <3>3. CASE u = t /\ m # n
      <4>1. Fits(t, cache[t][m], m) /\ cache'[t][m] = cache[t][m]
        BY <2>13, <3>3 DEF AInv, CacheInv
      <4>2. Fits(t, cache[t][m], m)'
        <5> DEFINE id == cache[t][m]
        <5>1. id \in 1 .. serial[t] /\ \A r \in tables.name[t] : r.id = id => r.name = m
          BY <4>1 DEF Fits
        <5>2. id # new /\ id \in 1 .. new
          BY <2>0, <2>2, <5>1
        <5> QED
          BY <2>6, <2>7, <4>1, <5>1, <5>2 DEF Fits
      <4> QED
        BY <3>3, <4>1, <4>2
    <3> QED
      BY <3>1, <3>2, <3>3
  <2>15. LogInv'
    <3>1. \A u \in RowRef : tables.name[u] \subseteq tables'.name[u]
      BY <2>6 DEF RowRef, RefTable
    <3> QED
      BY <2>4, <2>8, <3>1, AttributedGrows DEF AInv, LogInv
  <2>16. RefFits(t, n)'
    BY <2>1, <2>8, <2>12 DEF RefFits
  <2> QED
    BY <2>6, <2>7, <2>8, <2>10, <2>14, <2>15, <2>16
<1>5. CASE FindName(t)
  <2>1. PICK id \in Found(t) : Resolved(t, id) /\ Remember(t, id)
    BY <1>5 DEF FindName
  <2>2. n # "" /\ UNCHANGED <<tables, serial, stored>>
    BY <1>2, <1>5, <2>1 DEF FindName
  <2>3. PICK row \in tables.name[t] : row.name = n /\ row.id = id
    BY <2>1 DEF Found, Known
  <2>4. Fits(t, id, n)
    BY <2>3 DEF AInv, IdInv, Fits
  <2>5. id \in Nat
    BY <2>3 DEF TInv, DataInv, TablesOK, Tables
  <2>6. /\ \A u \in RefTable : u # t => cache'[u] = cache[u]
        /\ DOMAIN cache'[t] = DOMAIN cache[t] \cup {n}
        /\ \A m \in DOMAIN cache'[t] : cache'[t][m] = IF m = n THEN id ELSE cache[t][m]
    <3>1. cache \in [RefTable -> Caches] /\ Msg.name[t] \in Name /\ Remember(t, id)
      BY <1>1, <2>1, <2>2 DEF TInv, DataInv
    <3> QED
      BY <2>5, <3>1, RememberOK
  <2>7. \A u \in RefTable : \A m \in DOMAIN cache'[u] : Fits(u, cache'[u][m], m)
    BY <2>4, <2>6 DEF AInv, CacheInv
  <2>8. CacheInv'
    BY <2>2, <2>7 DEF CacheInv, Fits
  <2>9. RefFits(t, n)'
    BY <1>2, <2>1, <2>2, <2>4 DEF RefFits, Fits
  <2> QED
    BY <1>2, <1>3, <2>1, <2>2, <2>8, <2>9
<1>6. CASE CachedName(t)
  <2>1. /\ n # "" /\ n \in DOMAIN cache[t] /\ Resolved(t, cache[t][n])
        /\ UNCHANGED <<tables, serial, stored, cache>>
    BY <1>2, <1>6 DEF CachedName, Cached
  <2>2. Fits(t, cache[t][n], n)
    BY <2>1 DEF AInv, CacheInv
  <2>3. RefFits(t, n)'
    BY <1>2, <2>1, <2>2 DEF RefFits, Fits
  <2>4. CacheInv'
    BY <2>1 DEF AInv, CacheInv, Fits
  <2> QED
    BY <1>2, <1>3, <2>1, <2>3, <2>4
<1>7. CASE EmptyName(t)
  <2>1. n = "" /\ Resolved(t, 0) /\ UNCHANGED <<tables, serial, stored, cache>>
    BY <1>2, <1>7 DEF EmptyName
  <2>2. CacheInv'
    BY <2>1 DEF AInv, CacheInv, Fits
  <2> QED
    BY <1>2, <1>3, <2>1, <2>2 DEF RefFits
<1> QED
  BY <1>4, <1>5, <1>6, <1>7 DEF Resolve

\* A rollback takes rows away and gives no id back.
LEMMA RollbackFits ==
  ASSUME SerialKept, TInv, AInv, RollbackTables, cache' = cache \/ cache' = NoCache
  PROVE  IdInv' /\ CacheInv' /\ LogInv'
<1>1. tables' = stored /\ stored' = stored /\ serial' = serial
  BY RollbackOK DEF TInv
<1>2. IdInv'
  BY <1>1 DEF AInv, IdInv
<1>3. CacheInv'
  <2>1. CASE cache' = cache
    BY <1>1, <2>1 DEF AInv, IdInv, CacheInv, Fits
  <2>2. CASE cache' = NoCache
    BY <2>2 DEF CacheInv, NoCache
  <2> QED
    BY <2>1, <2>2
<1> QED
  BY <1>1, <1>2, <1>3 DEF AInv, LogInv

LEMMA BeforeLast ==
  \A n \in Nat : \A i \in 1 .. n + 1 : i # n + 1 => i \in 1 .. n
OBVIOUS

\* The row of a message: the foreign keys turn "fits" into "is the row of".
LEMMA RowFits ==
  ASSUME TInv, AInv, InsertRow
  PROVE  AInv'
<1> DEFINE row == [id |-> serial["Syslog"] + 1, msg |-> Msg, ref |-> [t \in RowRef |-> ref[t]]]
<1>1. pc = "Syslog" /\ pc \in Statements /\ ~Refused
  BY DEF InsertRow, Statements
<1>2. serial["Syslog"] + 1 \in Nat
  BY DEF TInv, DataInv, Serials
<1>3. row \in LogRow
  BY <1>1, <1>2, MessageFacts DEF TInv, DataInv, LogRow, RowRef, RefTable
<1>4. tables'.name = tables.name /\ tables'.log = Append(tables.log, row) /\ stored' = stored
  BY <1>3, AddRowOK DEF InsertRow, TInv, DataInv
<1>5. \A t \in RefTable : serial'[t] = serial[t]
  BY DEF InsertRow, TInv, DataInv, Serials, RefTable
<1>6. cache' = cache /\ pc' = "SdIdent"
  BY DEF InsertRow, Goto
<1>7. ASSUME NEW t \in RowRef, row.msg.name[t] # ""
      PROVE  [id |-> row.ref[t], name |-> row.msg.name[t]] \in tables.name[t]
  <2>1. t \in RefTable /\ RefFits(t, Msg.name[t])
    BY <1>1 DEF AInv, RefInv, RowRef, RefTable
  <2>2. Fits(t, ref[t], Msg.name[t])
    BY <1>7, <2>1 DEF RefFits
  <2>3. serial[t] \in Nat
    BY <2>1 DEF TInv, DataInv, Serials
  <2>4. ref[t] # 0
    BY <2>2, <2>3 DEF Fits
  <2>5. ref[t] \in Ids(t)
    BY <1>1, <1>7, <2>4 DEF Refused, RefTable
  <2>6. PICK r \in tables.name[t] : r.id = ref[t]
    BY <2>5 DEF Ids
  <2>7. r.name = Msg.name[t]
    BY <2>2, <2>6 DEF Fits
  <2>8. r \in [id : Nat, name : Name]
    BY <2>1, <2>6 DEF TInv, DataInv, TablesOK, Tables
  <2>9. r = [id |-> ref[t], name |-> Msg.name[t]]
    BY <2>6, <2>7, <2>8
  <2> QED
    BY <2>6, <2>9
<1>8. Attributed(tables'.log, tables'.name)
  <2>1. tables.log \in Seq(LogRow)
    BY DEF TInv, DataInv, TablesOK, Tables
  <2>2. Attributed(tables.log, tables.name)
    BY DEF AInv, LogInv
  <2> HIDE DEF row
  <2>5. Len(tables.log) \in Nat
    BY <2>1, LenProperties
  <2>6. /\ Len(Append(tables.log, row)) = Len(tables.log) + 1
        /\ \A j \in 1 .. Len(tables.log) : Append(tables.log, row)[j] = tables.log[j]
        /\ Append(tables.log, row)[Len(tables.log) + 1] = row
    BY <1>3, <2>1, AppendProperties
  <2> SUFFICES ASSUME NEW i \in 1 .. Len(Append(tables.log, row)), NEW t \in RowRef,
                      Append(tables.log, row)[i].msg.name[t] # ""
               PROVE  [id |-> Append(tables.log, row)[i].ref[t],
                       name |-> Append(tables.log, row)[i].msg.name[t]] \in tables.name[t]
    BY <1>4 DEF Attributed
  <2>3. CASE i = Len(tables.log) + 1
    BY <1>7, <2>3, <2>6
  <2>4. CASE i # Len(tables.log) + 1
    <3>1. i \in 1 .. Len(tables.log)
      <4>1. i \in 1 .. Len(tables.log) + 1
        BY <2>6
      <4> QED
        BY <2>4, <2>5, <4>1, BeforeLast
    <3>2. Append(tables.log, row)[i] = tables.log[i]
      BY <2>6, <3>1
    <3> QED
      BY <2>2, <3>1, <3>2 DEF Attributed
  <2> QED
    BY <2>3, <2>4
<1>9. IdInv' /\ CacheInv'
  BY <1>4, <1>5, <1>6 DEF AInv, IdInv, CacheInv, Fits
<1>10. LogInv'
  BY <1>4, <1>8 DEF AInv, LogInv
<1> QED
  BY <1>6, <1>9, <1>10 DEF AInv, RefInv

LEMMA AttributionInductive ==
  ASSUME SerialKept
  PROVE  TInv /\ AInv /\ [Next]_vars => AInv'
<1> SUFFICES ASSUME TInv, AInv, [Next]_vars
             PROVE  AInv'
  OBVIOUS
<1>1. CASE UNCHANGED vars
  <2>1. UNCHANGED <<stored, tables, serial, cache, list, pos, pc, ref>>
    BY <1>1 DEF vars, database
  <2>2. IdInv' /\ CacheInv' /\ LogInv'
    BY <2>1 DEF AInv, IdInv, CacheInv, LogInv, Fits
  <2>3. RefInv'
    BY <2>1 DEF AInv, RefInv, RefFits, Fits, Msg
  <2> QED
    BY <2>2, <2>3 DEF AInv
<1>2. CASE InitTask \/ ExitTask
  <2>1. UNCHANGED <<stored, tables, serial>> /\ pc' \in {"exit", "idle"} /\ (cache' = cache \/ cache' = NoCache)
    BY <1>2 DEF InitTask, ExitTask, database
  <2>2. CacheInv'
    <3>1. CASE cache' = cache
      BY <2>1, <3>1 DEF AInv, CacheInv, Fits
    <3>2. CASE cache' = NoCache
      BY <3>2 DEF CacheInv, NoCache
    <3> QED
      BY <2>1, <3>1, <3>2
  <2> QED
    BY <2>1, <2>2 DEF AInv, IdInv, LogInv, RefInv
<1>3. CASE Crash \/ Throw \/ CommitFails
  <2>1. RollbackTables /\ (cache' = cache \/ cache' = NoCache) /\ pc' \in {"exit", "idle"}
    BY <1>3 DEF Crash, Throw, CommitFails, Rollback
  <2> QED
    BY <2>1, RollbackFits DEF AInv, RefInv
<1>4. CASE OpenDatabase \/ NoDatabase
  <2>1. UNCHANGED <<stored, tables, serial, cache>> /\ pc' \in {"Hostname", "commit", "idle"}
    BY <1>4 DEF OpenDatabase, NoDatabase, Call, database
  <2> QED
    BY <2>1 DEF AInv, IdInv, CacheInv, RefInv, LogInv, Fits
<1>5. CASE InsertMessage
  <2>1. CASE InsertHost
    <3>1. PICK n : n = Msg.name["Hostname"]
      OBVIOUS
    <3>2. "Hostname" \in RefTable /\ Resolve("Hostname") /\ pc' = "Application" /\ Msg' = Msg
      BY <1>5, <2>1, InsertMessageTypes DEF InsertHost, Goto, RefTable, Msg
    <3>3. IdInv' /\ CacheInv' /\ LogInv' /\ RefFits("Hostname", n)'
      BY <3>1, <3>2, ResolveFits
    <3>4. RefInv'
      BY <3>1, <3>2, <3>3 DEF RefInv
    <3> QED
      BY <3>3, <3>4 DEF AInv
  <2>2. CASE InsertApplication
    <3>1. PICK n : n = Msg.name["Application"]
      OBVIOUS
    <3>2. /\ "Application" \in RefTable /\ "Hostname" \in RefTable /\ Resolve("Application")
          /\ pc = "Application" /\ pc' = "Syslog" /\ Msg' = Msg
      BY <1>5, <2>2, InsertMessageTypes DEF InsertApplication, Resolve, Goto, RefTable, Msg
    <3>3. /\ IdInv' /\ CacheInv' /\ LogInv' /\ RefFits("Application", n)'
          /\ \A u \in RefTable : u # "Application" =>
               ref'[u] = ref[u] /\ serial'[u] = serial[u] /\ tables'.name[u] = tables.name[u]
      BY <3>1, <3>2, ResolveFits
    <3>4. PICK m : m = Msg.name["Hostname"]
      OBVIOUS
    <3>5. RefFits("Hostname", m)
      BY <3>2, <3>4 DEF AInv, RefInv
    <3>6. RefFits("Hostname", m)'
      BY <3>2, <3>3, <3>5 DEF RefFits, Fits
    <3>7. RefInv'
      BY <3>1, <3>2, <3>3, <3>4, <3>6 DEF RefInv
    <3> QED
      BY <3>3, <3>7 DEF AInv
  <2>3. CASE InsertRow
    BY <2>3, RowFits
  <2>4. CASE InsertIdentity
    <3>1. PICK n : n = Msg.name["SdIdent"]
      OBVIOUS
    <3>2. "SdIdent" \in RefTable /\ Resolve("SdIdent") /\ pc' \notin {"Application", "Syslog"}
      BY <2>4 DEF InsertIdentity, Goto, NextMessage, RefTable
    <3>3. IdInv' /\ CacheInv' /\ LogInv'
      BY <3>1, <3>2, ResolveFits
    <3> QED
      BY <3>2, <3>3 DEF AInv, RefInv
  <2>5. CASE InsertKey \/ InsertValue
    <3>1. /\ UNCHANGED <<stored, serial, cache>>
          /\ pc' \notin {"Application", "Syslog"}
      BY <2>5 DEF InsertKey, InsertValue, Goto, NextMessage
    <3>2. /\ [named |-> TRUE, parent |-> ref["SdIdent"]] \in [named : BOOLEAN, parent : Nat]
          /\ [named |-> FALSE, parent |-> serial["Syslog"]] \in [named : BOOLEAN, parent : Nat]
      BY DEF TInv, DataInv, RefTable, Serials
    <3>3. tables'.name = tables.name /\ tables'.log = tables.log
      BY <2>5, <3>2, AddKeyOK DEF InsertKey, InsertValue, TInv, DataInv
    <3> QED
      BY <3>1, <3>3 DEF AInv, IdInv, CacheInv, RefInv, LogInv, Fits
  <2> QED
    BY <1>5, <2>1, <2>2, <2>3, <2>4, <2>5 DEF InsertMessage
<1>6. CASE Commit
  <2>1. stored' = tables /\ UNCHANGED <<tables, serial, cache>> /\ pc' = "idle"
    BY <1>6 DEF Commit
  <2> QED
    BY <2>1 DEF AInv, IdInv, CacheInv, RefInv, LogInv, Fits
<1> QED
  BY <1>1, <1>2, <1>3, <1>4, <1>5, <1>6 DEF Next

LEMMA AttributionInitial == Init => AInv
BY EmptySeq DEF Init, NoTables, NoCache, AInv, IdInv, CacheInv, RefInv, LogInv, Attributed

\* On a database that never gives an id back, every stored message refers to the
\* host and the application it came from, whatever was rolled back in between.
THEOREM MessagesAreAttributed ==
  ASSUME SerialKept
  PROVE  Spec => []Attribution
<1>1. AInv => Attribution
  BY DEF AInv, LogInv, Attributed, Attribution
<1>2. TInv /\ AInv /\ [Next]_vars => AInv'
  BY AttributionInductive
<1> QED
  BY <1>1, <1>2, AttributionInitial, TypesInvariant, PTL DEF Spec
-----------------------------------------------------------------------------
(***************************************************************************)
(* References, on both databases: names are only added while a transaction *)
(* is open, a row or a key that refers to nothing is refused, and a        *)
(* rollback takes the names and what refers to them back together.         *)
(***************************************************************************)
NameIds(d, t) == {r.id : r \in d.name[t]}

LogRefers(d) ==
  \A i \in 1 .. Len(d.log) : \A t \in RowRef : d.log[i].ref[t] \in NameIds(d, t) \cup {0}

KeysRefer(d) == \A k \in d.key : k.parent \in NameIds(d, "SdIdent")

RefersInv == LogRefers(stored) /\ KeysRefer(stored) /\ LogRefers(tables) /\ KeysRefer(tables)

LEMMA NamesGrow ==
  ASSUME LogRefers(tables), KeysRefer(tables),
         \A t \in RefTable : tables.name[t] \subseteq tables'.name[t],
         tables'.log = tables.log, tables'.key = tables.key
  PROVE  LogRefers(tables') /\ KeysRefer(tables')
<1>1. \A t \in RefTable : NameIds(tables, t) \subseteq NameIds(tables', t)
  BY DEF NameIds
<1> QED
  BY <1>1 DEF LogRefers, KeysRefer, RowRef, RefTable

LEMMA ResolveRefers ==
  ASSUME TInv, RefersInv, NEW t \in RefTable, Resolve(t)
  PROVE  RefersInv'
<1>1. stored' = stored
  BY DEF Resolve, InsertName, FindName, CachedName, EmptyName, Resolved
<1>2. CASE InsertName(t)
  <2> DEFINE row == [id |-> serial[t] + 1, name |-> Msg.name[t]]
  <2>1. Msg.name[t] \in Name
    BY <1>2, MessageFacts DEF Resolve, InsertName, TInv, Statements
  <2>2. serial[t] + 1 \in Nat
    BY DEF TInv, DataInv, Serials
  <2>3. row \in NameRow
    BY <2>1, <2>2 DEF NameRow
  <2>4. tables' = [tables EXCEPT !.name[t] = @ \cup {row}]
    BY <1>2 DEF InsertName
  <2> HIDE DEF row
  <2>5. /\ tables'.name = [tables.name EXCEPT ![t] = @ \cup {row}]
        /\ tables'.log = tables.log /\ tables'.key = tables.key
    BY <2>3, <2>4, AddNameOK DEF TInv, DataInv
  <2>6. \A u \in RefTable : tables.name[u] \subseteq tables'.name[u]
    BY <2>5 DEF TInv, DataInv, TablesOK, Tables
  <2> QED
    BY <1>1, <2>5, <2>6, NamesGrow DEF RefersInv
<1>3. CASE ~InsertName(t)
  <2>1. tables' = tables
    BY <1>3 DEF Resolve, FindName, CachedName, EmptyName
  <2> QED
    BY <1>1, <2>1 DEF RefersInv
<1> QED
  BY <1>2, <1>3

LEMMA RowRefers ==
  ASSUME TInv, RefersInv, InsertRow
  PROVE  RefersInv'
<1> DEFINE row == [id |-> serial["Syslog"] + 1, msg |-> Msg, ref |-> [t \in RowRef |-> ref[t]]]
<1>1. pc = "Syslog" /\ stored' = stored /\ tables' = [tables EXCEPT !.log = Append(@, row)]
  BY DEF InsertRow
<1>2. \A t \in RowRef : ref[t] \in NameIds(tables, t) \cup {0}
  BY <1>1 DEF InsertRow, Refused, RefTable, Ids, NameIds
<1>3. row \in LogRow
  <2>1. serial["Syslog"] + 1 \in Nat
    BY DEF TInv, DataInv, Serials
  <2>2. [t \in RowRef |-> ref[t]] \in [RowRef -> Nat]
    BY DEF RowRef, RefTable, TInv, DataInv
  <2>3. Msg \in Message
    BY <1>1, MessageFacts DEF TInv, Statements
  <2> QED
    BY <2>1, <2>2, <2>3 DEF LogRow
<1>4. \A t \in RowRef : row.ref[t] \in NameIds(tables, t) \cup {0}
  BY <1>2
<1> HIDE DEF row
<1>5. /\ tables'.name = tables.name /\ tables'.key = tables.key
      /\ tables'.log = Append(tables.log, row)
  BY <1>1, <1>3, AddRowOK DEF TInv, DataInv
<1>6. tables.log \in Seq(LogRow)
  BY DEF TInv, DataInv, TablesOK, Tables
<1>7. /\ Len(tables.log) \in Nat
      /\ Len(tables'.log) = Len(tables.log) + 1
      /\ \A j \in 1 .. Len(tables.log) : tables'.log[j] = tables.log[j]
      /\ tables'.log[Len(tables.log) + 1] = row
  BY <1>3, <1>5, <1>6, AppendProperties, LenProperties
<1>8. ASSUME NEW i \in 1 .. Len(tables'.log), NEW t \in RowRef
      PROVE  tables'.log[i].ref[t] \in NameIds(tables', t) \cup {0}
  <2>1. NameIds(tables', t) = NameIds(tables, t)
    BY <1>5 DEF NameIds
  <2>2. CASE i = Len(tables.log) + 1
    BY <1>4, <1>7, <2>1, <2>2
  <2>3. CASE i # Len(tables.log) + 1
    <3>1. i \in 1 .. Len(tables.log)
      BY <1>7, <2>3
    <3> QED
      BY <1>7, <2>1, <3>1 DEF RefersInv, LogRefers
  <2> QED
    BY <2>2, <2>3
<1>9. LogRefers(tables')
  BY <1>8 DEF LogRefers
<1>10. KeysRefer(tables')
  BY <1>5 DEF RefersInv, KeysRefer, NameIds
<1> QED
  BY <1>1, <1>9, <1>10 DEF RefersInv

LEMMA KeyRefers ==
  ASSUME TInv, RefersInv, InsertKey \/ InsertValue
  PROVE  RefersInv'
<1>1. PICK k \in [named : BOOLEAN, parent : Nat] :
        /\ tables' = [tables EXCEPT !.key = @ \cup {k}]
        /\ k.parent \in NameIds(tables, "SdIdent")
  <2>1. CASE InsertKey
    <3>1. ref["SdIdent"] \in Nat
      BY DEF TInv, DataInv, RefTable
    <3>2. ref["SdIdent"] \in NameIds(tables, "SdIdent")
      BY <2>1 DEF InsertKey, Refused, RefTable, Ids, NameIds
    <3> DEFINE key == [named |-> TRUE, parent |-> ref["SdIdent"]]
    <3>3. key \in [named : BOOLEAN, parent : Nat] /\ key.parent \in NameIds(tables, "SdIdent")
      BY <3>1, <3>2
    <3>4. tables' = [tables EXCEPT !.key = @ \cup {key}]
      BY <2>1 DEF InsertKey
    <3> HIDE DEF key
    <3> QED
      BY <3>3, <3>4
  <2>2. CASE InsertValue
    <3>1. serial["Syslog"] \in Nat
      BY DEF TInv, DataInv, Serials
    <3>2. serial["Syslog"] \in NameIds(tables, "SdIdent")
      BY <2>2 DEF InsertValue, Refused, RefTable, Ids, NameIds
    <3> DEFINE key == [named |-> FALSE, parent |-> serial["Syslog"]]
    <3>3. key \in [named : BOOLEAN, parent : Nat] /\ key.parent \in NameIds(tables, "SdIdent")
      BY <3>1, <3>2
    <3>4. tables' = [tables EXCEPT !.key = @ \cup {key}]
      BY <2>2 DEF InsertValue
    <3> HIDE DEF key
    <3> QED
      BY <3>3, <3>4
  <2> QED
    BY <2>1, <2>2
<1>2. /\ tables'.name = tables.name /\ tables'.log = tables.log
      /\ tables'.key = tables.key \cup {k}
  BY <1>1, AddKeyOK DEF TInv, DataInv
<1>3. stored' = stored
  BY DEF InsertKey, InsertValue
<1> QED
  BY <1>1, <1>2, <1>3 DEF RefersInv, LogRefers, KeysRefer, NameIds

LEMMA ReferencesInductive == TInv /\ RefersInv /\ [Next]_vars => RefersInv'
<1> SUFFICES ASSUME TInv, RefersInv, [Next]_vars
             PROVE  RefersInv'
  OBVIOUS
<1>1. CASE UNCHANGED vars
  BY <1>1 DEF vars, database, RefersInv
<1>2. CASE InitTask \/ ExitTask \/ OpenDatabase \/ NoDatabase
  <2>1. stored' = stored /\ tables' = tables
    BY <1>2 DEF InitTask, ExitTask, OpenDatabase, NoDatabase, database
  <2> QED
    BY <2>1 DEF RefersInv
<1>3. CASE Crash \/ Throw \/ CommitFails
  <2>1. stored' = stored /\ tables' = stored
    BY <1>3 DEF Crash, Throw, CommitFails, Rollback, RollbackTables
  <2> QED
    BY <2>1 DEF RefersInv
<1>4. CASE InsertMessage
  <2>1. CASE InsertHost \/ InsertApplication \/ InsertIdentity
    BY <2>1, ResolveRefers DEF InsertHost, InsertApplication, InsertIdentity, RefTable
  <2> QED
    BY <1>4, <2>1, RowRefers, KeyRefers DEF InsertMessage
<1>5. CASE Commit
  BY <1>5 DEF Commit, RefersInv
<1> QED
  BY <1>1, <1>2, <1>3, <1>4, <1>5 DEF Next

LEMMA ReferencesInitial == Init => RefersInv
BY EmptySeq DEF Init, NoTables, RefersInv, LogRefers, KeysRefer

\* No stored message and no stored key refers to a row that is not there, on
\* either database and whatever failed, was rolled back or crashed in between.
THEOREM ReferencesAreThere == Spec => []ReferencesExist
<1>1. RefersInv => ReferencesExist
  BY DEF RefersInv, LogRefers, KeysRefer, NameIds, ReferencesExist, StoredIds
<1> QED
  BY <1>1, ReferencesInductive, ReferencesInitial, TypesInvariant, PTL DEF Spec

-----------------------------------------------------------------------------
(***************************************************************************)
(* Unique names.  A row that is inserted has a name that is not there, by  *)
(* UNIQUE, and an id above all that are there.  For the second, a database *)
(* that gives ids back must have used them without a gap: then the number  *)
(* of the rows that survive a rollback is the last id among them.          *)
(***************************************************************************)
OneRowEach(d) ==
  \A t \in RefTable : \A r, s \in d.name[t] : r.name = s.name \/ r.id = s.id => r = s

Below(d, t, last) == \A r \in d.name[t] : r.id \in 1 .. last

UniqueInv ==
  /\ OneRowEach(stored) /\ OneRowEach(tables)
  /\ \A t \in RefTable :
       /\ Below(stored, t, serial[t]) /\ Below(tables, t, serial[t])
       /\ ~SerialKept => /\ serial[t] = Cardinality(tables.name[t])
                         /\ Below(stored, t, Cardinality(stored.name[t]))

LEMMA InsertNameFacts ==
  ASSUME TInv, NEW t \in RefTable, Resolve(t), InsertName(t)
  PROVE  \E row \in NameRow :
           /\ row.id = serial[t] + 1
           /\ \A r \in tables.name[t] : r.name # row.name
           /\ tables'.name[t] = tables.name[t] \cup {row}
           /\ serial'[t] = serial[t] + 1
           /\ \A u \in RefTable : u # t => /\ tables'.name[u] = tables.name[u]
                                         /\ serial'[u] = serial[u]
           /\ stored' = stored
<1> DEFINE row == [id |-> serial[t] + 1, name |-> Msg.name[t]]
<1>1. pc = t /\ pc \in Statements /\ Msg.name[t] # "" /\ ~Cached(t) /\ Found(t) = {} /\ ~Refused
  BY DEF Resolve, InsertName, Resolved, Statements
<1>2. serial[t] \in Nat /\ serial \in [Serials -> Nat] /\ t \in Serials
  BY DEF TInv, DataInv, Serials
<1>3. row \in NameRow
  <2>1. Msg.name[t] \in Name
    BY <1>1, MessageFacts DEF TInv
  <2>2. serial[t] + 1 \in Nat
    BY <1>2
  <2> QED
    BY <2>1, <2>2 DEF NameRow
<1>4. Known(t) = {}
  BY <1>1 DEF Refused, RefTable
<1>5. \A r \in tables.name[t] : r.name # row.name
  BY <1>4 DEF Known
<1>6. row.id = serial[t] + 1
  OBVIOUS
<1>7. /\ tables' = [tables EXCEPT !.name[t] = @ \cup {row}]
      /\ serial' = [serial EXCEPT ![t] = @ + 1] /\ stored' = stored
  BY DEF InsertName, Resolved
<1> HIDE DEF row
<1>8. tables'.name = [tables.name EXCEPT ![t] = @ \cup {row}]
  BY <1>3, <1>7, AddNameOK DEF TInv, DataInv
<1>9. tables.name \in [RefTable -> SUBSET NameRow]
  BY DEF TInv, DataInv, TablesOK, Tables, NameRow
<1>10. \A u \in RefTable : u \in Serials
  BY DEF Serials
<1> QED
  BY <1>2, <1>3, <1>5, <1>6, <1>7, <1>8, <1>9, <1>10

LEMMA ResolveUnique ==
  ASSUME TInv, UniqueInv, NEW t \in RefTable, Resolve(t)
  PROVE  UniqueInv'
<1>1. CASE InsertName(t)
  <2>1. PICK row \in NameRow :
          /\ row.id = serial[t] + 1
          /\ \A r \in tables.name[t] : r.name # row.name
          /\ tables'.name[t] = tables.name[t] \cup {row}
          /\ serial'[t] = serial[t] + 1
          /\ \A u \in RefTable : u # t => /\ tables'.name[u] = tables.name[u]
                                        /\ serial'[u] = serial[u]
          /\ stored' = stored
    BY <1>1, InsertNameFacts
  <2>2. serial[t] \in Nat /\ IsFiniteSet(tables.name[t]) /\ tables.name[t] \subseteq NameRow
    BY DEF TInv, DataInv, Serials, TablesOK, Tables, NameRow
  <2>3. \A r \in tables.name[t] : r.id # row.id
    BY <2>1, <2>2 DEF UniqueInv, Below
  <2>4. OneRowEach(tables')
    <3> SUFFICES ASSUME NEW u \in RefTable, NEW r \in tables'.name[u], NEW s \in tables'.name[u],
                        r.name = s.name \/ r.id = s.id
                 PROVE  r = s
      BY DEF OneRowEach
    <3>1. CASE u = t
      BY <2>1, <2>3, <3>1 DEF UniqueInv, OneRowEach
    <3>2. CASE u # t
      BY <2>1, <3>2 DEF UniqueInv, OneRowEach
    <3> QED
      BY <3>1, <3>2
  <2>5. Cardinality(tables'.name[t]) = Cardinality(tables.name[t]) + 1
    <3>1. row \notin tables.name[t]
      BY <2>3
    <3>2. Cardinality(tables.name[t] \cup {row}) = Cardinality(tables.name[t]) + 1
      BY <2>2, <3>1, FS_AddElement
    <3> QED
      BY <2>1, <3>2
  <2>6. ASSUME NEW u \in RefTable
        PROVE  /\ Below(stored', u, serial'[u]) /\ Below(tables', u, serial'[u])
               /\ ~SerialKept => /\ serial'[u] = Cardinality(tables'.name[u])
                                 /\ Below(stored', u, Cardinality(stored'.name[u]))
    <3>1. CASE u = t
      <4>1. \A r \in stored.name[t] \cup tables.name[t] : r.id \in 1 .. serial[t]
        BY DEF UniqueInv, Below
      <4>2. Below(stored', t, serial'[t]) /\ Below(tables', t, serial'[t])
        BY <2>1, <2>2, <4>1 DEF Below
      <4>3. ~SerialKept => /\ serial'[t] = Cardinality(tables'.name[t])
                           /\ Below(stored', t, Cardinality(stored'.name[t]))
        BY <2>1, <2>5 DEF UniqueInv
      <4> QED
        BY <3>1, <4>2, <4>3
    <3>2. CASE u # t
      BY <2>1, <3>2 DEF UniqueInv, Below
    <3> QED
      BY <3>1, <3>2
  <2>7. OneRowEach(stored')
    BY <2>1 DEF UniqueInv
  <2> QED
    BY <2>4, <2>6, <2>7 DEF UniqueInv
<1>2. CASE ~InsertName(t)
  <2>1. UNCHANGED <<tables, serial, stored>>
    BY <1>2 DEF Resolve, FindName, CachedName, EmptyName, Resolved
  <2> QED
    BY <2>1 DEF UniqueInv
<1> QED
  BY <1>1, <1>2

\* The rows of the messages and the keys leave the names alone.
LEMMA OtherRowsKeepNames ==
  ASSUME TInv, InsertRow \/ InsertKey \/ InsertValue
  PROVE  /\ tables'.name = tables.name /\ stored' = stored
         /\ \A t \in RefTable : serial'[t] = serial[t]
<1>1. CASE InsertRow
  <2> DEFINE row == [id |-> serial["Syslog"] + 1, msg |-> Msg, ref |-> [t \in RowRef |-> ref[t]]]
  <2>1. pc \in Statements /\ tables' = [tables EXCEPT !.log = Append(@, row)]
    BY <1>1 DEF InsertRow, Statements
  <2>2. row \in LogRow
    <3>1. serial["Syslog"] + 1 \in Nat
      BY DEF TInv, DataInv, Serials
    <3>2. [t \in RowRef |-> ref[t]] \in [RowRef -> Nat]
      BY DEF RowRef, RefTable, TInv, DataInv
    <3>3. Msg \in Message
      BY <2>1, MessageFacts DEF TInv
    <3> QED
      BY <3>1, <3>2, <3>3 DEF LogRow
  <2> HIDE DEF row
  <2>3. tables'.name = tables.name
    BY <2>1, <2>2, AddRowOK DEF TInv, DataInv
  <2>4. \A t \in RefTable : serial'[t] = serial[t]
    BY <1>1 DEF InsertRow, TInv, DataInv, Serials, RefTable
  <2> QED
    BY <1>1, <2>3, <2>4 DEF InsertRow
<1>2. CASE InsertKey \/ InsertValue
  <2>1. /\ [named |-> TRUE, parent |-> ref["SdIdent"]] \in [named : BOOLEAN, parent : Nat]
        /\ [named |-> FALSE, parent |-> serial["Syslog"]] \in [named : BOOLEAN, parent : Nat]
    BY DEF TInv, DataInv, RefTable, Serials
  <2>2. tables'.name = tables.name
    BY <1>2, <2>1, AddKeyOK DEF InsertKey, InsertValue, TInv, DataInv
  <2> QED
    BY <1>2, <2>2 DEF InsertKey, InsertValue
<1> QED
  BY <1>1, <1>2

LEMMA RollbackUnique ==
  ASSUME TInv, UniqueInv, RollbackTables
  PROVE  UniqueInv'
<1>1. tables' = stored /\ stored' = stored /\ (SerialKept => serial' = serial)
  BY RollbackOK DEF TInv
<1>2. ~SerialKept => \A t \in RefTable : serial'[t] = Cardinality(stored.name[t])
  BY DEF RollbackTables, TInv, DataInv, Serials, RefTable
<1> QED
  BY <1>1, <1>2 DEF UniqueInv

LEMMA UniqueInductive == TInv /\ UniqueInv /\ [Next]_vars => UniqueInv'
<1> SUFFICES ASSUME TInv, UniqueInv, [Next]_vars
             PROVE  UniqueInv'
  OBVIOUS
<1>1. CASE UNCHANGED <<stored, tables, serial>>
  BY <1>1 DEF UniqueInv
<1>2. CASE Crash \/ Throw \/ CommitFails
  BY <1>2, RollbackUnique DEF Crash, Throw, CommitFails, Rollback
<1>3. CASE InsertMessage
  <2>1. CASE InsertHost \/ InsertApplication \/ InsertIdentity
    BY <2>1, ResolveUnique DEF InsertHost, InsertApplication, InsertIdentity, RefTable
  <2>2. CASE InsertRow \/ InsertKey \/ InsertValue
    BY <2>2, OtherRowsKeepNames DEF UniqueInv, OneRowEach, Below
  <2> QED
    BY <1>3, <2>1, <2>2 DEF InsertMessage
<1>4. CASE Commit
  BY <1>4 DEF Commit, UniqueInv, Below
<1> QED
  BY <1>1, <1>2, <1>3, <1>4
     DEF Next, vars, database, InitTask, ExitTask, OpenDatabase, NoDatabase

LEMMA UniqueInitial == Init => UniqueInv
<1>1. Cardinality({}) = 0
  BY FS_EmptySet
<1> QED
  BY <1>1 DEF Init, NoTables, UniqueInv, OneRowEach, Below, RefTable

\* A host, an application or an identity has one row, and a row an id of its
\* own, on either database and whatever the caches have kept from transactions
\* that were rolled back.
THEOREM NamesAreUnique == Spec => []UniqueNames
<1>1. UniqueInv => UniqueNames
  BY DEF UniqueInv, OneRowEach, UniqueNames
<1> QED
  BY <1>1, UniqueInductive, UniqueInitial, TypesInvariant, PTL DEF Spec

-----------------------------------------------------------------------------
(***************************************************************************)
(* The message log.  While a transaction is open its log is the stored log *)
(* and behind it the messages of the list that have their row; outside of  *)
(* a transaction nothing is left that is not stored.                       *)
(***************************************************************************)
InScope == pc \in Statements \cup {"commit"}

Done == IF pc \in {"Hostname", "Application", "Syslog"} THEN pos - 1
        ELSE IF pc \in {"SdIdent", "SdName", "SdData"} THEN pos
        ELSE IF pc = "commit" /\ model THEN Len(list) ELSE 0

\* The rows "more" are the rows "rows" and behind them the first k messages.
Behind(rows, more, k) ==
  /\ Len(more) = Len(rows) + k
  /\ \A i \in 1 .. Len(rows) : more[i] = rows[i]
  /\ \A i \in 1 .. k : more[Len(rows) + i].msg = list[i]

ScopeInv ==
  /\ pc \in Statements => model
  /\ Behind(stored.log, tables.log, Done)
  /\ ~InScope => tables = stored

LEMMA LogTypes ==
  ASSUME TInv
  PROVE  /\ stored.log \in Seq(LogRow) /\ Len(stored.log) \in Nat
         /\ tables.log \in Seq(LogRow) /\ Len(tables.log) \in Nat
         /\ list \in Seq(Message) /\ Len(list) \in Nat /\ pos \in Nat
<1>1. stored.log \in Seq(LogRow) /\ tables.log \in Seq(LogRow) /\ list \in Seq(Message)
  BY DEF TInv, DataInv, ControlInv, TablesOK, Tables
<1> QED
  BY <1>1, LenProperties DEF TInv, ControlInv

\* A step inside a transaction that adds no row.
LEMMA SameRows ==
  ASSUME ScopeInv, pc \in Statements, pc' \in Statements \cup {"commit"},
         UNCHANGED <<stored, list, model>>, tables'.log = tables.log, Done' = Done
  PROVE  ScopeInv'
BY DEF ScopeInv, Behind, InScope, Statements, RefTable

\* After the last statement of a message: the next message, or the end.
LEMMA NextMessageScope ==
  ASSUME TInv, ScopeInv, pc \in {"SdIdent", "SdData"}, NextMessage,
         UNCHANGED <<stored, list, model>>, tables'.log = tables.log
  PROVE  ScopeInv'
<1>1. pc \in Statements /\ model /\ pos \in Nat /\ Len(list) \in Nat
  BY LogTypes DEF ScopeInv, Statements, RefTable
<1>2. pc' \in Statements \cup {"commit"}
  BY DEF NextMessage, Statements, RefTable
<1>3. Done = pos
  BY DEF Done
<1>4. Done' = pos
  BY <1>1 DEF Done, NextMessage
<1> QED
  BY <1>1, <1>2, <1>3, <1>4, SameRows

LEMMA ResolveKeepsLog ==
  ASSUME TInv, NEW t \in RefTable, Resolve(t)
  PROVE  UNCHANGED <<stored, list, model>> /\ tables'.log = tables.log
<1>1. UNCHANGED <<stored, list, model>>
  BY DEF Resolve, InsertName, FindName, CachedName, EmptyName, Resolved
<1>2. CASE InsertName(t)
  <2> DEFINE row == [id |-> serial[t] + 1, name |-> Msg.name[t]]
  <2>1. Msg.name[t] \in Name
    BY <1>2, MessageFacts DEF Resolve, InsertName, TInv, Statements
  <2>2. serial[t] + 1 \in Nat
    BY DEF TInv, DataInv, Serials
  <2>3. row \in NameRow
    BY <2>1, <2>2 DEF NameRow
  <2>4. tables' = [tables EXCEPT !.name[t] = @ \cup {row}]
    BY <1>2 DEF InsertName
  <2> HIDE DEF row
  <2> QED
    BY <1>1, <2>3, <2>4, AddNameOK DEF TInv, DataInv
<1>3. CASE ~InsertName(t)
  BY <1>1, <1>3 DEF Resolve, FindName, CachedName, EmptyName
<1> QED
  BY <1>2, <1>3

LEMMA KeysKeepLog ==
  ASSUME TInv, InsertKey \/ InsertValue
  PROVE  UNCHANGED <<stored, list, model>> /\ tables'.log = tables.log
<1>1. /\ [named |-> TRUE, parent |-> ref["SdIdent"]] \in [named : BOOLEAN, parent : Nat]
      /\ [named |-> FALSE, parent |-> serial["Syslog"]] \in [named : BOOLEAN, parent : Nat]
  BY DEF TInv, DataInv, RefTable, Serials
<1>2. tables'.log = tables.log
  BY <1>1, AddKeyOK DEF InsertKey, InsertValue, TInv, DataInv
<1> QED
  BY <1>2 DEF InsertKey, InsertValue

LEMMA RowScope ==
  ASSUME TInv, ScopeInv, InsertRow
  PROVE  ScopeInv'
<1> DEFINE row == [id |-> serial["Syslog"] + 1, msg |-> Msg, ref |-> [t \in RowRef |-> ref[t]]]
           n == Len(stored.log)
<1>1. /\ pc = "Syslog" /\ pc' = "SdIdent" /\ UNCHANGED <<stored, list, model, pos>>
      /\ tables' = [tables EXCEPT !.log = Append(@, row)]
  BY DEF InsertRow, Goto
<1>2. Msg \in Message
  BY <1>1, MessageFacts DEF TInv, Statements
<1>3. row \in LogRow
  <2>1. serial["Syslog"] + 1 \in Nat
    BY DEF TInv, DataInv, Serials
  <2>2. [t \in RowRef |-> ref[t]] \in [RowRef -> Nat]
    BY DEF RowRef, RefTable, TInv, DataInv
  <2> QED
    BY <1>2, <2>1, <2>2 DEF LogRow
<1>4. row.msg = list[pos]
  BY DEF Msg
<1> HIDE DEF row
<1>5. tables'.log = Append(tables.log, row)
  BY <1>1, <1>3, AddRowOK DEF TInv, DataInv
<1>6. pos \in Nat \ {0}
  <2>1. pos \in 1 .. Len(list)
    BY <1>1 DEF TInv, ControlInv, Statements
  <2> QED
    BY <2>1
<1>7. /\ n \in Nat /\ Len(tables.log) = n + (pos - 1)
      /\ \A i \in 1 .. n : tables.log[i] = stored.log[i]
      /\ \A i \in 1 .. pos - 1 : tables.log[n + i].msg = list[i]
  BY <1>1, LogTypes DEF ScopeInv, Behind, Done
<1>8. /\ Len(tables'.log) = Len(tables.log) + 1
      /\ \A j \in 1 .. Len(tables.log) : tables'.log[j] = tables.log[j]
      /\ tables'.log[Len(tables.log) + 1] = row
  BY <1>3, <1>5, LogTypes, AppendProperties
<1> HIDE DEF n
<1>9. Len(tables'.log) = n + pos
  BY <1>6, <1>7, <1>8
<1>10. \A i \in 1 .. n : tables'.log[i] = stored.log[i]
  BY <1>6, <1>7, <1>8
<1>11. \A i \in 1 .. pos : tables'.log[n + i].msg = list[i]
  <2> SUFFICES ASSUME NEW i \in 1 .. pos
               PROVE  tables'.log[n + i].msg = list[i]
    OBVIOUS
  <2>1. CASE i = pos
    BY <1>4, <1>6, <1>7, <1>8, <2>1
  <2>2. CASE i # pos
    <3>1. i \in 1 .. pos - 1 /\ n + i \in 1 .. Len(tables.log)
      BY <1>6, <1>7, <2>2
    <3> QED
      BY <1>7, <1>8, <3>1
  <2> QED
    BY <2>1, <2>2
<1>12. Behind(stored.log, tables.log, Done)'
  BY <1>1, <1>9, <1>10, <1>11 DEF Behind, Done, n
<1> QED
  BY <1>1, <1>12 DEF ScopeInv, InScope, Statements, RefTable

LEMMA InsertScope ==
  ASSUME TInv, ScopeInv, InsertMessage
  PROVE  ScopeInv' /\ UNCHANGED <<stored, list, model>> /\ InScope /\ InScope'
<1>1. UNCHANGED <<stored, list, model>> /\ InScope /\ InScope'
  BY DEF InsertMessage, InsertHost, InsertApplication, InsertRow, InsertIdentity, InsertKey,
         InsertValue, Resolve, InsertName, FindName, CachedName, EmptyName, Resolved,
         Goto, NextMessage, InScope, Statements, RefTable
<1>2. CASE InsertHost
  <2>1. pc = "Hostname" /\ pc' = "Application" /\ pos' = pos
    BY <1>2 DEF InsertHost, Resolve, Goto
  <2>2. Done' = Done
    BY <2>1 DEF Done
  <2> QED
    BY <1>1, <1>2, <2>1, <2>2, ResolveKeepsLog, SameRows DEF InsertHost, Statements, RefTable
<1>3. CASE InsertApplication
  <2>1. pc = "Application" /\ pc' = "Syslog" /\ pos' = pos
    BY <1>3 DEF InsertApplication, Resolve, Goto
  <2>2. Done' = Done
    BY <2>1 DEF Done
  <2> QED
    BY <1>1, <1>3, <2>1, <2>2, ResolveKeepsLog, SameRows DEF InsertApplication, Statements, RefTable
<1>4. CASE InsertRow
  BY <1>1, <1>4, RowScope
<1>5. CASE InsertIdentity
  <2>1. pc = "SdIdent" /\ UNCHANGED <<stored, list, model>> /\ tables'.log = tables.log
    BY <1>5, ResolveKeepsLog DEF InsertIdentity, Resolve, RefTable
  <2>2. CASE Goto("SdName")
    <3>1. Done' = Done /\ pc' = "SdName"
      BY <2>1, <2>2 DEF Goto, Done
    <3> QED
      BY <1>1, <2>1, <3>1, SameRows DEF Statements, RefTable
  <2>3. CASE NextMessage
    BY <1>1, <2>1, <2>3, NextMessageScope
  <2> QED
    BY <1>5, <2>2, <2>3 DEF InsertIdentity
<1>6. CASE InsertKey
  <2>1. pc = "SdName" /\ pc' = "SdData" /\ pos' = pos
    BY <1>6 DEF InsertKey, Goto
  <2>2. Done' = Done
    BY <2>1 DEF Done
  <2> QED
    BY <1>1, <1>6, <2>1, <2>2, KeysKeepLog, SameRows DEF Statements, RefTable
<1>7. CASE InsertValue
  BY <1>1, <1>7, KeysKeepLog, NextMessageScope DEF InsertValue
<1> QED
  BY <1>2, <1>3, <1>4, <1>5, <1>6, <1>7 DEF InsertMessage

\* With nothing left over there is nothing behind the stored rows.
LEMMA NothingOpen ==
  ASSUME TInv', ~InScope', tables' = stored'
  PROVE  ScopeInv'
<1>1. Len(stored'.log) \in Nat
  BY LenProperties DEF TInv, DataInv, TablesOK, Tables
<1>2. Done' = 0
  BY DEF Done, InScope, Statements, RefTable
<1> QED
  BY <1>1, <1>2 DEF ScopeInv, Behind, InScope

LEMMA ScopeInductive == TInv /\ ScopeInv /\ [Next]_vars => ScopeInv'
<1> SUFFICES ASSUME TInv, ScopeInv, [Next]_vars
             PROVE  ScopeInv'
  OBVIOUS
<1>0. TInv'
  BY TypesInductive
<1>1. CASE UNCHANGED vars
  BY <1>1 DEF vars, database, ScopeInv, Behind, Done, InScope
<1>2. CASE InitTask \/ ExitTask
  BY <1>0, <1>2, NothingOpen
     DEF InitTask, ExitTask, database, ScopeInv, InScope, Statements, RefTable
<1>3. CASE Crash \/ Throw \/ CommitFails
  BY <1>0, <1>3, NothingOpen
     DEF Crash, Throw, CommitFails, Rollback, RollbackTables, InScope, Statements, RefTable
<1>4. CASE OpenDatabase
  <2>1. /\ UNCHANGED <<stored, tables, model>> /\ tables = stored /\ pos' = 1
        /\ IF model THEN pc' = "Hostname" ELSE pc' = "commit"
    BY <1>4 DEF OpenDatabase, Call, database, ScopeInv, InScope, Statements, RefTable
  <2>2. Done' = 0
    BY <2>1 DEF Done
  <2>3. Len(stored.log) \in Nat
    BY LogTypes
  <2> QED
    BY <2>1, <2>2, <2>3 DEF ScopeInv, Behind, InScope, Statements, RefTable
<1>5. CASE NoDatabase
  BY <1>0, <1>5, NothingOpen
     DEF NoDatabase, Call, database, ScopeInv, InScope, Statements, RefTable
<1>6. CASE InsertMessage
  BY <1>6, InsertScope
<1>7. CASE Commit
  BY <1>0, <1>7, NothingOpen DEF Commit, InScope, Statements, RefTable
<1> QED
  BY <1>1, <1>2, <1>3, <1>4, <1>5, <1>6, <1>7 DEF Next

LEMMA ScopeInitial == Init => ScopeInv
BY EmptySeq DEF Init, NoTables, ScopeInv, Behind, Done, InScope, Statements, RefTable

\* What Commit makes of the stored messages.
LEMMA MessagesBehind ==
  ASSUME NEW rows \in Seq(LogRow), NEW more \in Seq(LogRow), list \in Seq(Message)
  PROVE  /\ Behind(rows, more, Len(list)) => Messages(more) = Messages(rows) \o list
         /\ Behind(rows, more, 0) => Messages(more) = Messages(rows)
<1> DEFINE n == Len(rows)
           k == Len(list)
<1>1. /\ n \in Nat /\ k \in Nat /\ Len(more) \in Nat
      /\ DOMAIN rows = 1 .. n /\ DOMAIN more = 1 .. Len(more)
  BY LenProperties
<1>2. /\ \A i \in 1 .. n : rows[i].msg \in Message
      /\ \A i \in 1 .. Len(more) : more[i].msg \in Message
  <2>1. \A row \in LogRow : row.msg \in Message
    BY DEF LogRow
  <2>2. (\A i \in 1 .. n : rows[i] \in LogRow) /\ (\A i \in 1 .. Len(more) : more[i] \in LogRow)
    BY ElementOfSeq
  <2> QED
    BY <2>1, <2>2
<1>3. Messages(rows) = [i \in 1 .. n |-> rows[i].msg]
      /\ Messages(more) = [i \in 1 .. Len(more) |-> more[i].msg]
  BY <1>1 DEF Messages
<1>4. Messages(rows) \in Seq(Message) /\ Messages(more) \in Seq(Message)
  BY <1>1, <1>2, <1>3, SeqDef
<1>5. Len(Messages(rows)) = n /\ Len(Messages(more)) = Len(more)
  BY <1>1, <1>3, <1>4, LenProperties
<1>6. ASSUME Behind(rows, more, Len(list))
      PROVE  Messages(more) = Messages(rows) \o list
  <2>1. Len(more) = n + k
    BY <1>6 DEF Behind
  <2>2. /\ Messages(rows) \o list \in Seq(Message)
        /\ Len(Messages(rows) \o list) = n + k
        /\ \A i \in 1 .. n + k : (Messages(rows) \o list)[i] =
             IF i <= n THEN Messages(rows)[i] ELSE list[i - n]
    <3> DEFINE s == Messages(rows)
    <3>1. s \in Seq(Message) /\ Len(s) = n
      BY <1>4, <1>5
    <3> HIDE DEF s
    <3>2. /\ s \o list \in Seq(Message) /\ Len(s \o list) = Len(s) + k
          /\ \A i \in 1 .. Len(s) + k : (s \o list)[i] =
               IF i <= Len(s) THEN s[i] ELSE list[i - Len(s)]
      BY <3>1, ConcatProperties
    <3> QED
      BY <3>1, <3>2 DEF s
  <2>3. ASSUME NEW i \in 1 .. n + k
        PROVE  Messages(more)[i] = (Messages(rows) \o list)[i]
    <3>1. Messages(more)[i] = more[i].msg
      BY <1>3, <2>1
    <3>2. CASE i <= n
      BY <1>1, <1>3, <1>6, <2>2, <3>1, <3>2 DEF Behind
    <3>3. CASE ~(i <= n)
      <4>1. i - n \in 1 .. k /\ n + (i - n) = i
        BY <1>1, <3>3
      <4>2. more[n + (i - n)].msg = list[i - n]
        BY <1>6, <4>1 DEF Behind
      <4> QED
        BY <2>2, <3>1, <3>3, <4>1, <4>2
    <3> QED
      BY <3>2, <3>3
  <2> QED
    BY <1>4, <1>5, <2>1, <2>2, <2>3, SeqEqual
<1>7. ASSUME Behind(rows, more, 0)
      PROVE  Messages(more) = Messages(rows)
  BY <1>1, <1>3, <1>7 DEF Behind
<1> QED
  BY <1>6, <1>7

Offered == IF InScope THEN list ELSE <<>>

LEMMA CommitStores ==
  ASSUME TInv, ScopeInv, Commit
  PROVE  Messages(stored.log)' = IF model THEN Messages(stored.log) \o list
                                 ELSE Messages(stored.log)
<1>1. pc = "commit" /\ stored' = tables
  BY DEF Commit
<1>2. Behind(stored.log, tables.log, IF model THEN Len(list) ELSE 0)
  BY <1>1 DEF ScopeInv, Done
<1>3. Messages(stored.log)' = Messages(tables.log)
  BY <1>1 DEF Messages
<1> QED
  BY <1>2, <1>3, LogTypes, MessagesBehind

LEMMA LogStep ==
  TInv /\ ScopeInv /\ [Next]_vars => [Log!Next]_<<Messages(stored.log), Offered>>
<1> SUFFICES ASSUME TInv, ScopeInv, [Next]_vars
             PROVE  [Log!Next]_<<Messages(stored.log), Offered>>
  OBVIOUS
<1>1. ASSUME stored' = stored, Offered' = <<>>
      PROVE  [Log!Next]_<<Messages(stored.log), Offered>>
  <2>1. Messages(stored.log)' = Messages(stored.log)
    BY <1>1 DEF Messages
  <2> QED
    BY <1>1, <2>1 DEF Log!Next, Log!Drop, Offered, InScope
<1>2. CASE UNCHANGED vars
  BY <1>2 DEF vars, database, Messages, Offered, InScope
<1>3. CASE InitTask \/ ExitTask \/ Crash \/ Throw \/ CommitFails
  <2>1. stored' = stored /\ ~InScope'
    BY <1>3 DEF InitTask, ExitTask, Crash, Throw, CommitFails, Rollback, RollbackTables,
                database, InScope, Statements, RefTable
  <2> QED
    BY <1>1, <2>1 DEF Offered
<1>4. CASE NoDatabase
  <2>1. stored' = stored /\ ~InScope'
    BY <1>4 DEF NoDatabase, Call, database, InScope, Statements, RefTable
  <2> QED
    BY <1>1, <2>1 DEF Offered
<1>5. CASE OpenDatabase
  <2>1. /\ stored' = stored /\ ~InScope /\ InScope'
        /\ list' \in Seq(Message) /\ Len(list') # 0
    BY <1>5, CallTypes DEF OpenDatabase, Call, database, InScope, Statements, RefTable
  <2>2. list' # <<>>
    BY <2>1, EmptySeq
  <2>3. Offered = <<>> /\ Offered' = list' /\ Messages(stored.log)' = Messages(stored.log)
    BY <2>1 DEF Offered, Messages
  <2>4. Log!Offer
    BY <2>1, <2>2, <2>3 DEF Log!Offer, Offered, InScope
  <2> QED
    BY <2>4 DEF Log!Next
<1>6. CASE InsertMessage
  BY <1>6, InsertScope DEF Offered, Messages
<1>7. CASE Commit
  <2>1. InScope /\ Offered' = <<>> /\ list # <<>>
    BY <1>7, EmptySeq DEF Commit, Offered, InScope, Statements, RefTable, TInv, ControlInv
  <2>2. Log!Store \/ Log!Drop
    BY <1>7, <2>1, CommitStores DEF Log!Store, Log!Drop, Offered, InScope
  <2> QED
    BY <2>2 DEF Log!Next
<1> QED
  BY <1>2, <1>3, <1>4, <1>5, <1>6, <1>7 DEF Next

\* The stored messages of the inserter are an event log: every call appends its
\* whole list, in its order, or leaves the log as it was, whichever of its
\* statements throws, whether or not COMMIT succeeds, and when the process ends.
THEOREM ImplementsEventLog == Spec => LogSpec
<1>1. Init => Log!Init
  <2>1. ASSUME Init
        PROVE  Log!Init
    <3>1. stored.log = <<>> /\ ~InScope
      BY <2>1 DEF Init, NoTables, InScope, Statements, RefTable
    <3>2. Messages(stored.log) = <<>>
      BY <3>1 DEF Messages
    <3> QED
      BY <3>1, <3>2 DEF Log!Init, InScope
  <2> QED
    BY <2>1
<1>2. TInv /\ ScopeInv /\ [Next]_vars =>
        [Log!Next]_<<Messages(stored.log),
                     IF pc \in Statements \cup {"commit"} THEN list ELSE <<>>>>
  BY LogStep DEF Offered, InScope
<1> QED
  BY <1>1, <1>2, ScopeInitial, ScopeInductive, TypesInvariant, PTL DEF Spec, LogSpec, Log!Spec

-----------------------------------------------------------------------------
\* What a call of a task with a model answers is true: when Tick leaves IsOk()
\* true, or AddOneMessage returns true, the messages of the call are the last
\* ones of the stored log, unless it was COMMIT that failed.
THEOREM AnswersAreTrue == Spec => ReportedIsStored
<1>1. TInv /\ ScopeInv /\ [Next]_vars =>
        [Answers /\ model /\ ~CommitLost => IsStored(list)']_vars
  <2> SUFFICES ASSUME TInv, ScopeInv, Next, Answers, model, ~CommitLost
               PROVE  IsStored(list)'
    OBVIOUS
  <2>1. /\ pc \in Statements \cup {"commit"} /\ pc' = "idle" /\ told'
        /\ pc = "commit" => stored' = tables
    BY DEF Answers, CommitLost
  <2>2. pc = "commit" /\ list' = list
    BY <2>1 DEF Next, InitTask, ExitTask, Crash, OpenDatabase, NoDatabase, Call, InsertMessage,
         InsertHost, InsertApplication, InsertRow, InsertIdentity, InsertKey, InsertValue,
         Goto, NextMessage, Throw, Commit, CommitFails, Rollback, Statements, RefTable
  <2>3. Behind(stored.log, stored'.log, Len(list))
    BY <2>1, <2>2 DEF ScopeInv, Done
  <2>4. Len(stored.log) \in Nat /\ Len(list) \in Nat
    BY LogTypes
  <2>5. Len(stored'.log) - Len(list) = Len(stored.log)
    BY <2>3, <2>4 DEF Behind
  <2> QED
    BY <2>2, <2>3, <2>4, <2>5 DEF IsStored, Behind
<1> QED
  BY <1>1, ScopeInitial, ScopeInductive, TypesInvariant, PTL DEF Spec, ReportedIsStored
=============================================================================
