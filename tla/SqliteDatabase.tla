--------------------------- MODULE SqliteDatabase ---------------------------
(***************************************************************************)
(* SqliteDatabase (src/src/sqlitedatabase.cpp) as it is used everywhere in *)
(* the library: through DatabaseGuard scopes (src/src/databaseguard.cpp).  *)
(* A handle is one IDatabase object, used by one thread; all the handles   *)
(* of this module are on the same database file, as the syslog inserter,   *)
(* the test directory worker and the Report Explorer views are.            *)
(*                                                                         *)
(* The operators Mut... are the forms a slip in the code would give to the *)
(* definition below them; no behaviour of this module uses them.           *)
(*                                                                         *)
(* The locks of the file and the automatic rollback belong to SQLite; they *)
(* are modelled from what Open, ExecuteSql, Step and Close rely on: a      *)
(* deferred BEGIN takes no lock, the first query takes SHARED and keeps    *)
(* it, a write needs RESERVED, COMMIT takes PENDING and waits until no     *)
(* other handle holds SHARED.                                              *)
(***************************************************************************)
EXTENDS Naturals, Sequences, FiniteSets

CONSTANTS
  Handle,     \* the IDatabase objects
  Row,        \* the rows the file may hold
  MaxDepth    \* bound: how deep guards are nested on one handle

ASSUME DepthAssumption == MaxDepth \in Nat

VARIABLES
  file,       \* the committed rows
  lock,       \* lock[h]: the lock the connection of h holds on the file
  base,       \* base[h]: the file as the transaction of h first saw it
  work,       \* work[h]: the rows as the transaction of h has made them
  call,       \* call[h]: the SQLite call the thread of h is inside
  intx,       \* intx[h]: the connection is inside BEGIN ... COMMIT
  database,   \* database[h]: database_ != nullptr, that is IsOpen()
  guards      \* guards[h]: the live DatabaseGuard objects, innermost last

engine == <<file, lock, base, work>>
vars == <<file, lock, base, work, call, intx, database, guards>>

Guard == [own : BOOLEAN, ok : BOOLEAN]  \* own: database_ is set, ok: db_ok_

Top(h) == guards[h][Len(guards[h])]
Pop(h) == SubSeq(guards[h], 1, Len(guards[h]) - 1)
Idle(h) == call[h] = "none"
Others(h) == Handle \ {h}

Init ==
  /\ file \in SUBSET Row
  /\ lock = [h \in Handle |-> "none"]
  /\ base = [h \in Handle |-> {}]
  /\ work = [h \in Handle |-> {}]
  /\ call = [h \in Handle |-> "none"]
  /\ intx = [h \in Handle |-> FALSE]
  /\ database = [h \in Handle |-> FALSE]
  /\ guards = [h \in Handle |-> <<>>]

(***************************************************************************)
(* The lock rules of the file.                                             *)
(***************************************************************************)
CanShare(h) == lock[h] # "none" \/ \A g \in Handle : lock[g] # "pending"

CanReserve(h) ==
  /\ CanShare(h)
  /\ \A g \in Others(h) : lock[g] \in {"none", "shared"}

CanExclude(h) == \A g \in Others(h) : lock[g] = "none"

\* SQLite answers BUSY: the busy handler has waited 1000 times for the lock,
\* or is not asked, because the handle itself is in the way of another one.
MutRetry(h) == FALSE

TimesOut(h) ==
  \/ call[h] = "read" /\ ~CanShare(h)
  \/ call[h] = "write" /\ ~CanReserve(h)
  \/ call[h] = "write" /\ ~intx[h] /\ ~CanExclude(h)
  \/ call[h] = "commit" /\ ~CanExclude(h)

\* The rows a statement of h starts from.
View(h) == IF lock[h] = "none" THEN file ELSE work[h]

\* What a statement makes of the rows: DELETE keeps some of them, INSERT adds
\* one, UPDATE replaces what it selects.
Edits(rows) == {new \in SUBSET Row : \A r, s \in new \ rows : r = s}

DropLock(h) ==
  /\ lock' = [lock EXCEPT ![h] = "none"]
  /\ base' = [base EXCEPT ![h] = {}]
  /\ work' = [work EXCEPT ![h] = {}]

(***************************************************************************)
(* SqliteDatabase::Open and the end of SqliteDatabase::Close: the          *)
(* connection is closed whatever became of the transaction.                *)
(***************************************************************************)
MutOpenNoBegin(h) ==
  /\ database' = [database EXCEPT ![h] = TRUE]
  /\ intx' = intx

Open(h) ==
  /\ database' = [database EXCEPT ![h] = TRUE]
  /\ intx' = [intx EXCEPT ![h] = TRUE]

\* A statement that is not finalised keeps the connection and its locks alive.
MutCloseKeepsLock(h) ==
  /\ database' = [database EXCEPT ![h] = FALSE]
  /\ intx' = [intx EXCEPT ![h] = FALSE]
  /\ call' = [call EXCEPT ![h] = "none"]
  /\ UNCHANGED <<lock, base, work>>

CloseConnection(h) ==
  /\ DropLock(h)
  /\ database' = [database EXCEPT ![h] = FALSE]
  /\ intx' = [intx EXCEPT ![h] = FALSE]
  /\ call' = [call EXCEPT ![h] = "none"]

(***************************************************************************)
(* DatabaseGuard::DatabaseGuard.  Open may fail (no such file, BEGIN       *)
(* failed): the guard then still refers to the database, but is not ok.    *)
(***************************************************************************)
MutPushNoState(h, own, ok) == guards' = [guards EXCEPT ![h] = Append(@, [own |-> own])]

Push(h, own, ok) ==
  guards' = [guards EXCEPT ![h] = Append(@, [own |-> own, ok |-> ok])]

EnterOwner(h) ==
  /\ Idle(h) /\ Len(guards[h]) < MaxDepth
  /\ ~database[h]
  /\ Open(h)
  /\ Push(h, TRUE, TRUE)
  /\ UNCHANGED <<engine, call>>

EnterFailed(h) ==
  /\ Idle(h) /\ Len(guards[h]) < MaxDepth
  /\ ~database[h]
  /\ Push(h, TRUE, FALSE)
  /\ UNCHANGED <<engine, call, intx, database>>

EnterNested(h) ==
  /\ Idle(h) /\ Len(guards[h]) < MaxDepth
  /\ database[h]
  /\ Push(h, FALSE, TRUE)
  /\ UNCHANGED <<engine, call, intx, database>>

(***************************************************************************)
(* A statement: the call is issued, and is granted when the locks allow;   *)
(* on BUSY it throws, without an effect.                                   *)
(***************************************************************************)
Issue(h) ==
  /\ Idle(h) /\ database[h]
  /\ \E kind \in {"read", "write"} : call' = [call EXCEPT ![h] = kind]
  /\ UNCHANGED <<engine, intx, database, guards>>

\* What the statement of h leaves of its transaction: a lock and a view.
Work(h, level, rows) ==
  /\ lock' = [lock EXCEPT ![h] = level]
  /\ base' = [base EXCEPT ![h] = IF lock[h] = "none" THEN file ELSE @]
  /\ work' = [work EXCEPT ![h] = rows]
  /\ file' = file

Read(h) ==
  /\ call[h] = "read" /\ CanShare(h)
  /\ IF intx[h]
       THEN Work(h, IF lock[h] = "none" THEN "shared" ELSE lock[h], View(h))
       ELSE UNCHANGED engine
  /\ call' = [call EXCEPT ![h] = "none"]
  /\ UNCHANGED <<intx, database, guards>>

\* Insert, Update or Delete; a broken constraint changes no row.
Write(h) ==
  /\ call[h] = "write" /\ intx[h] /\ CanReserve(h)
  /\ \E rows \in Edits(View(h)) : Work(h, "reserved", rows)
  /\ call' = [call EXCEPT ![h] = "none"]
  /\ UNCHANGED <<intx, database, guards>>

\* Outside of a transaction SQLite commits the statement at once.
LoneWrite(h) ==
  /\ call[h] = "write" /\ ~intx[h] /\ CanReserve(h) /\ CanExclude(h)
  /\ file' \in Edits(file)
  /\ call' = [call EXCEPT ![h] = "none"]
  /\ UNCHANGED <<lock, base, work, intx, database, guards>>

Busy(h) ==
  /\ call[h] \in {"read", "write"} /\ TimesOut(h)
  /\ call' = [call EXCEPT ![h] = "none"]
  /\ UNCHANGED <<engine, intx, database, guards>>

\* A full disk or an I/O error: SQLite drops the whole transaction, the
\* statement throws, and SqliteDatabase does not notice.
EngineRollback(h) ==
  /\ call[h] = "write" /\ intx[h]
  /\ DropLock(h)
  /\ intx' = [intx EXCEPT ![h] = FALSE]
  /\ call' = [call EXCEPT ![h] = "none"]
  /\ UNCHANGED <<file, database, guards>>

(***************************************************************************)
(* DatabaseGuard::Rollback, on the innermost guard: only a guard that      *)
(* opened the database ends the transaction.                               *)
(***************************************************************************)
RollbackOwner(h) ==
  /\ Idle(h) /\ guards[h] # <<>> /\ Top(h).own
  /\ CloseConnection(h)
  /\ guards' = [guards EXCEPT ![h][Len(guards[h])] = [own |-> FALSE, ok |-> FALSE]]
  /\ UNCHANGED file

MutRollbackCloses(h) ==
  /\ Idle(h) /\ guards[h] # <<>> /\ ~Top(h).own /\ Top(h).ok
  /\ guards' = [guards EXCEPT ![h][Len(guards[h])].ok = FALSE]
  /\ CloseConnection(h)
  /\ UNCHANGED file

RollbackNested(h) ==
  /\ Idle(h) /\ guards[h] # <<>> /\ ~Top(h).own /\ Top(h).ok
  /\ guards' = [guards EXCEPT ![h][Len(guards[h])].ok = FALSE]
  /\ UNCHANGED <<engine, call, intx, database>>

(***************************************************************************)
(* DatabaseGuard::~DatabaseGuard: Close(true) when the guard still refers  *)
(* to the database.  A COMMIT that fails is logged and the connection is   *)
(* closed all the same.                                                    *)
(***************************************************************************)
MutLeaveCloses(h) ==
  /\ Idle(h) /\ guards[h] # <<>> /\ ~Top(h).own
  /\ guards' = [guards EXCEPT ![h] = Pop(h)]
  /\ CloseConnection(h)
  /\ UNCHANGED file

LeaveNested(h) ==
  /\ Idle(h) /\ guards[h] # <<>> /\ ~Top(h).own
  /\ guards' = [guards EXCEPT ![h] = Pop(h)]
  /\ UNCHANGED <<engine, call, intx, database>>

\* Nothing to write: no scope, nothing written, or no transaction left.
LeaveClean(h) ==
  /\ Idle(h) /\ guards[h] # <<>> /\ Top(h).own
  /\ lock[h] \in {"none", "shared"}
  /\ CloseConnection(h)
  /\ guards' = [guards EXCEPT ![h] = Pop(h)]
  /\ UNCHANGED file

LeaveCommit(h) ==
  /\ Idle(h) /\ guards[h] # <<>> /\ Top(h).own
  /\ lock[h] = "reserved"
  /\ lock' = [lock EXCEPT ![h] = "pending"]
  /\ call' = [call EXCEPT ![h] = "commit"]
  /\ UNCHANGED <<file, base, work, intx, database, guards>>

CommitDone(h) ==
  /\ call[h] = "commit" /\ CanExclude(h)
  /\ file' = work[h]
  /\ CloseConnection(h)
  /\ guards' = [guards EXCEPT ![h] = Pop(h)]

CommitLost(h) ==
  /\ CloseConnection(h)
  /\ guards' = [guards EXCEPT ![h] = Pop(h)]
  /\ UNCHANGED file

CommitBusy(h) == call[h] = "commit" /\ TimesOut(h) /\ CommitLost(h)
CommitError(h) == call[h] = "commit" /\ CommitLost(h)    \* an I/O error

Enter(h) == EnterOwner(h) \/ EnterFailed(h) \/ EnterNested(h)
Leave(h) == LeaveNested(h) \/ LeaveClean(h) \/ LeaveCommit(h)
Commit(h) == CommitDone(h) \/ CommitBusy(h)
Answer(h) == Read(h) \/ Write(h) \/ LoneWrite(h) \/ Busy(h) \/ EngineRollback(h)

Next ==
  \E h \in Handle :
    \/ Enter(h) \/ Leave(h) \/ Commit(h) \/ CommitError(h)
    \/ RollbackOwner(h) \/ RollbackNested(h)
    \/ Issue(h) \/ Answer(h)

Spec == Init /\ [][Next]_vars

(***************************************************************************)
(* A call of SQLite returns: it is granted or the busy handler gives up.   *)
(* A scope is a C++ block that runs a finite list of statements, so a      *)
(* guard that can be destroyed again and again is destroyed in the end.    *)
(***************************************************************************)
Fairness ==
  \A h \in Handle :
    /\ WF_vars(Answer(h))
    /\ WF_vars(Commit(h))
    /\ \A n \in 1 .. MaxDepth : SF_vars(Leave(h) /\ Len(guards[h]) = n)

FairSpec == Spec /\ Fairness

-----------------------------------------------------------------------------
(***************************************************************************)
(* Properties.                                                             *)
(***************************************************************************)
\* The variables keep their types.
TypeOK ==
  /\ file \subseteq Row
  /\ lock \in [Handle -> {"none", "shared", "reserved", "pending"}]
  /\ base \in [Handle -> SUBSET Row]
  /\ work \in [Handle -> SUBSET Row]
  /\ call \in [Handle -> {"none", "read", "write", "commit"}]
  /\ intx \in [Handle -> BOOLEAN]
  /\ database \in [Handle -> BOOLEAN]
  /\ guards \in [Handle -> Seq(Guard)]

\* What a scope has read is still what the file holds, however long the scope
\* lasts and whoever else commits: no scope stores rows computed from an old
\* file (ReadModel, Exists followed by Insert, AddTest's compare and insert).
SnapshotCurrent == \A h \in Handle : lock[h] # "none" => base[h] = file

\* A connection is open exactly as long as one live guard is there that has
\* opened it and will close it: no scope leaks a connection, a lock or a
\* transaction, and none closes the connection of an outer scope.
Owners(h) == {i \in 1 .. Len(guards[h]) : guards[h][i].own /\ guards[h][i].ok}

OneOwner ==
  \A h \in Handle :
    /\ database[h] => \E i \in Owners(h) : Owners(h) = {i}
    /\ ~database[h] => Owners(h) = {} /\ lock[h] = "none"

\* Whoever asks IsOk() of a guard and gets true may issue statements: the
\* connection is open, also for the guards around one that has rolled back.
OkMeansOpen ==
  \A h \in Handle : \A i \in 1 .. Len(guards[h]) : guards[h][i].ok => database[h]

\* The guards and the locks together give every scope an atomic, serialised
\* transaction: the detailed system implements TransactionStore.
Store == INSTANCE TransactionStore WITH
  store <- file,
  scopes <- {h \in Handle : database[h]},
  broken <- {h \in Handle : database[h] /\ ~intx[h]},
  active <- {h \in Handle : lock[h] # "none"},
  snap <- base,
  view <- work

StoreSpec == Store!Spec

\* Every scope ends, and with it its transaction: no two scopes on the file
\* wait for each other for ever.
ScopeEnds == \A h \in Handle : database[h] ~> ~database[h]
=============================================================================
