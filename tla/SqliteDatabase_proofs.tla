----------------------- MODULE SqliteDatabase_proofs -----------------------
(***************************************************************************)
(* Theorems of SqliteDatabase, for any number of handles, rows and nested  *)
(* guards: the types, SnapshotCurrent, OneOwner, OkMeansOpen, and the          *)
(* refinement of TransactionStore.                                         *)
(***************************************************************************)
EXTENDS SqliteDatabase, SequenceTheorems, TLAPS

\* A transaction lives inside an open connection, a lock inside a transaction,
\* a view behind a lock; a call is made on an open connection only.
ScopeInv ==
  \A h \in Handle :
    /\ lock[h] # "none" => intx[h]
    /\ lock[h] = "none" => base[h] = {} /\ work[h] = {}
    /\ intx[h] => database[h]
    /\ call[h] # "none" => database[h]
    /\ call[h] = "commit" => lock[h] = "pending"

IInv == TypeOK /\ ScopeInv /\ SnapshotCurrent

-----------------------------------------------------------------------------
\* What each constructor of guards does to the stacks keeps their type.
LEMMA GuardsPush ==
  ASSUME guards \in [Handle -> Seq(Guard)], NEW h \in Handle,
         NEW own \in BOOLEAN, NEW ok \in BOOLEAN, Push(h, own, ok)
  PROVE  guards' \in [Handle -> Seq(Guard)]
<1> DEFINE g == [own |-> own, ok |-> ok]
<1>1. g \in Guard
  BY DEF Guard
<1>2. Append(guards[h], g) \in Seq(Guard)
  BY <1>1, AppendProperties
<1> QED
  BY <1>2 DEF Push

LEMMA GuardsPop ==
  ASSUME guards \in [Handle -> Seq(Guard)], NEW h \in Handle, guards[h] # <<>>
  PROVE  Pop(h) \in Seq(Guard)
<1>1. guards[h] \in Seq(Guard) /\ Len(guards[h]) \in Nat /\ Len(guards[h]) # 0
  BY EmptySeq, LenProperties
<1>2. \A i \in 1 .. Len(guards[h]) - 1 : guards[h][i] \in Guard
  BY <1>1, ElementOfSeq
<1> QED
  BY <1>1, <1>2, SubSeqProperties DEF Pop

LEMMA GuardsTop ==
  ASSUME guards \in [Handle -> Seq(Guard)], NEW h \in Handle, guards[h] # <<>>
  PROVE  /\ Len(guards[h]) \in 1 .. Len(guards[h])
         /\ Top(h) \in Guard
<1>1. guards[h] \in Seq(Guard) /\ Len(guards[h]) \in Nat /\ Len(guards[h]) # 0
  BY EmptySeq, LenProperties
<1> QED
  BY <1>1, ElementOfSeq DEF Top

LEMMA GuardsReplace ==
  ASSUME guards \in [Handle -> Seq(Guard)], NEW h \in Handle, guards[h] # <<>>,
         NEW g \in Guard
  PROVE  [guards[h] EXCEPT ![Len(guards[h])] = g] \in Seq(Guard)
BY GuardsTop, ExceptSeq

LEMMA GuardsStep ==
  ASSUME guards \in [Handle -> Seq(Guard)], [Next]_vars
  PROVE  guards' \in [Handle -> Seq(Guard)]
<1>1. CASE UNCHANGED vars
  BY <1>1 DEF vars
<1>2. ASSUME NEW h \in Handle, Enter(h)
      PROVE  guards' \in [Handle -> Seq(Guard)]
  BY <1>2, GuardsPush DEF Enter, EnterOwner, EnterFailed, EnterNested
<1>3. ASSUME NEW h \in Handle, Leave(h)
      PROVE  guards' \in [Handle -> Seq(Guard)]
  <2>1. \/ guards' = [guards EXCEPT ![h] = Pop(h)] /\ guards[h] # <<>>
        \/ guards' = guards
    BY <1>3 DEF Leave, LeaveNested, LeaveClean, LeaveCommit
  <2> QED
    BY <2>1, GuardsPop
<1>4. ASSUME NEW h \in Handle, Commit(h) \/ CommitError(h)
      PROVE  guards' \in [Handle -> Seq(Guard)]
  <2>1. guards' = [guards EXCEPT ![h] = Pop(h)]
    BY <1>4 DEF Commit, CommitDone, CommitBusy, CommitError, CommitLost
  <2>2. Pop(h) \in Seq(Guard)
    <3>1. CASE guards[h] # <<>>
      BY <3>1, GuardsPop
    <3>2. CASE guards[h] = <<>>
      BY <3>2 DEF Pop
    <3> QED
      BY <3>1, <3>2
  <2> QED
    BY <2>1, <2>2
<1>5. ASSUME NEW h \in Handle, RollbackOwner(h)
      PROVE  guards' \in [Handle -> Seq(Guard)]
  <2>1. [own |-> FALSE, ok |-> FALSE] \in Guard
    BY DEF Guard
  <2>2. [guards[h] EXCEPT ![Len(guards[h])] = [own |-> FALSE, ok |-> FALSE]] \in Seq(Guard)
    BY <1>5, <2>1, GuardsReplace DEF RollbackOwner
  <2> QED
    BY <1>5, <2>2 DEF RollbackOwner
<1>6. ASSUME NEW h \in Handle, RollbackNested(h)
      PROVE  guards' \in [Handle -> Seq(Guard)]
  <2>1. [Top(h) EXCEPT !.ok = FALSE] \in Guard
    BY <1>6, GuardsTop DEF RollbackNested, Guard
  <2>2. [guards[h] EXCEPT ![Len(guards[h])] = [Top(h) EXCEPT !.ok = FALSE]] \in Seq(Guard)
    BY <1>6, <2>1, GuardsReplace DEF RollbackNested
  <2> QED
    BY <1>6, <2>2 DEF RollbackNested, Top
<1>7. ASSUME NEW h \in Handle, Issue(h) \/ Answer(h)
      PROVE  guards' \in [Handle -> Seq(Guard)]
  BY <1>7 DEF Issue, Answer, Read, Write, LoneWrite, Busy, EngineRollback
<1> QED
  BY <1>1, <1>2, <1>3, <1>4, <1>5, <1>6, <1>7 DEF Next

\* Closing the connection of one handle leaves the other handles alone.
LEMMA CloseStep ==
  ASSUME IInv, NEW h \in Handle, CloseConnection(h), file' = file,
         guards' \in [Handle -> Seq(Guard)]
  PROVE  IInv'
BY DEF IInv, TypeOK, ScopeInv, SnapshotCurrent, CloseConnection, DropLock

LEMMA Inductive == IInv /\ [Next]_vars => IInv'
<1> SUFFICES ASSUME IInv, [Next]_vars
             PROVE  IInv'
  OBVIOUS
<1>g. guards' \in [Handle -> Seq(Guard)]
  BY GuardsStep DEF IInv, TypeOK
<1>1. CASE UNCHANGED vars
  BY <1>1 DEF vars, IInv, TypeOK, ScopeInv, SnapshotCurrent
<1>2. ASSUME NEW h \in Handle, Enter(h)
      PROVE  IInv'
  <2>1. CASE EnterOwner(h)
    <3>1. database' \in [Handle -> BOOLEAN] /\ intx' \in [Handle -> BOOLEAN]
      BY <2>1 DEF EnterOwner, Open, IInv, TypeOK
    <3>2. TypeOK' /\ SnapshotCurrent'
      BY <2>1, <3>1, <1>g DEF EnterOwner, engine, IInv, TypeOK, SnapshotCurrent
    <3>3. \A g \in Handle : g # h => database'[g] = database[g] /\ intx'[g] = intx[g]
      BY <2>1 DEF EnterOwner, Open, IInv, TypeOK
    <3>4. database'[h] /\ intx'[h]
      BY <2>1 DEF EnterOwner, Open, IInv, TypeOK
    <3>5. ScopeInv'
      BY <2>1, <3>3, <3>4 DEF EnterOwner, Idle, engine, IInv, ScopeInv
    <3> QED
      BY <3>2, <3>5 DEF IInv
  <2>2. CASE EnterFailed(h) \/ EnterNested(h)
    <3>1. UNCHANGED <<engine, call, intx, database>>
      BY <2>2 DEF EnterFailed, EnterNested
    <3> QED
      BY <3>1, <1>g DEF engine, IInv, TypeOK, ScopeInv, SnapshotCurrent
  <2> QED
    BY <1>2, <2>1, <2>2 DEF Enter
<1>3. ASSUME NEW h \in Handle, Leave(h)
      PROVE  IInv'
  <2>1. CASE LeaveNested(h)
    BY <2>1, <1>g DEF LeaveNested, engine, IInv, TypeOK, ScopeInv, SnapshotCurrent
  <2>2. CASE LeaveClean(h)
    BY <2>2, <1>g, CloseStep DEF LeaveClean
  <2>3. CASE LeaveCommit(h)
    BY <2>3, <1>g DEF LeaveCommit, Idle, IInv, TypeOK, ScopeInv, SnapshotCurrent
  <2> QED
    BY <1>3, <2>1, <2>2, <2>3 DEF Leave
<1>4. ASSUME NEW h \in Handle, Commit(h) \/ CommitError(h)
      PROVE  IInv'
  <2>1. CASE CommitDone(h)
    <3>1. \A g \in Handle : lock'[g] = "none"
      BY <2>1 DEF CommitDone, CanExclude, Others, CloseConnection, DropLock, IInv, TypeOK
    <3> QED
      BY <2>1, <3>1, <1>g DEF CommitDone, CloseConnection, DropLock,
                              IInv, TypeOK, ScopeInv, SnapshotCurrent
  <2>2. CASE CommitBusy(h) \/ CommitError(h)
    BY <2>2, <1>g, CloseStep DEF CommitBusy, CommitError, CommitLost
  <2> QED
    BY <1>4, <2>1, <2>2 DEF Commit
<1>5. ASSUME NEW h \in Handle, RollbackOwner(h)
      PROVE  IInv'
  BY <1>5, <1>g, CloseStep DEF RollbackOwner
<1>6. ASSUME NEW h \in Handle, RollbackNested(h)
      PROVE  IInv'
  BY <1>6, <1>g DEF RollbackNested, engine, IInv, TypeOK, ScopeInv, SnapshotCurrent
<1>7. ASSUME NEW h \in Handle, Issue(h)
      PROVE  IInv'
  BY <1>7, <1>g DEF Issue, Idle, engine, IInv, TypeOK, ScopeInv, SnapshotCurrent
<1>8. ASSUME NEW h \in Handle, Answer(h)
      PROVE  IInv'
  <2>1. CASE Read(h)
    <3>1. CASE intx[h] /\ lock[h] = "none"
      <4>1. Work(h, "shared", file)
        BY <2>1, <3>1 DEF Read, View
      <4> QED
        BY <2>1, <3>1, <4>1, <1>g DEF Read, Work, IInv, TypeOK, ScopeInv, SnapshotCurrent
    <3>3. CASE intx[h] /\ lock[h] # "none"
      <4>1. Work(h, lock[h], work[h])
        BY <2>1, <3>3 DEF Read, View
      <4> QED
        BY <2>1, <3>3, <4>1, <1>g DEF Read, Work, IInv, TypeOK, ScopeInv, SnapshotCurrent
    <3>2. CASE ~intx[h]
      BY <2>1, <3>2, <1>g DEF Read, engine, IInv, TypeOK, ScopeInv, SnapshotCurrent
    <3> QED
      BY <3>1, <3>2, <3>3
  <2>2. CASE Write(h)
    <3>1. PICK rows \in Edits(View(h)) : Work(h, "reserved", rows)
      BY <2>2 DEF Write
    <3>2. rows \subseteq Row
      BY <3>1 DEF Edits
    <3> QED
      BY <2>2, <3>1, <3>2, <1>g DEF Write, Work, IInv, TypeOK, ScopeInv, SnapshotCurrent
  <2>3. CASE LoneWrite(h)
    <3>1. \A g \in Handle : lock[g] = "none"
      BY <2>3 DEF LoneWrite, CanExclude, Others, IInv, ScopeInv
    <3>2. file' \subseteq Row
      BY <2>3 DEF LoneWrite, Edits
    <3> QED
      BY <2>3, <3>1, <3>2, <1>g DEF LoneWrite, IInv, TypeOK, ScopeInv, SnapshotCurrent
  <2>4. CASE Busy(h)
    BY <2>4, <1>g DEF Busy, engine, IInv, TypeOK, ScopeInv, SnapshotCurrent
  <2>5. CASE EngineRollback(h)
    BY <2>5, <1>g DEF EngineRollback, DropLock, IInv, TypeOK, ScopeInv, SnapshotCurrent
  <2> QED
    BY <1>8, <2>1, <2>2, <2>3, <2>4, <2>5 DEF Answer
<1> QED
  BY <1>1, <1>2, <1>3, <1>4, <1>5, <1>6, <1>7, <1>8 DEF Next

LEMMA Initial == Init => IInv
<1>1. <<>> \in Seq(Guard)
  BY EmptySeq
<1> QED
  BY <1>1 DEF Init, IInv, TypeOK, ScopeInv, SnapshotCurrent

LEMMA Invariance == Spec => []IInv
BY Initial, Inductive, PTL DEF Spec

-----------------------------------------------------------------------------
\* The variables of the database handles keep their types.
THEOREM TypeCorrect == Spec => []TypeOK
<1>1. IInv => TypeOK
  BY DEF IInv
<1> QED
  BY <1>1, Invariance, PTL

\* Whatever a scope has read is still in the file when the scope stores what it
\* has made of it: no lost update between any number of handles.
THEOREM ScopesSeeTheCurrentFile == Spec => []SnapshotCurrent
<1>1. IInv => SnapshotCurrent
  BY DEF IInv
<1> QED
  BY <1>1, Invariance, PTL

-----------------------------------------------------------------------------
(***************************************************************************)
(* The refinement.  The sets of handles that TransactionStore keeps:       *)
(***************************************************************************)
Scopes == {h \in Handle : database[h]}
Broken == {h \in Handle : database[h] /\ ~intx[h]}
Active == {h \in Handle : lock[h] # "none"}

\* Closing a connection is the end of its scope.
LEMMA CloseIsEnd ==
  ASSUME IInv, NEW h \in Handle, CloseConnection(h), database[h]
  PROVE  Store!End(h)
<1>1. Scopes' = Scopes \ {h} /\ h \in Scopes
  BY DEF Scopes, CloseConnection, IInv, TypeOK
<1>2. Broken' = Broken \ {h}
  BY DEF Broken, CloseConnection, IInv, TypeOK
<1>3. Active' = Active \ {h}
  BY DEF Active, CloseConnection, DropLock, IInv, TypeOK
<1> QED
  BY <1>1, <1>2, <1>3 DEF Scopes, Broken, Active, CloseConnection, DropLock, Store!End

\* A closed handle has nothing to end.
LEMMA CloseIsStutter ==
  ASSUME IInv, NEW h \in Handle, CloseConnection(h), ~database[h], file' = file
  PROVE  UNCHANGED Store!vars
<1>1. lock' = lock /\ base' = base /\ work' = work /\ lock[h] = "none"
  BY DEF IInv, TypeOK, ScopeInv, CloseConnection, DropLock
<1>2. Scopes' = Scopes
  BY DEF Scopes, CloseConnection, IInv, TypeOK
<1>3. Broken' = Broken
  BY DEF Broken, CloseConnection, IInv, TypeOK
<1> QED
  BY <1>1, <1>2, <1>3 DEF Scopes, Broken, Store!vars

LEMMA CloseIsAbort ==
  ASSUME IInv, NEW h \in Handle, CloseConnection(h), file' = file
  PROVE  Store!Next \/ UNCHANGED Store!vars
BY CloseIsEnd, CloseIsStutter DEF Store!Abort, Store!Next

\* A statement inside a transaction: the first one of its scope or a later one.
LEMMA WorkIsStatement ==
  ASSUME IInv, NEW h \in Handle, NEW rows \in Edits(View(h)),
         NEW level \in {"shared", "reserved", "pending"}, Work(h, level, rows),
         intx[h], UNCHANGED <<intx, database>>
  PROVE  Store!Next
<1>1. Active' = Active \cup {h}
  BY DEF Active, Work, IInv, TypeOK
<1>2. h \in Scopes \ Broken
  BY DEF Scopes, Broken, IInv, ScopeInv
<1>3. Scopes' = Scopes /\ Broken' = Broken
  BY DEF Scopes, Broken
<1>4. CASE lock[h] = "none"
  <2>1. rows \in Store!Edits(file)
    BY <1>4 DEF View, Edits, Store!Edits
  <2>2. h \notin Active
    BY <1>4 DEF Active
  <2>3. Store!FirstStatement(h)
    BY <1>1, <1>2, <1>3, <1>4, <2>1, <2>2
       DEF Work, Scopes, Broken, Active, Store!FirstStatement
  <2> QED
    BY <2>3 DEF Store!Next
<1>5. CASE lock[h] # "none"
  <2>1. rows \in Store!Edits(work[h])
    BY <1>5 DEF View, Edits, Store!Edits
  <2>2. h \in Active /\ base' = base
    BY <1>5 DEF Active, Work, IInv, TypeOK
  <2>3. Store!Statement(h)
    BY <1>1, <1>3, <2>1, <2>2 DEF Work, Scopes, Broken, Active, Store!Statement
  <2> QED
    BY <2>3 DEF Store!Next
<1> QED
  BY <1>4, <1>5

LEMMA StepRefines == IInv /\ [Next]_vars => [Store!Next]_(Store!vars)
<1> SUFFICES ASSUME IInv, [Next]_vars
             PROVE  Store!Next \/ UNCHANGED Store!vars
  OBVIOUS
<1>1. ASSUME UNCHANGED <<engine, intx, database>>
      PROVE  UNCHANGED Store!vars
  BY <1>1 DEF engine, Store!vars
<1>2. CASE UNCHANGED vars
  BY <1>1, <1>2 DEF vars, engine
<1>3. ASSUME NEW h \in Handle, Enter(h)
      PROVE  Store!Next \/ UNCHANGED Store!vars
  <2>1. CASE EnterOwner(h)
    <3>1. h \notin Scopes /\ Scopes' = Scopes \cup {h}
      BY <2>1 DEF EnterOwner, Open, Scopes, IInv, TypeOK
    <3>2. Broken' = Broken
      BY <2>1 DEF EnterOwner, Open, Broken, IInv, TypeOK
    <3>3. Store!Start(h)
      BY <2>1, <3>1, <3>2 DEF EnterOwner, engine, Scopes, Broken, Store!Start
    <3> QED
      BY <3>3 DEF Store!Next
  <2>2. CASE EnterFailed(h) \/ EnterNested(h)
    BY <1>1, <2>2 DEF EnterFailed, EnterNested
  <2> QED
    BY <1>3, <2>1, <2>2 DEF Enter
<1>4. ASSUME NEW h \in Handle, Leave(h)
      PROVE  Store!Next \/ UNCHANGED Store!vars
  <2>1. CASE LeaveNested(h)
    BY <1>1, <2>1 DEF LeaveNested
  <2>2. CASE LeaveClean(h)
    BY <2>2, CloseIsAbort DEF LeaveClean
  <2>3. CASE LeaveCommit(h)
    <3>1. Active' = Active
      BY <2>3 DEF LeaveCommit, Active, IInv, TypeOK
    <3> QED
      BY <2>3, <3>1 DEF LeaveCommit, Active, Store!vars
  <2> QED
    BY <1>4, <2>1, <2>2, <2>3 DEF Leave
<1>5. ASSUME NEW h \in Handle, Commit(h) \/ CommitError(h)
      PROVE  Store!Next \/ UNCHANGED Store!vars
  <2>1. CASE CommitDone(h)
    <3>1. database[h] /\ h \in Active /\ base[h] = file
      BY <2>1 DEF CommitDone, Active, IInv, ScopeInv, SnapshotCurrent
    <3>2. Store!Commit(h)
      BY <2>1, <3>1, CloseIsEnd DEF CommitDone, Active, Store!Commit
    <3> QED
      BY <3>2 DEF Store!Next
  <2>2. CASE CommitBusy(h) \/ CommitError(h)
    BY <2>2, CloseIsAbort DEF CommitBusy, CommitError, CommitLost
  <2> QED
    BY <1>5, <2>1, <2>2 DEF Commit
<1>6. ASSUME NEW h \in Handle, RollbackOwner(h)
      PROVE  Store!Next \/ UNCHANGED Store!vars
  BY <1>6, CloseIsAbort DEF RollbackOwner
<1>7. ASSUME NEW h \in Handle, RollbackNested(h) \/ Issue(h)
      PROVE  Store!Next \/ UNCHANGED Store!vars
  BY <1>1, <1>7 DEF RollbackNested, Issue
<1>8. ASSUME NEW h \in Handle, Answer(h)
      PROVE  Store!Next \/ UNCHANGED Store!vars
  <2>1. CASE Read(h)
    <3>1. CASE intx[h]
      <4>1. View(h) \in Edits(View(h))
        BY DEF Edits, View, IInv, TypeOK
      <4>2. (IF lock[h] = "none" THEN "shared" ELSE lock[h]) \in {"shared", "reserved", "pending"}
        BY DEF IInv, TypeOK
      <4> QED
        BY <2>1, <3>1, <4>1, <4>2, WorkIsStatement DEF Read
    <3>2. CASE ~intx[h]
      BY <1>1, <2>1, <3>2 DEF Read
    <3> QED
      BY <3>1, <3>2
  <2>2. CASE Write(h)
    BY <2>2, WorkIsStatement DEF Write
  <2>3. CASE LoneWrite(h)
    <3>1. h \in Broken
      BY <2>3 DEF LoneWrite, Broken, IInv, ScopeInv
    <3>2. Store!LoneStatement(h)
      BY <2>3, <3>1 DEF LoneWrite, Broken, Edits, Store!Edits, Store!LoneStatement
    <3> QED
      BY <3>2 DEF Store!Next
  <2>4. CASE Busy(h)
    BY <1>1, <2>4 DEF Busy
  <2>5. CASE EngineRollback(h)
    <3>1. h \in Scopes \ Broken /\ Broken' = Broken \cup {h} /\ Scopes' = Scopes
      BY <2>5 DEF EngineRollback, Scopes, Broken, IInv, TypeOK, ScopeInv
    <3>2. Active' = Active \ {h}
      BY <2>5 DEF EngineRollback, DropLock, Active, IInv, TypeOK
    <3>3. Store!Break(h)
      BY <2>5, <3>1, <3>2 DEF EngineRollback, DropLock, Scopes, Broken, Active, Store!Break
    <3> QED
      BY <3>3 DEF Store!Next
  <2> QED
    BY <1>8, <2>1, <2>2, <2>3, <2>4, <2>5 DEF Answer
<1> QED
  BY <1>2, <1>3, <1>4, <1>5, <1>6, <1>7, <1>8 DEF Next

\* The guards and the locks implement the atomic, serialised transactions of
\* TransactionStore, whatever the number of handles and however deep they nest.
THEOREM ImplementsTransactionStore == Spec => StoreSpec
<1>1. Init => Store!Init
  BY DEF Init, Store!Init
<1> QED
  BY <1>1, Invariance, StepRefines, PTL DEF Spec, StoreSpec, Store!Spec

-----------------------------------------------------------------------------
(***************************************************************************)
(* The guards of a handle.  A guard that opened the connection, or tried   *)
(* to, lies below every guard that says ok; so the innermost guard, if it  *)
(* is an owner, is the only one that says ok.                              *)
(***************************************************************************)
Stack(s, open) ==
  /\ \A i \in 1 .. Len(s) : s[i].ok => open
  /\ open => \E i \in 1 .. Len(s) : s[i].own /\ s[i].ok
  /\ \A i, j \in 1 .. Len(s) : s[i].own /\ s[j].ok => i <= j

GuardInv ==
  \A h \in Handle :
    /\ Stack(guards[h], database[h])
    /\ call[h] = "commit" => guards[h] # <<>> /\ Top(h).own

LEMMA StackPush ==
  ASSUME NEW s \in Seq(Guard), NEW open \in BOOLEAN, Stack(s, open),
         NEW own \in BOOLEAN, NEW ok \in BOOLEAN,
         own => ~open, ok => own \/ open
  PROVE  Stack(Append(s, [own |-> own, ok |-> ok]), open \/ ok)
<1> DEFINE t == Append(s, [own |-> own, ok |-> ok])
           n == Len(s)
<1>1. n \in Nat /\ Len(t) = n + 1 /\ t[n + 1] = [own |-> own, ok |-> ok]
      /\ \A i \in 1 .. n : t[i] = s[i]
  BY AppendProperties, LenProperties
<1>2. 1 .. Len(t) = (1 .. n) \cup {n + 1}
  BY <1>1
<1> HIDE DEF t
<1>3. \A i \in 1 .. Len(t) : t[i].ok => open \/ ok
  BY <1>1, <1>2 DEF Stack
<1>4. open \/ ok => \E i \in 1 .. Len(t) : t[i].own /\ t[i].ok
  BY <1>1, <1>2 DEF Stack
<1>5. \A i, j \in 1 .. Len(t) : t[i].own /\ t[j].ok => i <= j
  BY <1>1, <1>2 DEF Stack
<1> QED
  BY <1>3, <1>4, <1>5 DEF Stack, t

\* Closing by an owner, which takes its guard away or makes it say no.
LEMMA StackClose ==
  ASSUME NEW s \in Seq(Guard), NEW open \in BOOLEAN, Stack(s, open),
         s # <<>>, s[Len(s)].own
  PROVE  /\ Stack(SubSeq(s, 1, Len(s) - 1), FALSE)
         /\ Stack([s EXCEPT ![Len(s)] = [own |-> FALSE, ok |-> FALSE]], FALSE)
<1> DEFINE n == Len(s)
           p == SubSeq(s, 1, n - 1)
           c == [s EXCEPT ![n] = [own |-> FALSE, ok |-> FALSE]]
<1>1. n \in Nat \ {0}
  BY EmptySeq, LenProperties
<1>2. \A i \in 1 .. n - 1 : ~s[i].ok
  BY <1>1 DEF Stack
<1>3. Len(p) = n - 1 /\ \A i \in 1 .. n - 1 : p[i] = s[i]
  <2>1. n \in Nat \ {0} /\ \A i \in 1 .. n : s[i] \in Guard
    BY <1>1, ElementOfSeq
  <2>2. /\ Len(p) = IF 1 <= n - 1 THEN (n - 1) - 1 + 1 ELSE 0
        /\ \A i \in 1 .. (n - 1) - 1 + 1 : p[i] = s[1 + i - 1]
    <3>1. 1 \in Int /\ n - 1 \in Int /\ \A i \in 1 .. n - 1 : s[i] \in Guard
      BY <2>1
    <3> HIDE DEF n
    <3> QED
      BY <3>1, SubSeqProperties
  <2> HIDE DEF n, p
  <2> QED
    BY <2>1, <2>2
<1>4. Len(c) = n /\ \A i \in 1 .. n : ~c[i].ok
  BY <1>1, <1>2, ExceptSeq
<1> QED
  BY <1>2, <1>3, <1>4 DEF Stack

\* A nested guard that is taken away or rolled back.
LEMMA StackNested ==
  ASSUME NEW s \in Seq(Guard), NEW open \in BOOLEAN, Stack(s, open),
         s # <<>>, ~s[Len(s)].own
  PROVE  /\ Stack(SubSeq(s, 1, Len(s) - 1), open)
         /\ Stack([s EXCEPT ![Len(s)].ok = FALSE], open)
<1> DEFINE n == Len(s)
           p == SubSeq(s, 1, n - 1)
           c == [s EXCEPT ![n].ok = FALSE]
<1>1. n \in Nat \ {0} /\ \A i \in 1 .. n : s[i] \in Guard
  BY EmptySeq, LenProperties, ElementOfSeq
<1>2. open => \E i \in 1 .. n - 1 : s[i].own /\ s[i].ok
  BY <1>1 DEF Stack
<1>3. Len(p) = n - 1 /\ \A i \in 1 .. n - 1 : p[i] = s[i]
  BY <1>1, SubSeqProperties
<1>4. Stack(p, open)
  BY <1>1, <1>2, <1>3, SMTT(30) DEF Stack
<1>5. Len(c) = n /\ \A i \in 1 .. n : c[i] = IF i = n THEN [s[n] EXCEPT !.ok = FALSE] ELSE s[i]
  BY <1>1, ExceptSeq DEF Guard
<1>6. ~c[n].own /\ ~c[n].ok /\ \A i \in 1 .. n - 1 : c[i] = s[i]
  BY <1>1, <1>5 DEF Guard
<1>7. Stack(c, open)
  BY <1>1, <1>2, <1>5, <1>6 DEF Stack
<1> QED
  BY <1>4, <1>7

-----------------------------------------------------------------------------
\* A step of one handle leaves the guards of the others as they are.
LEMMA GuardInvOf ==
  ASSUME GuardInv, NEW h \in Handle,
         \A g \in Handle \ {h} :
           guards'[g] = guards[g] /\ database'[g] = database[g] /\ call'[g] = call[g],
         Stack(guards'[h], database'[h]),
         call'[h] = "commit" => guards'[h] # <<>> /\ Top(h)'.own
  PROVE  GuardInv'
BY DEF GuardInv, Top

LEMMA GuardsClose ==
  ASSUME IInv, GuardInv, NEW h \in Handle, CloseConnection(h), guards[h] # <<>>, Top(h).own,
         \/ guards' = [guards EXCEPT ![h] = Pop(h)]
         \/ guards' = [guards EXCEPT ![h][Len(guards[h])] = [own |-> FALSE, ok |-> FALSE]]
  PROVE  GuardInv'
<1>1. guards[h] \in Seq(Guard) /\ database[h] \in BOOLEAN /\ Stack(guards[h], database[h])
  BY DEF IInv, TypeOK, GuardInv
<1>2. Stack(guards'[h], FALSE)
  BY <1>1, StackClose DEF Pop, Top, IInv, TypeOK
<1>3. ~database'[h] /\ database' \in [Handle -> BOOLEAN] /\ call'[h] = "none"
      /\ \A g \in Handle \ {h} : database'[g] = database[g] /\ call'[g] = call[g]
  BY DEF CloseConnection, IInv, TypeOK
<1>4. Stack(guards'[h], database'[h])
  BY <1>2, <1>3
<1>5. \A g \in Handle \ {h} : guards'[g] = guards[g]
  BY DEF IInv, TypeOK
<1> QED
  BY <1>3, <1>4, <1>5, GuardInvOf

LEMMA GuardsInductive == IInv /\ GuardInv /\ [Next]_vars => GuardInv'
<1> SUFFICES ASSUME IInv, GuardInv, [Next]_vars
             PROVE  GuardInv'
  OBVIOUS
<1>t. /\ \A h \in Handle : guards[h] \in Seq(Guard) /\ database[h] \in BOOLEAN
                           /\ Stack(guards[h], database[h])
      /\ guards \in [Handle -> Seq(Guard)] /\ database \in [Handle -> BOOLEAN]
      /\ DOMAIN call = Handle
  BY DEF IInv, TypeOK, GuardInv
<1>1. CASE UNCHANGED vars
  BY <1>1 DEF vars, GuardInv, Top
<1>2. ASSUME NEW h \in Handle, Enter(h)
      PROVE  GuardInv'
  <2>1. call' = call /\ call[h] = "none"
    BY <1>2 DEF Enter, EnterOwner, EnterFailed, EnterNested, Idle
  <2>2. \A g \in Handle \ {h} : guards'[g] = guards[g] /\ database'[g] = database[g]
    BY <1>2, <1>t DEF Enter, EnterOwner, EnterFailed, EnterNested, Open, Push
  <2>3. CASE EnterOwner(h)
    <3>1. guards'[h] = Append(guards[h], [own |-> TRUE, ok |-> TRUE]) /\ database'[h] /\ ~database[h]
      BY <2>3, <1>t DEF EnterOwner, Open, Push
    <3>2. Stack(guards'[h], database[h] \/ TRUE)
      BY <3>1, <1>t, StackPush
    <3>3. database'[h] = (database[h] \/ TRUE)
      BY <2>3, <1>t DEF EnterOwner, Open
    <3> QED
      BY <2>1, <2>2, <3>2, <3>3, GuardInvOf
  <2>4. CASE EnterFailed(h)
    <3>1. guards'[h] = Append(guards[h], [own |-> TRUE, ok |-> FALSE]) /\ database' = database /\ ~database[h]
      BY <2>4, <1>t DEF EnterFailed, Push
    <3>2. Stack(guards'[h], database[h] \/ FALSE)
      BY <3>1, <1>t, StackPush
    <3>3. database'[h] = (database[h] \/ FALSE)
      BY <3>1, <1>t
    <3> QED
      BY <2>1, <2>2, <3>2, <3>3, GuardInvOf
  <2>5. CASE EnterNested(h)
    <3>1. guards'[h] = Append(guards[h], [own |-> FALSE, ok |-> TRUE]) /\ database' = database /\ database[h]
      BY <2>5, <1>t DEF EnterNested, Push
    <3>2. Stack(guards'[h], database[h] \/ TRUE)
      BY <3>1, <1>t, StackPush
    <3>3. database'[h] = (database[h] \/ TRUE)
      BY <3>1, <1>t
    <3> QED
      BY <2>1, <2>2, <3>2, <3>3, GuardInvOf
  <2> QED
    BY <1>2, <2>3, <2>4, <2>5 DEF Enter
<1>3. ASSUME NEW h \in Handle, LeaveNested(h)
      PROVE  GuardInv'
  <2>1. Stack(Pop(h), database[h])
    BY <1>3, <1>t, StackNested DEF LeaveNested, Pop, Top
  <2> QED
    BY <1>3, <1>t, <2>1, GuardInvOf DEF LeaveNested, Idle
<1>4. ASSUME NEW h \in Handle, LeaveClean(h) \/ RollbackOwner(h)
      PROVE  GuardInv'
  BY <1>4, GuardsClose DEF LeaveClean, RollbackOwner
<1>5. ASSUME NEW h \in Handle, LeaveCommit(h)
      PROVE  GuardInv'
  BY <1>5, <1>t DEF LeaveCommit, GuardInv, Top
<1>6. ASSUME NEW h \in Handle, Commit(h) \/ CommitError(h)
      PROVE  GuardInv'
  <2>1. call[h] = "commit" /\ CloseConnection(h) /\ guards' = [guards EXCEPT ![h] = Pop(h)]
    BY <1>6 DEF Commit, CommitDone, CommitBusy, CommitError, CommitLost
  <2>2. guards[h] # <<>> /\ Top(h).own
    BY <2>1 DEF GuardInv
  <2> QED
    BY <2>1, <2>2, GuardsClose
<1>7. ASSUME NEW h \in Handle, RollbackNested(h)
      PROVE  GuardInv'
  <2>1. Stack([guards[h] EXCEPT ![Len(guards[h])].ok = FALSE], database[h])
    BY <1>7, <1>t, StackNested DEF RollbackNested, Top
  <2>2. guards'[h] = [guards[h] EXCEPT ![Len(guards[h])].ok = FALSE]
    BY <1>7, <1>t DEF RollbackNested
  <2> QED
    BY <1>7, <1>t, <2>1, <2>2, GuardInvOf DEF RollbackNested, Idle
<1>8. ASSUME NEW h \in Handle, Issue(h) \/ Answer(h)
      PROVE  GuardInv'
  <2>1. /\ guards' = guards /\ database' = database
        /\ \A g \in Handle : call'[g] = "commit" => call[g] = "commit"
    BY <1>8, <1>t DEF Issue, Answer, Read, Write, LoneWrite, Busy, EngineRollback
  <2> QED
    BY <2>1 DEF GuardInv, Top
<1> QED
  BY <1>1, <1>2, <1>3, <1>4, <1>5, <1>6, <1>7, <1>8 DEF Next, Leave

LEMMA GuardsInvariance == Spec => [](IInv /\ GuardInv)
<1>1. Init => GuardInv
  BY DEF Init, GuardInv, Stack
<1> QED
  BY <1>1, Initial, Inductive, GuardsInductive, PTL DEF Spec

\* However deep the guards nest and whichever of them roll back, an open
\* connection has exactly one guard that will close it, and a connection that
\* is closed has left no owner and no lock behind.
THEOREM ConnectionsHaveOneOwner == Spec => []OneOwner
<1>1. IInv /\ GuardInv => OneOwner
  <2> SUFFICES ASSUME IInv, GuardInv, NEW h \in Handle
               PROVE  /\ database[h] => \E i \in Owners(h) : Owners(h) = {i}
                      /\ ~database[h] => Owners(h) = {} /\ lock[h] = "none"
    BY DEF OneOwner
  <2>1. Stack(guards[h], database[h]) /\ Len(guards[h]) \in Nat
    BY LenProperties DEF GuardInv, IInv, TypeOK
  <2>2. \A i, j \in Owners(h) : i = j
    BY <2>1 DEF Stack, Owners
  <2>3. database[h] => Owners(h) # {}
    BY <2>1 DEF Stack, Owners
  <2>4. ~database[h] => Owners(h) = {}
    BY <2>1 DEF Stack, Owners
  <2>5. ~database[h] => lock[h] = "none"
    BY DEF IInv, ScopeInv
  <2> QED
    BY <2>2, <2>3, <2>4, <2>5
<1> QED
  BY <1>1, GuardsInvariance, PTL

\* A guard that says ok has an open connection, whatever the guards inside of
\* it have done.
THEOREM OkGuardsAreOpen == Spec => []OkMeansOpen
<1>1. GuardInv => OkMeansOpen
  BY DEF GuardInv, Stack, OkMeansOpen
<1> QED
  BY <1>1, GuardsInvariance, PTL
=============================================================================
