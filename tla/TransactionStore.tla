-------------------------- MODULE TransactionStore --------------------------
(***************************************************************************)
(* What a database file promises to the IDatabase objects that work on it. *)
(* A handle opens a scope, works on a private view of the stored rows and  *)
(* ends the scope in one step: either the whole view replaces the store,   *)
(* and then the store is still the one the view was taken from, or nothing *)
(* of it remains.  A scope whose transaction the engine has thrown away    *)
(* (disk full, I/O error) is broken: each later statement of it is a       *)
(* transaction of its own.                                                 *)
(***************************************************************************)
CONSTANTS Handle, Row

VARIABLES
  store,    \* the stored rows
  scopes,   \* the handles that are inside a scope
  broken,   \* the scopes that have lost their transaction
  active,   \* the handles that have looked at the store in their scope
  snap,     \* the store as each active handle found it
  view      \* the rows each active handle would store

vars == <<store, scopes, broken, active, snap, view>>

\* What one statement can make of a set of rows: a query, a delete that keeps
\* some of them, an insert of one, an update.
Edits(rows) == {new \in SUBSET Row : \A r, s \in new \ rows : r = s}

Init ==
  /\ store \in SUBSET Row
  /\ scopes = {} /\ broken = {} /\ active = {}
  /\ snap = [h \in Handle |-> {}]
  /\ view = [h \in Handle |-> {}]

Start(h) ==
  /\ h \notin scopes
  /\ scopes' = scopes \cup {h}
  /\ UNCHANGED <<store, broken, active, snap, view>>

\* The first statement of a scope fixes the store the scope is about.
FirstStatement(h) ==
  /\ h \in scopes \ (active \cup broken)
  /\ active' = active \cup {h}
  /\ snap' = [snap EXCEPT ![h] = store]
  /\ \E v \in Edits(store) : view' = [view EXCEPT ![h] = v]
  /\ UNCHANGED <<store, scopes, broken>>

Statement(h) ==
  /\ h \in active
  /\ \E v \in Edits(view[h]) : view' = [view EXCEPT ![h] = v]
  /\ UNCHANGED <<store, scopes, broken, active, snap>>

Break(h) ==
  /\ h \in scopes \ broken
  /\ broken' = broken \cup {h}
  /\ active' = active \ {h}
  /\ snap' = [snap EXCEPT ![h] = {}]
  /\ view' = [view EXCEPT ![h] = {}]
  /\ UNCHANGED <<store, scopes>>

\* A broken scope stores statement by statement.
LoneStatement(h) ==
  /\ h \in broken
  /\ store' \in Edits(store)
  /\ UNCHANGED <<scopes, broken, active, snap, view>>

End(h) ==
  /\ h \in scopes
  /\ scopes' = scopes \ {h}
  /\ broken' = broken \ {h}
  /\ active' = active \ {h}
  /\ snap' = [snap EXCEPT ![h] = {}]
  /\ view' = [view EXCEPT ![h] = {}]

Commit(h) ==
  /\ End(h)
  /\ h \in active
  /\ snap[h] = store
  /\ store' = view[h]

Abort(h) == End(h) /\ store' = store

Next ==
  \E h \in Handle :
    \/ Start(h) \/ FirstStatement(h) \/ Statement(h)
    \/ Break(h) \/ LoneStatement(h)
    \/ Commit(h) \/ Abort(h)

Spec == Init /\ [][Next]_vars
=============================================================================
