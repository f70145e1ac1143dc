--------------------------- MODULE EventLogDb_proofs ---------------------------
(***************************************************************************)
(* Theorems of EventLogDb, for any inputs, messages, faults and bounds:    *)
(* the worker has a model, references between the stored rows are right,   *)
(* the variables keep their types, and no message is lost but those that   *)
(* a failed open, statement or COMMIT costs.                               *)
(***************************************************************************)
EXTENDS EventLogDb, FiniteSetTheorems, SequenceTheorems, TLAPS

(***************************************************************************)
(* The model.  is_ok_ is set by an Init that has read it and by a worker   *)
(* that a Start with is_ok_ has created; an Init that fails clears is_ok_, *)
(* but never the model.                                                    *)
(***************************************************************************)
ModelInv == (ok => model) /\ (Joinable => model)

LEMMA ModelStep == ModelInv /\ [Next]_vars => ModelInv'
<1> SUFFICES ASSUME ModelInv, [Next]_vars
             PROVE  ModelInv'
  OBVIOUS
<1>1. CASE UNCHANGED vars
  BY <1>1 DEF vars, control, ModelInv, Joinable
<1>2. CASE Receive
  BY <1>2 DEF Receive, control, ModelInv, Joinable
<1>3. CASE InitEnvironment
  <2>1. worker' = worker /\ (model' = model \/ model' = TRUE) /\ (model' = TRUE \/ ok' = FALSE)
    BY <1>3 DEF InitEnvironment
  <2>2. CASE model' = TRUE
    BY <2>1, <2>2, Zenon DEF ModelInv, Joinable
  <2>3. CASE model' = model /\ ok' = FALSE
    BY <2>1, <2>3, Zenon DEF ModelInv, Joinable
  <2> QED
    BY <2>1, <2>2, <2>3
<1>4. CASE AddInput \/ DeleteInput
  <2>1. UNCHANGED control /\ (worker' = worker \/ InPass)
    BY <1>4 DEF AddInput, DeleteInput, Disturb
  <2>2. InPass => Joinable
    BY DEF InPass, Joinable
  <2> QED
    BY <2>1, <2>2 DEF control, ModelInv, Joinable
<1>5. CASE Start
  BY <1>5 DEF Start, ModelInv
<1>6. CASE Stop
  <2>1. UNCHANGED <<model, ok>> /\ (worker' = worker \/ worker.at = "wait")
    BY <1>6 DEF Stop
  <2> QED
    BY <2>1 DEF ModelInv, Joinable
<1>7. CASE Join
  BY <1>7 DEF Join, NoWorker, ModelInv, Joinable
<1>8. CASE WorkerThread
  <2>1. model' = model /\ worker.at # "none"
    BY <1>8 DEF WorkerThread, WorkerStarts, Loop, WaitFor, Block, Timeout, NextInput, OpenGuard,
                TakeMessage, NoMessage, NullInput, CloseGuard, Goto, control
  <2> QED
    BY <2>1 DEF ModelInv, Joinable
<1> QED
  BY <1>1, <1>2, <1>3, <1>4, <1>5, <1>6, <1>7, <1>8 DEF Next

\* Whatever Inits have failed before, and whatever Init does while the worker
\* runs, the worker finds the tables of the model.
THEOREM WorkerHasModel == Spec => []WorksWithModel
<1>1. Init => ModelInv
  BY DEF Init, NoWorker, ModelInv, Joinable
<1>2. ModelInv => WorksWithModel
  BY DEF ModelInv, WorksWithModel
<1> QED
  BY <1>1, <1>2, ModelStep, PTL DEF Spec

-----------------------------------------------------------------------------
(***************************************************************************)
(* The rows.  What a scope holds and what is committed have the right      *)
(* references, each by itself: a scope begins with the committed rows and  *)
(* ends by taking their place or by being dropped.                         *)
(***************************************************************************)
Hosts == {c.host : c \in Content}
Data == {c.data : c \in Content}
Msg == [from : Input, nr : Nat, content : Content]

Rows == [host : Seq(Hosts), ident : Seq(Data), log : Seq([msg : Msg, host : Nat]),
         name : Seq(Nat), value : Seq([parent : Nat, name : Nat])]

HostsRight(d) ==
  \A n \in 1 .. Len(d.log) :
    /\ d.log[n].host <= Len(d.host)
    /\ d.log[n].host # 0 => d.host[d.log[n].host] = d.log[n].msg.content.host

NamesRight(d) == \A n \in 1 .. Len(d.name) : d.name[n] \in 1 .. Len(d.ident)

ValuesRight(d) ==
  \A n \in 1 .. Len(d.value) :
    /\ d.value[n].parent \in 1 .. Len(d.log)
    /\ d.value[n].name \in 1 .. Len(d.name)
    /\ d.ident[d.name[d.value[n].name]] = d.log[d.value[n].parent].msg.content.data

Right(d) == d \in Rows /\ HostsRight(d) /\ NamesRight(d) /\ ValuesRight(d)

\* One more element at the end of a sequence.
LEMMA AppendFacts ==
  ASSUME NEW S, NEW s \in Seq(S), NEW e \in S
  PROVE  /\ Append(s, e) \in Seq(S) /\ Len(s) \in Nat /\ Len(Append(s, e)) = Len(s) + 1
         /\ 1 .. Len(Append(s, e)) = (1 .. Len(s)) \cup {Len(s) + 1}
         /\ \A i \in 1 .. Len(s) : Append(s, e)[i] = s[i]
         /\ Append(s, e)[Len(s) + 1] = e
BY AppendProperties, LenProperties

LEMMA HostAdded ==
  ASSUME NEW d, Right(d), NEW x \in Hosts
  PROVE  Right([d EXCEPT !.host = Append(@, x)])
<1> DEFINE e == [d EXCEPT !.host = Append(@, x)]
<1>1. d \in Rows /\ d.host \in Seq(Hosts) /\ d.log \in Seq([msg : Msg, host : Nat])
  BY DEF Right, Rows
<1>2. /\ e.host = Append(d.host, x) /\ e.log = d.log /\ e.ident = d.ident
      /\ e.name = d.name /\ e.value = d.value /\ e \in Rows
  BY <1>1, AppendFacts DEF Rows
<1>3. \A n \in 1 .. Len(d.log) : d.log[n].host \in Nat
  <2>1. \A n \in 1 .. Len(d.log) : d.log[n] \in [msg : Msg, host : Nat]
    BY <1>1, ElementOfSeq
  <2> QED
    BY <2>1
<1> HIDE DEF e
<1>4. HostsRight(e)
  <2>1. /\ Len(d.host) \in Nat /\ Len(e.host) = Len(d.host) + 1
        /\ \A i \in 1 .. Len(d.host) : e.host[i] = d.host[i]
    BY <1>1, <1>2, AppendFacts
  <2>2. ASSUME NEW n \in 1 .. Len(d.log)
        PROVE  /\ d.log[n].host <= Len(e.host)
               /\ d.log[n].host # 0 => e.host[d.log[n].host] = d.log[n].msg.content.host
    <3>1. /\ d.log[n].host \in Nat /\ d.log[n].host <= Len(d.host)
          /\ d.log[n].host # 0 => d.host[d.log[n].host] = d.log[n].msg.content.host
      BY <1>3 DEF Right, HostsRight
    <3> QED
      BY <2>1, <3>1, SMTT(30)
  <2> QED
    BY <1>2, <2>2 DEF HostsRight
<1>5. NamesRight(e) /\ ValuesRight(e)
  BY <1>2 DEF Right, NamesRight, ValuesRight
<1> QED
  BY <1>2, <1>4, <1>5 DEF Right, e

LEMMA IdentAdded ==
  ASSUME NEW d, Right(d), NEW x \in Data
  PROVE  Right([d EXCEPT !.ident = Append(@, x)])
<1> DEFINE e == [d EXCEPT !.ident = Append(@, x)]
<1>1. d \in Rows /\ d.ident \in Seq(Data) /\ d.name \in Seq(Nat)
  BY DEF Right, Rows
<1>2. /\ e.ident = Append(d.ident, x) /\ e.log = d.log /\ e.host = d.host
      /\ e.name = d.name /\ e.value = d.value /\ e \in Rows
  BY <1>1, AppendFacts DEF Rows
<1> HIDE DEF e
<1>3. HostsRight(e)
  BY <1>2 DEF Right, HostsRight
<1>4. NamesRight(e)
  BY <1>1, <1>2, AppendFacts DEF Right, NamesRight
<1>5. ValuesRight(e)
  <2>1. \A i \in 1 .. Len(d.ident) : e.ident[i] = d.ident[i]
    BY <1>1, <1>2, AppendFacts
  <2>2. \A n \in 1 .. Len(d.value) :
         /\ d.value[n].parent \in 1 .. Len(d.log) /\ d.value[n].name \in 1 .. Len(d.name)
         /\ d.ident[d.name[d.value[n].name]] = d.log[d.value[n].parent].msg.content.data
    BY DEF Right, ValuesRight
  <2>3. ASSUME NEW n \in 1 .. Len(d.value)
        PROVE  /\ e.value[n].parent \in 1 .. Len(e.log) /\ e.value[n].name \in 1 .. Len(e.name)
               /\ e.ident[e.name[e.value[n].name]] = e.log[e.value[n].parent].msg.content.data
    <3> DEFINE name == d.value[n].name
               parent == d.value[n].parent
    <3>1. /\ parent \in 1 .. Len(d.log) /\ name \in 1 .. Len(d.name)
          /\ d.ident[d.name[name]] = d.log[parent].msg.content.data
      BY <2>2
    <3>2. d.name[name] \in 1 .. Len(d.ident)
      BY <3>1 DEF Right, NamesRight
    <3>3. e.ident[d.name[name]] = d.ident[d.name[name]]
      BY <2>1, <3>2
    <3>4. e.value = d.value /\ e.log = d.log /\ e.name = d.name
      BY <1>2
    <3> QED
      BY <3>1, <3>3, <3>4
  <2> QED
    BY <1>2, <2>3 DEF ValuesRight
<1> QED
  BY <1>2, <1>3, <1>4, <1>5 DEF Right, e

LEMMA LogAdded ==
  ASSUME NEW d, Right(d), NEW msg \in Msg, NEW id \in 0 .. Len(d.host),
         id # 0 => d.host[id] = msg.content.host
  PROVE  Right([d EXCEPT !.log = Append(@, [msg |-> msg, host |-> id])])
<1> DEFINE r == [msg |-> msg, host |-> id]
           e == [d EXCEPT !.log = Append(@, r)]
<1>1. d \in Rows /\ d.log \in Seq([msg : Msg, host : Nat]) /\ d.host \in Seq(Hosts)
  BY DEF Right, Rows
<1>2. Len(d.host) \in Nat /\ r \in [msg : Msg, host : Nat] /\ r.host = id /\ r.msg = msg
  BY <1>1, LenProperties
<1> HIDE DEF r
<1>3. /\ e.log = Append(d.log, r) /\ e.host = d.host /\ e.ident = d.ident
      /\ e.name = d.name /\ e.value = d.value /\ e \in Rows
  BY <1>1, <1>2, AppendFacts DEF Rows
<1> HIDE DEF e
<1>4. HostsRight(e)
  <2>1. /\ \A n \in 1 .. Len(d.log) : e.log[n] = d.log[n]
        /\ e.log[Len(d.log) + 1] = r
        /\ 1 .. Len(e.log) = (1 .. Len(d.log)) \cup {Len(d.log) + 1}
    BY <1>1, <1>2, <1>3, AppendFacts
  <2>2. \A n \in 1 .. Len(d.log) :
          /\ d.log[n].host <= Len(d.host)
          /\ d.log[n].host # 0 => d.host[d.log[n].host] = d.log[n].msg.content.host
    BY DEF Right, HostsRight
  <2>3. /\ r.host <= Len(d.host)
        /\ r.host # 0 => d.host[r.host] = r.msg.content.host
    BY <1>2
  <2>4. ASSUME NEW n \in 1 .. Len(e.log)
        PROVE  /\ e.log[n].host <= Len(e.host)
               /\ e.log[n].host # 0 => e.host[e.log[n].host] = e.log[n].msg.content.host
    <3>1. CASE n \in 1 .. Len(d.log)
      BY <1>3, <2>1, <2>2, <3>1
    <3>2. CASE n = Len(d.log) + 1
      BY <1>3, <2>1, <2>3, <3>2
    <3> QED
      BY <2>1, <3>1, <3>2
  <2> QED
    BY <2>4 DEF HostsRight
<1>5. NamesRight(e)
  BY <1>3 DEF Right, NamesRight
<1>6. ValuesRight(e)
  <2>1. \A n \in 1 .. Len(d.log) : n \in 1 .. Len(e.log) /\ e.log[n] = d.log[n]
    BY <1>1, <1>2, <1>3, AppendFacts
  <2>2. \A n \in 1 .. Len(d.value) :
         /\ d.value[n].parent \in 1 .. Len(d.log) /\ d.value[n].name \in 1 .. Len(d.name)
         /\ d.ident[d.name[d.value[n].name]] = d.log[d.value[n].parent].msg.content.data
    BY DEF Right, ValuesRight
  <2>3. ASSUME NEW n \in 1 .. Len(d.value)
        PROVE  /\ e.value[n].parent \in 1 .. Len(e.log) /\ e.value[n].name \in 1 .. Len(e.name)
               /\ e.ident[e.name[e.value[n].name]] = e.log[e.value[n].parent].msg.content.data
    <3> DEFINE name == d.value[n].name
               parent == d.value[n].parent
    <3>1. /\ parent \in 1 .. Len(d.log) /\ name \in 1 .. Len(d.name)
          /\ d.ident[d.name[name]] = d.log[parent].msg.content.data
      BY <2>2
    <3>2. parent \in 1 .. Len(e.log) /\ e.log[parent] = d.log[parent]
      BY <2>1, <3>1
    <3>3. e.value = d.value /\ e.ident = d.ident /\ e.name = d.name
      BY <1>3
    <3> QED
      BY <3>1, <3>2, <3>3
  <2> QED
    BY <1>3, <2>3 DEF ValuesRight
<1> QED
  BY <1>3, <1>4, <1>5, <1>6 DEF Right, e, r

LEMMA NameAdded ==
  ASSUME NEW d, Right(d), NEW id \in 1 .. Len(d.ident)
  PROVE  Right([d EXCEPT !.name = Append(@, id)])
<1> DEFINE e == [d EXCEPT !.name = Append(@, id)]
<1>1. d \in Rows /\ d.name \in Seq(Nat) /\ id \in Nat
  BY LenProperties DEF Right, Rows
<1>2. /\ e.name = Append(d.name, id) /\ e.host = d.host /\ e.ident = d.ident
      /\ e.log = d.log /\ e.value = d.value /\ e \in Rows
  BY <1>1, AppendFacts DEF Rows
<1> HIDE DEF e
<1>3. HostsRight(e)
  BY <1>2 DEF Right, HostsRight
<1>4. NamesRight(e)
  BY <1>1, <1>2, AppendFacts DEF Right, NamesRight
<1>5. ValuesRight(e)
  <2>1. \A i \in 1 .. Len(d.name) : i \in 1 .. Len(e.name) /\ e.name[i] = d.name[i]
    BY <1>1, <1>2, AppendFacts
  <2>2. \A n \in 1 .. Len(d.value) :
         /\ d.value[n].parent \in 1 .. Len(d.log) /\ d.value[n].name \in 1 .. Len(d.name)
         /\ d.ident[d.name[d.value[n].name]] = d.log[d.value[n].parent].msg.content.data
    BY DEF Right, ValuesRight
  <2>3. ASSUME NEW n \in 1 .. Len(d.value)
        PROVE  /\ e.value[n].parent \in 1 .. Len(e.log) /\ e.value[n].name \in 1 .. Len(e.name)
               /\ e.ident[e.name[e.value[n].name]] = e.log[e.value[n].parent].msg.content.data
    <3> DEFINE name == d.value[n].name
               parent == d.value[n].parent
    <3>1. /\ parent \in 1 .. Len(d.log) /\ name \in 1 .. Len(d.name)
          /\ d.ident[d.name[name]] = d.log[parent].msg.content.data
      BY <2>2
    <3>2. name \in 1 .. Len(e.name) /\ e.name[name] = d.name[name]
      BY <2>1, <3>1
    <3>3. e.value = d.value /\ e.ident = d.ident /\ e.log = d.log
      BY <1>2
    <3> QED
      BY <3>1, <3>2, <3>3
  <2> QED
    BY <1>2, <2>3 DEF ValuesRight
<1> QED
  BY <1>2, <1>3, <1>4, <1>5 DEF Right, e

LEMMA ValueAdded ==
  ASSUME NEW d, Right(d), NEW p \in 1 .. Len(d.log), NEW m \in 1 .. Len(d.name),
         d.ident[d.name[m]] = d.log[p].msg.content.data
  PROVE  Right([d EXCEPT !.value = Append(@, [parent |-> p, name |-> m])])
<1> DEFINE r == [parent |-> p, name |-> m]
           e == [d EXCEPT !.value = Append(@, r)]
<1>1. d \in Rows /\ d.value \in Seq([parent : Nat, name : Nat]) /\ p \in Nat /\ m \in Nat
  <2>1. d \in Rows
    BY DEF Right
  <2> QED
    BY <2>1 DEF Rows
<1>2. r \in [parent : Nat, name : Nat] /\ r.parent = p /\ r.name = m
  BY <1>1
<1> HIDE DEF r
<1>3. /\ e.value = Append(d.value, r) /\ e.host = d.host /\ e.ident = d.ident
      /\ e.log = d.log /\ e.name = d.name /\ e \in Rows
  BY <1>1, <1>2, AppendFacts DEF Rows
<1> HIDE DEF e
<1>4. HostsRight(e) /\ NamesRight(e)
  BY <1>3 DEF Right, HostsRight, NamesRight
<1>5. ValuesRight(e)
  <2>1. /\ 1 .. Len(e.value) = (1 .. Len(d.value)) \cup {Len(d.value) + 1}
        /\ \A n \in 1 .. Len(d.value) : e.value[n] = d.value[n]
        /\ e.value[Len(d.value) + 1] = r
    BY <1>1, <1>2, <1>3, AppendFacts
  <2> QED
    BY <1>2, <1>3, <2>1 DEF Right, ValuesRight
<1> QED
  BY <1>3, <1>4, <1>5 DEF Right, e, r

\* AddUniqueName answers 0 or the id of a row with the name.
LEMMA HostUnique ==
  ASSUME NEW d, Right(d), NEW x \in Hosts, NEW broken,
         NEW u, u = AddUniqueName(d, "host", x, broken)
  PROVE  /\ Right(u.rows) /\ u.id \in 0 .. Len(u.rows.host)
         /\ u.id # 0 => u.rows.host[u.id] = x
<1> DEFINE e == [d EXCEPT !.host = Append(@, x)]
<1>1. d \in Rows /\ d.host \in Seq(Hosts) /\ Len(d.host) \in Nat
  BY LenProperties DEF Right, Rows
<1>2. Right(e) /\ e.host = Append(d.host, x) /\ e.log = d.log
  BY <1>1, HostAdded DEF Rows
<1>3. u = [rows |-> d, id |-> 0] \/ u = [rows |-> e, id |-> Len(d.host) + 1]
  BY DEF AddUniqueName, Unique
<1> HIDE DEF e
<1>4. CASE u = [rows |-> d, id |-> 0]
  <2>1. u.rows = d /\ u.id = 0
    BY <1>4
  <2> QED
    BY <1>1, <2>1
<1>5. CASE u = [rows |-> e, id |-> Len(d.host) + 1]
  <2>1. u.rows = e /\ u.id = Len(d.host) + 1
    BY <1>5
  <2>2. Len(e.host) = Len(d.host) + 1 /\ e.host[Len(d.host) + 1] = x
    BY <1>1, <1>2, AppendFacts
  <2> QED
    BY <1>1, <1>2, <2>1, <2>2
<1> QED
  BY <1>3, <1>4, <1>5

LEMMA IdentUnique ==
  ASSUME NEW d, Right(d), NEW x \in Data, NEW broken,
         NEW u, u = AddUniqueName(d, "ident", x, broken)
  PROVE  /\ Right(u.rows) /\ u.id \in 0 .. Len(u.rows.ident)
         /\ u.id # 0 => u.rows.ident[u.id] = x
         /\ u.rows.log = d.log
<1> DEFINE e == [d EXCEPT !.ident = Append(@, x)]
<1>1. d \in Rows /\ d.ident \in Seq(Data) /\ Len(d.ident) \in Nat
  BY LenProperties DEF Right, Rows
<1>2. Right(e) /\ e.ident = Append(d.ident, x) /\ e.log = d.log
  BY <1>1, IdentAdded DEF Rows
<1>3. u = [rows |-> d, id |-> 0] \/ u = [rows |-> e, id |-> Len(d.ident) + 1]
  BY DEF AddUniqueName, Unique
<1> HIDE DEF e
<1>4. CASE u = [rows |-> d, id |-> 0]
  <2>1. u.rows = d /\ u.id = 0
    BY <1>4
  <2> QED
    BY <1>1, <2>1
<1>5. CASE u = [rows |-> e, id |-> Len(d.ident) + 1]
  <2>1. u.rows = e /\ u.id = Len(d.ident) + 1
    BY <1>5
  <2>2. Len(e.ident) = Len(d.ident) + 1 /\ e.ident[Len(d.ident) + 1] = x
    BY <1>1, <1>2, AppendFacts
  <2> QED
    BY <1>1, <1>2, <2>1, <2>2
<1> QED
  BY <1>3, <1>4, <1>5

\* Wherever AddMessage breaks off, the rows that it leaves are right.
LEMMA MessageAdded ==
  ASSUME NEW d, Right(d), NEW msg \in Msg, NEW broken \in Inserts
  PROVE  Right(AddMessage(d, msg, broken))
<1> DEFINE host   == AddUniqueName(d, "host", msg.content.host, broken = "host")
           logged == [host.rows EXCEPT !.log = Append(@, [msg |-> msg, host |-> host.id])]
           ident  == AddUniqueName(logged, "ident", msg.content.data, broken = "ident")
           named  == [ident.rows EXCEPT !.name = Append(@, ident.id)]
           valued == [named EXCEPT !.value = Append(@, [parent |-> Len(named.log), name |-> Len(named.name)])]
<1>0. AddMessage(d, msg, broken) =
        CASE broken = "log" -> host.rows
          [] broken # "log" /\ ident.id = 0 -> ident.rows
          [] broken = "name" /\ ident.id # 0 -> ident.rows
          [] broken = "value" /\ ident.id # 0 -> named
          [] OTHER -> valued
  BY DEF AddMessage
<1>1. msg.content.host \in Hosts /\ msg.content.data \in Data
  BY DEF Msg, Hosts, Data
<1>2. Right(host.rows) /\ host.id \in 0 .. Len(host.rows.host)
      /\ (host.id # 0 => host.rows.host[host.id] = msg.content.host)
  <2> DEFINE fails == broken = "host"
  <2>1. host = AddUniqueName(d, "host", msg.content.host, fails)
    OBVIOUS
  <2> HIDE DEF host, fails
  <2> QED
    BY <1>1, <2>1, HostUnique
<1>3. Right(logged)
  BY <1>2, LogAdded
<1>4. /\ Len(logged.log) \in 1 .. Len(logged.log)
      /\ logged.log[Len(logged.log)].msg = msg
  <2>1. host.rows \in Rows /\ host.rows.log \in Seq([msg : Msg, host : Nat])
        /\ [msg |-> msg, host |-> host.id] \in [msg : Msg, host : Nat]
    BY <1>2, LenProperties DEF Right, Rows
  <2> DEFINE row == [msg |-> msg, host |-> host.id]
  <2>2. logged.log = Append(host.rows.log, row) /\ row.msg = msg
    BY <2>1 DEF Rows
  <2>3. row \in [msg : Msg, host : Nat] /\ host.rows.log \in Seq([msg : Msg, host : Nat])
    BY <2>1
  <2> HIDE DEF row, host, logged
  <2>4. /\ Len(host.rows.log) \in Nat /\ Len(logged.log) = Len(host.rows.log) + 1
        /\ logged.log[Len(host.rows.log) + 1] = row
    BY <2>2, <2>3, AppendFacts
  <2> QED
    BY <2>2, <2>4
<1> HIDE DEF host, logged
<1>5. Right(ident.rows) /\ ident.id \in 0 .. Len(ident.rows.ident) /\ ident.rows.log = logged.log
      /\ (ident.id # 0 => ident.rows.ident[ident.id] = msg.content.data)
  <2> DEFINE fails == broken = "ident"
  <2>1. ident = AddUniqueName(logged, "ident", msg.content.data, fails)
    OBVIOUS
  <2> HIDE DEF ident, fails
  <2> QED
    BY <1>1, <1>3, <2>1, IdentUnique
<1> HIDE DEF ident
<1>6. ASSUME ident.id # 0
      PROVE  Right(named) /\ Right(valued)
  <2>1. ident.rows \in Rows /\ ident.rows.name \in Seq(Nat) /\ ident.rows.ident \in Seq(Data)
    BY <1>5 DEF Right, Rows
  <2>2. ident.id \in 1 .. Len(ident.rows.ident) /\ ident.id \in Nat
    BY <1>5, <1>6, <2>1, LenProperties
  <2>3. Right(named)
    BY <1>5, <2>2, NameAdded
  <2>4. named.name = Append(ident.rows.name, ident.id) /\ named.log = logged.log
        /\ named.ident = ident.rows.ident
    BY <1>5, <2>1 DEF Rows
  <2>5. Len(named.name) \in 1 .. Len(named.name) /\ named.name[Len(named.name)] = ident.id
    BY <2>1, <2>2, <2>4, AppendFacts
  <2>6. /\ Len(named.log) \in 1 .. Len(named.log)
        /\ named.ident[named.name[Len(named.name)]] = named.log[Len(named.log)].msg.content.data
    BY <1>4, <1>5, <1>6, <2>4, <2>5
  <2> HIDE DEF named
  <2> QED
    BY <2>3, <2>5, <2>6, ValueAdded
<1> HIDE DEF named, valued
<1>7. AddMessage(d, msg, broken) \in {host.rows, ident.rows}
      \/ (ident.id # 0 /\ AddMessage(d, msg, broken) \in {named, valued})
  BY <1>0 DEF Inserts
<1> QED
  BY <1>2, <1>5, <1>6, <1>7

-----------------------------------------------------------------------------
\* The messages on their way are of their type, and the worker inside a pass
\* is at one of the inputs or behind the last.
Traffic ==
  /\ inputs \in Seq(Input)
  /\ queue \in [Input -> Seq(Msg)]
  /\ sent \in [Input -> Nat]

Places == {"none", "start", "loop", "lock", "block", "wait", "input", "take", "close", "ended", "crashed"}

WorkerType ==
  /\ worker \in [at : Places, place : Nat, open : BOOLEAN]
  /\ InPass => worker.place # 0

RowsInv == Traffic /\ WorkerType /\ Right(db) /\ Right(tx)

LEMMA NoRowsRight == Right(NoRows)
<1>1. NoRows \in Rows
  BY EmptySeq DEF NoRows, Rows
<1>2. Len(<<>>) = 0
  BY EmptySeq
<1> QED
  BY <1>1, <1>2 DEF Right, NoRows, HostsRight, NamesRight, ValuesRight

\* What the messages on their way may be changed to.
LEMMA TrafficStep == Traffic /\ WorkerType /\ [Next]_vars => Traffic'
<1> SUFFICES ASSUME Traffic, WorkerType, [Next]_vars
             PROVE  Traffic'
  OBVIOUS
<1>1. CASE UNCHANGED <<inputs, traffic>>
  BY <1>1 DEF traffic, Traffic
<1>2. CASE Receive
  <2>1. PICK i \in ToSet(inputs), c \in Content :
          /\ sent' = [sent EXCEPT ![i] = @ + 1]
          /\ queue' = [queue EXCEPT ![i] = Append(@, [from |-> i, nr |-> sent'[i], content |-> c])]
    BY <1>2 DEF Receive
  <2>2. i \in Input
    BY ElementOfSeq DEF ToSet, Traffic
  <2>3. sent' \in [Input -> Nat] /\ sent'[i] \in Nat
    BY <2>1, <2>2 DEF Traffic
  <2>4. [from |-> i, nr |-> sent'[i], content |-> c] \in Msg
    BY <2>2, <2>3 DEF Msg
  <2>5. Append(queue[i], [from |-> i, nr |-> sent'[i], content |-> c]) \in Seq(Msg)
    BY <2>2, <2>4, AppendFacts DEF Traffic
  <2> QED
    BY <1>2, <2>1, <2>3, <2>5 DEF Receive, Traffic
<1>3. CASE AddInput
  BY <1>3, AppendFacts DEF AddInput, traffic, Traffic
<1>4. CASE DeleteInput
  <2>1. PICK n \in DOMAIN inputs : /\ inputs' = RemoveAt(inputs, n)
                                   /\ queue' = [queue EXCEPT ![inputs[n]] = << >>]
    BY <1>4 DEF DeleteInput
  <2>2. inputs \in Seq(Input) /\ n \in 1 .. Len(inputs) /\ Len(inputs) \in Nat
        /\ \A i \in 1 .. Len(inputs) : inputs[i] \in Input
    BY <2>1, LenProperties, ElementOfSeq DEF Traffic
  <2>3. SubSeq(inputs, 1, n - 1) \in Seq(Input) /\ SubSeq(inputs, n + 1, Len(inputs)) \in Seq(Input)
    BY <2>2, SubSeqProperties
  <2>4. inputs' \in Seq(Input)
    BY <2>1, <2>3, ConcatProperties DEF RemoveAt
  <2>5. queue' \in [Input -> Seq(Msg)]
    BY <2>1, EmptySeq DEF Traffic
  <2> QED
    BY <1>4, <2>4, <2>5 DEF DeleteInput, Traffic
<1>5. CASE TakeMessage
  <2>1. LET i == inputs[worker.place]
        IN  queue[i] # << >> /\ queue' = [queue EXCEPT ![i] = Tail(@)]
    BY <1>5 DEF TakeMessage
  <2>2. worker.place \in 1 .. Len(inputs)
    BY <1>5, LenProperties DEF TakeMessage, Here, InPass, WorkerType, Traffic
  <2>3. inputs[worker.place] \in Input
    BY <2>2, ElementOfSeq DEF Traffic
  <2>4. Tail(queue[inputs[worker.place]]) \in Seq(Msg)
    BY <2>1, <2>3, HeadTailProperties DEF Traffic
  <2> QED
    BY <1>5, <2>1, <2>4 DEF TakeMessage, Traffic
<1>6. CASE InitEnvironment \/ Start \/ Stop \/ Join \/ (WorkerThread /\ ~TakeMessage)
  BY <1>1, <1>6 DEF InitEnvironment, Start, Stop, Join, WorkerThread, WorkerStarts, Loop, WaitFor,
                    Block, Timeout, NextInput, OpenGuard, NoMessage, NullInput, CloseGuard
<1> QED
  BY <1>1, <1>2, <1>3, <1>4, <1>5, <1>6 DEF Next, vars, WorkerThread

LEMMA WorkerStep == Traffic /\ WorkerType /\ [Next]_vars => WorkerType'
<1> SUFFICES ASSUME Traffic, WorkerType, [Next]_vars
             PROVE  WorkerType'
  OBVIOUS
<1> DEFINE Type == [at : Places, place : Nat, open : BOOLEAN]
<1>0. worker \in Type /\ (worker.at \in {"input", "take", "close"} => worker.place # 0)
  BY DEF WorkerType, InPass
<1>a. ASSUME worker' \in Type, worker'.at \notin {"input", "take", "close"} \/ worker'.place # 0
      PROVE  WorkerType'
  BY <1>a DEF WorkerType, InPass
<1>1. CASE worker' = worker
  BY <1>0, <1>1, <1>a
<1>2. CASE worker' = NoWorker \/ worker' = [NoWorker EXCEPT !.at = "start"]
           \/ worker' = [NoWorker EXCEPT !.at = "crashed"]
  <2>1. ASSUME NEW to \in {"none", "start", "crashed"}, worker' = [at |-> to, place |-> 0, open |-> FALSE]
        PROVE  WorkerType'
    <3>1. worker' \in Type /\ worker'.at \notin {"input", "take", "close"}
      BY <2>1 DEF Places
    <3> QED
      BY <1>a, <3>1
  <2>2. CASE worker' = NoWorker
    BY <2>1, <2>2 DEF NoWorker
  <2>3. CASE worker' = [NoWorker EXCEPT !.at = "start"]
    <3>1. worker' = [at |-> "start", place |-> 0, open |-> FALSE]
      BY <2>3 DEF NoWorker
    <3> QED
      BY <2>1, <3>1
  <2>4. CASE worker' = [NoWorker EXCEPT !.at = "crashed"]
    <3>1. worker' = [at |-> "crashed", place |-> 0, open |-> FALSE]
      BY <2>4 DEF NoWorker
    <3> QED
      BY <2>1, <3>1
  <2> QED
    BY <1>2, <2>2, <2>3, <2>4
<1>3. CASE worker' = [worker EXCEPT !.at = "input", !.place = 1]
  <2>1. worker' = [at |-> "input", place |-> 1, open |-> worker.open]
    BY <1>0, <1>3
  <2>2. worker' \in Type /\ worker'.place # 0
    BY <1>0, <2>1 DEF Places
  <2> QED
    BY <1>a, <2>2
<1>4. CASE AddInput \/ DeleteInput
  <2>1. Len(inputs') \in Nat
    BY TrafficStep, LenProperties DEF Traffic
  <2>2. CASE worker' = [worker EXCEPT !.place = Len(inputs') + 1]
    BY <1>0, <1>a, <2>1, <2>2
  <2>3. Disturb
    BY <1>4 DEF AddInput, DeleteInput
  <2> QED
    BY <1>1, <1>2, <2>2, <2>3 DEF Disturb
<1>5. CASE Start \/ Stop \/ Join
  BY <1>1, <1>2, <1>3, <1>5 DEF Start, Stop, Join
<1>6. CASE WorkerStarts \/ Loop \/ WaitFor \/ Block \/ Timeout
  <2>1. \/ worker' = [worker EXCEPT !.at = "loop"] \/ worker' = [worker EXCEPT !.at = "lock"]
        \/ worker' = [worker EXCEPT !.at = "ended"] \/ worker' = [worker EXCEPT !.at = "block"]
        \/ worker' = [worker EXCEPT !.at = "wait"]
        \/ worker' = [worker EXCEPT !.at = "input", !.place = 1]
    BY <1>6 DEF WorkerStarts, Loop, WaitFor, Block, Timeout, Goto, Pass
  <2>2. CASE worker' = [worker EXCEPT !.at = "input", !.place = 1]
    BY <1>3, <2>2
  <2>3. CASE worker' # [worker EXCEPT !.at = "input", !.place = 1]
    BY <1>0, <1>a, <2>1, <2>3 DEF Places
  <2> QED
    BY <2>2, <2>3
<1>7. CASE NextInput
  <2>1. \/ worker' = [worker EXCEPT !.at = "loop"]
        \/ worker' = [worker EXCEPT !.place = @ + 1]
    BY <1>7 DEF NextInput
  <2> QED
    BY <1>0, <1>a, <2>1 DEF Places
<1>8. CASE OpenGuard
  <2>1. /\ worker.at = "input"
        /\ \/ worker' = [worker EXCEPT !.at = "take", !.open = TRUE]
           \/ worker' = [worker EXCEPT !.at = "take", !.open = FALSE]
    BY <1>8 DEF OpenGuard
  <2> QED
    BY <1>0, <1>a, <2>1 DEF Places
<1>9. CASE TakeMessage \/ NoMessage
  <2>1. /\ worker.at = "take"
        /\ worker' = worker \/ worker' = [worker EXCEPT !.at = "close"]
    BY <1>9 DEF TakeMessage, NoMessage, Goto
  <2> QED
    BY <1>0, <1>1, <1>a, <2>1 DEF Places
<1>10. CASE NullInput
  BY <1>2, <1>10 DEF NullInput
<1>11. CASE CloseGuard
  <2>1. worker' = [worker EXCEPT !.at = "input", !.place = @ + 1, !.open = FALSE]
    BY <1>11 DEF CloseGuard
  <2>2. worker' = [at |-> "input", place |-> worker.place + 1, open |-> FALSE]
    BY <1>0, <2>1
  <2>3. worker' \in Type /\ worker'.place # 0
    BY <1>0, <2>2 DEF Places
  <2> QED
    BY <1>a, <2>3
<1> QED
  BY <1>1, <1>4, <1>5, <1>6, <1>7, <1>8, <1>9, <1>10, <1>11
     DEF Next, vars, Receive, InitEnvironment, WorkerThread

LEMMA RowsStep == RowsInv /\ [Next]_vars => RowsInv'
<1> SUFFICES ASSUME RowsInv, [Next]_vars
             PROVE  Right(db)' /\ Right(tx)'
  BY TrafficStep, WorkerStep DEF RowsInv
<1>1. CASE db' \in {db, tx} /\ tx' \in {db, tx}
  <2>1. Right(db') /\ Right(tx')
    BY <1>1 DEF RowsInv
  <2> QED
    BY <2>1 DEF Right, HostsRight, NamesRight, ValuesRight
<1>2. CASE TakeMessage
  <2>1. worker.place \in 1 .. Len(inputs)
    BY <1>2, LenProperties DEF TakeMessage, Here, InPass, RowsInv, WorkerType, Traffic
  <2>2. queue[inputs[worker.place]] \in Seq(Msg) /\ queue[inputs[worker.place]] # << >>
    BY <1>2, <2>1, ElementOfSeq DEF TakeMessage, RowsInv, Traffic
  <2>3. Head(queue[inputs[worker.place]]) \in Msg
    BY <2>2, HeadTailProperties
  <2>4. CASE tx' = tx
    BY <1>1, <1>2, <2>4 DEF TakeMessage
  <2>5. CASE \E broken \in Inserts : tx' = AddMessage(tx, Head(queue[inputs[worker.place]]), broken)
    <3>1. Right(tx') /\ db' = db
      BY <1>2, <2>3, <2>5, MessageAdded DEF TakeMessage, RowsInv
    <3> QED
      BY <3>1 DEF RowsInv, Right, HostsRight, NamesRight, ValuesRight
  <2> QED
    BY <1>2, <2>4, <2>5 DEF TakeMessage
<1>3. CASE WorkerThread /\ ~TakeMessage
  BY <1>1, <1>3 DEF WorkerThread, WorkerStarts, Loop, WaitFor, Block, Timeout, NextInput, OpenGuard,
                    NoMessage, NullInput, CloseGuard, rows
<1>4. CASE Receive \/ InitEnvironment \/ AddInput \/ DeleteInput \/ Start \/ Stop \/ Join
  BY <1>1, <1>4 DEF Receive, InitEnvironment, AddInput, DeleteInput, Disturb, Start, Stop, Join, rows
<1> QED
  BY <1>1, <1>2, <1>3, <1>4 DEF Next, vars, rows

LEMMA RowsInitial == Init => RowsInv
<1> SUFFICES ASSUME Init
             PROVE  RowsInv
  OBVIOUS
<1>1. Traffic
  BY EmptySeq DEF Init, Traffic
<1>2. WorkerType
  BY DEF Init, NoWorker, Places, InPass, WorkerType
<1> QED
  BY <1>1, <1>2, NoRowsRight DEF Init, RowsInv

\* No COMMIT that fails, no dropped scope and no input that goes away makes a
\* stored message or value refer to a row that is not its own.
THEOREM MessagesAreAttributed == Spec => []Attributed
<1>1. RowsInv => Attributed
  <2> SUFFICES ASSUME Right(db)
               PROVE  Attributed
    BY DEF RowsInv
  <2>1. /\ DOMAIN db.log = 1 .. Len(db.log)
        /\ DOMAIN db.value = 1 .. Len(db.value)
    BY LenProperties DEF Right, Rows
  <2> QED
    BY <2>1 DEF Right, HostsRight, ValuesRight, Attributed
<1> QED
  BY <1>1, RowsInitial, RowsStep, PTL DEF Spec

-----------------------------------------------------------------------------
(***************************************************************************)
(* The types.  A message that an input has received waits in its queue, is *)
(* taken, or went away with the input.                                     *)
(***************************************************************************)
QueuesInv ==
  /\ IsInjective(inputs)
  /\ taken \in [Input -> Nat]
  /\ \A i \in Input : taken[i] + Len(queue[i]) <= sent[i]
  /\ owner \in {"idle", "join"}

\* The place of a worker that takes messages is one of an input.
LEMMA TakesFromInput ==
  ASSUME Traffic, WorkerType, TakeMessage, NEW i, i = inputs[worker.place]
  PROVE  /\ i \in Input /\ queue[i] \in Seq(Msg) /\ queue[i] # << >>
         /\ Head(queue[i]) \in Msg /\ Tail(queue[i]) \in Seq(Msg)
         /\ Len(queue[i]) \in Nat \ {0} /\ Len(Tail(queue[i])) = Len(queue[i]) - 1
         /\ Head(queue[i]) = queue[i][1]
         /\ \A k \in 1 .. Len(queue[i]) - 1 : Tail(queue[i])[k] = queue[i][k + 1]
<1>1. worker.place \in 1 .. Len(inputs)
  BY LenProperties DEF TakeMessage, Here, InPass, WorkerType, Traffic
<1>2. i \in Input
  BY <1>1, ElementOfSeq DEF Traffic
<1>3. queue[i] \in Seq(Msg) /\ queue[i] # << >>
  BY <1>2 DEF TakeMessage, Traffic
<1> QED
  BY <1>2, <1>3, HeadTailProperties, EmptySeq, LenProperties

LEMMA ReceiveFacts ==
  ASSUME Traffic, Receive
  PROVE  \E i \in Input : \E m \in Msg :
           /\ m.from = i /\ m.nr = sent[i] + 1
           /\ sent[i] \in Nat /\ queue[i] \in Seq(Msg)
           /\ sent' = [sent EXCEPT ![i] = @ + 1]
           /\ queue' = [queue EXCEPT ![i] = Append(@, m)]
           /\ sent' \in [Input -> Nat]
<1>1. PICK i \in ToSet(inputs), c \in Content :
        /\ sent' = [sent EXCEPT ![i] = @ + 1]
        /\ queue' = [queue EXCEPT ![i] = Append(@, [from |-> i, nr |-> sent'[i], content |-> c])]
  BY DEF Receive
<1>2. i \in Input
  BY ElementOfSeq DEF ToSet, Traffic
<1>3. sent' \in [Input -> Nat] /\ sent'[i] = sent[i] + 1 /\ sent[i] \in Nat /\ queue[i] \in Seq(Msg)
  BY <1>1, <1>2 DEF Traffic
<1> DEFINE m == [from |-> i, nr |-> sent'[i], content |-> c]
<1>4. m \in Msg /\ m.from = i /\ m.nr = sent[i] + 1
  BY <1>2, <1>3 DEF Msg
<1>5. queue' = [queue EXCEPT ![i] = Append(@, m)]
  BY <1>1
<1> HIDE DEF m
<1> QED
  BY <1>1, <1>2, <1>3, <1>4, <1>5

LEMMA RestLength ==
  \A k, n \in Nat : n <= k => (IF n + 1 <= k THEN k - (n + 1) + 1 ELSE 0) = k - n
OBVIOUS

\* An input that goes away leaves the others where they were, one place up.
LEMMA RemoveKeepsInjective ==
  ASSUME NEW S, NEW s \in Seq(S), IsInjective(s), NEW n \in 1 .. Len(s)
  PROVE  IsInjective(RemoveAt(s, n))
<1> DEFINE a == SubSeq(s, 1, n - 1)
           b == SubSeq(s, n + 1, Len(s))
           t == a \o b
<1>1. Len(s) \in Nat /\ n \in Nat /\ n <= Len(s) /\ DOMAIN s = 1 .. Len(s)
  BY LenProperties
<1>2. /\ a \in Seq(S) /\ Len(a) = n - 1 /\ \A i \in 1 .. n - 1 : a[i] = s[i]
      /\ b \in Seq(S) /\ Len(b) = Len(s) - n /\ \A i \in 1 .. Len(s) - n : b[i] = s[n + i]
  <2>1. a \in Seq(S) /\ Len(a) = n - 1 /\ \A i \in 1 .. n - 1 : a[i] = s[i]
    BY <1>1, SubSeqProperties
  <2>2. b \in Seq(S) /\ Len(b) = Len(s) - n /\ \A i \in 1 .. Len(s) - n : b[i] = s[n + i]
    <3>1. /\ n + 1 \in Int /\ Len(s) \in Int /\ Len(s) - (n + 1) + 1 = Len(s) - n
          /\ \A i \in n + 1 .. Len(s) : s[i] \in S
      BY <1>1, ElementOfSeq
    <3>2. /\ b \in Seq(S) /\ Len(b) = IF n + 1 <= Len(s) THEN Len(s) - (n + 1) + 1 ELSE 0
          /\ \A i \in 1 .. Len(s) - (n + 1) + 1 : b[i] = s[(n + 1) + i - 1]
      BY <3>1, SubSeqProperties
    <3>3. \A i \in 1 .. Len(s) - n : (n + 1) + i - 1 = n + i
      BY <1>1
    <3> HIDE DEF b
    <3>4. Len(b) = Len(s) - n
      <4>1. Len(b) = IF n + 1 <= Len(s) THEN Len(s) - (n + 1) + 1 ELSE 0
        BY <3>2
      <4> QED
        BY <1>1, <4>1, RestLength
    <3>5. \A i \in 1 .. Len(s) - n : b[i] = s[n + i]
      BY <3>1, <3>2, <3>3
    <3> QED
      BY <3>2, <3>4, <3>5
  <2> QED
    BY <2>1, <2>2
<1> HIDE DEF a, b
<1>3. /\ Len(t) = Len(s) - 1 /\ DOMAIN t = 1 .. Len(s) - 1
      /\ \A i \in 1 .. Len(s) - 1 : t[i] = IF i <= n - 1 THEN a[i] ELSE b[i - (n - 1)]
  <2>1. /\ t \in Seq(S) /\ Len(t) = Len(a) + Len(b)
        /\ \A i \in 1 .. Len(a) + Len(b) : t[i] = IF i <= Len(a) THEN a[i] ELSE b[i - Len(a)]
    BY <1>2, ConcatProperties
  <2>2. Len(a) + Len(b) = Len(s) - 1
    BY <1>1, <1>2
  <2>3. DOMAIN t = 1 .. Len(t)
    BY <2>1, LenProperties
  <2> QED
    BY <1>2, <2>1, <2>2, <2>3
<1> HIDE DEF t
<1>4. \A i \in 1 .. Len(s) - 1 : t[i] = IF i < n THEN s[i] ELSE s[i + 1]
  <2> SUFFICES ASSUME NEW i \in 1 .. Len(s) - 1
               PROVE  t[i] = IF i < n THEN s[i] ELSE s[i + 1]
    OBVIOUS
  <2>1. CASE i < n
    <3>1. i \in 1 .. n - 1 /\ i <= n - 1
      BY <1>1, <2>1
    <3>2. t[i] = a[i] /\ a[i] = s[i]
      BY <1>2, <1>3, <3>1
    <3> QED
      BY <2>1, <3>2
  <2>2. CASE ~(i < n)
    <3>1. i - (n - 1) \in 1 .. Len(s) - n /\ n + (i - (n - 1)) = i + 1
      BY <1>1, <2>2
    <3>2. t[i] = b[i - (n - 1)]
      BY <1>1, <1>3, <2>2
    <3> QED
      BY <1>2, <2>2, <3>1, <3>2
  <2> QED
    BY <2>1, <2>2
<1>5. RemoveAt(s, n) = t
  BY DEF RemoveAt, t, a, b
<1>6. \A i, j \in 1 .. Len(s) : s[i] = s[j] => i = j
  BY <1>1 DEF IsInjective
<1>7. \A i, j \in 1 .. Len(s) - 1 : t[i] = t[j] => i = j
  <2> SUFFICES ASSUME NEW i \in 1 .. Len(s) - 1, NEW j \in 1 .. Len(s) - 1, t[i] = t[j]
               PROVE  i = j
    OBVIOUS
  <2> DEFINE from(k) == IF k < n THEN k ELSE k + 1
  <2>1. t[i] = s[from(i)] /\ t[j] = s[from(j)] /\ from(i) \in 1 .. Len(s) /\ from(j) \in 1 .. Len(s)
    BY <1>1, <1>4
  <2>2. from(i) = from(j)
    BY <1>6, <2>1
  <2> QED
    BY <1>1, <2>2
<1> QED
  BY <1>3, <1>5, <1>7 DEF IsInjective

LEMMA QueuesStep == RowsInv /\ QueuesInv /\ [Next]_vars => QueuesInv'
<1> SUFFICES ASSUME RowsInv, QueuesInv, [Next]_vars
             PROVE  QueuesInv'
  OBVIOUS
<1>0. \A i \in Input : Len(queue[i]) \in Nat /\ sent[i] \in Nat /\ taken[i] \in Nat
  BY LenProperties DEF RowsInv, Traffic, QueuesInv
<1>1. CASE UNCHANGED <<inputs, traffic>> /\ owner' \in {owner, "idle", "join"}
  BY <1>1 DEF traffic, QueuesInv
<1>2. CASE Receive
  <2>1. PICK i \in Input, m \in Msg :
          /\ sent[i] \in Nat /\ queue[i] \in Seq(Msg)
          /\ sent' = [sent EXCEPT ![i] = @ + 1]
          /\ queue' = [queue EXCEPT ![i] = Append(@, m)]
    BY <1>2, ReceiveFacts DEF RowsInv
  <2>2. Len(Append(queue[i], m)) = Len(queue[i]) + 1
    BY <2>1, AppendFacts
  <2>3. UNCHANGED <<inputs, taken, owner>>
    BY <1>2 DEF Receive, control
  <2> QED
    BY <1>0, <2>1, <2>2, <2>3 DEF RowsInv, Traffic, QueuesInv
<1>3. CASE AddInput
  <2>1. PICK i \in Input \ ToSet(inputs) : inputs' = Append(inputs, i)
    BY <1>3 DEF AddInput
  <2>2. inputs \in Seq(Input) /\ DOMAIN inputs = 1 .. Len(inputs) /\ Len(inputs) \in Nat
    BY LenProperties DEF RowsInv, Traffic
  <2>3. /\ inputs' \in Seq(Input) /\ DOMAIN inputs' = (1 .. Len(inputs)) \cup {Len(inputs) + 1}
        /\ \A k \in 1 .. Len(inputs) : inputs'[k] = inputs[k]
        /\ inputs'[Len(inputs) + 1] = i
    BY <2>1, <2>2, AppendFacts, LenProperties
  <2>4. \A k \in 1 .. Len(inputs) : inputs[k] # i
    BY <2>1, <2>2 DEF ToSet
  <2>5. IsInjective(inputs')
    BY <2>2, <2>3, <2>4 DEF QueuesInv, IsInjective
  <2> QED
    BY <1>3, <2>5 DEF AddInput, traffic, control, QueuesInv
<1>4. CASE DeleteInput
  <2>1. PICK n \in DOMAIN inputs : /\ inputs' = RemoveAt(inputs, n)
                                   /\ queue' = [queue EXCEPT ![inputs[n]] = << >>]
    BY <1>4 DEF DeleteInput
  <2>2. n \in 1 .. Len(inputs) /\ inputs[n] \in Input
    BY <2>1, LenProperties, ElementOfSeq DEF RowsInv, Traffic
  <2>3. IsInjective(inputs')
    BY <2>1, <2>2, RemoveKeepsInjective DEF RowsInv, Traffic, QueuesInv
  <2>4. UNCHANGED <<sent, taken, owner>>
    BY <1>4 DEF DeleteInput, control
  <2>5. Len(<< >>) = 0
    BY EmptySeq
  <2>6. ASSUME NEW i \in Input
        PROVE  taken[i] + Len(queue'[i]) <= sent[i]
    <3>1. CASE i = inputs[n]
      <4>1. queue'[i] = << >>
        BY <2>1, <2>2, <3>1 DEF RowsInv, Traffic
      <4> QED
        BY <1>0, <2>5, <4>1 DEF QueuesInv
    <3>2. CASE i # inputs[n]
      <4>1. queue'[i] = queue[i]
        BY <2>1, <2>2, <3>2 DEF RowsInv, Traffic
      <4> QED
        BY <4>1 DEF QueuesInv
    <3> QED
      BY <3>1, <3>2
  <2> QED
    BY <2>3, <2>4, <2>6 DEF QueuesInv
<1>5. CASE TakeMessage
  <2> DEFINE i == inputs[worker.place]
  <2>1. /\ queue' = [queue EXCEPT ![i] = Tail(@)]
        /\ taken' = [taken EXCEPT ![i] = @ + 1]
        /\ UNCHANGED <<inputs, sent, owner>>
    BY <1>5 DEF TakeMessage, control
  <2>2. i \in Input /\ Len(queue[i]) \in Nat \ {0} /\ Len(Tail(queue[i])) = Len(queue[i]) - 1
    BY <1>5, TakesFromInput DEF RowsInv
  <2> HIDE DEF i
  <2> QED
    BY <1>0, <2>1, <2>2 DEF RowsInv, Traffic, QueuesInv
<1>6. CASE InitEnvironment \/ Start \/ Stop \/ Join \/ (WorkerThread /\ ~TakeMessage)
  BY <1>1, <1>6 DEF InitEnvironment, Start, Stop, Join, WorkerThread, WorkerStarts, Loop, WaitFor,
                    Block, Timeout, NextInput, OpenGuard, NoMessage, NullInput, CloseGuard, control
<1> QED
  BY <1>1, <1>2, <1>3, <1>4, <1>5, <1>6 DEF Next, vars, WorkerThread, control

LEMMA TypesInvariant == Spec => [](RowsInv /\ QueuesInv)
<1>1. Init => QueuesInv
  BY EmptySeq DEF Init, QueuesInv, IsInjective
<1> QED
  BY <1>1, RowsInitial, RowsStep, QueuesStep, PTL DEF Spec

\* The variables keep their types, no input is in the list twice, no message
\* is taken twice, and the ids in every table are those of rows that are there.
THEOREM TypeCorrect == Spec => []TypeOK
<1>1. RowsInv /\ QueuesInv => TypeOK
  <2> SUFFICES ASSUME RowsInv, QueuesInv
               PROVE  TypeOK
    OBVIOUS
  <2>1. ToSet(inputs) \subseteq Input
    BY ElementOfSeq DEF RowsInv, Traffic, ToSet
  <2>2. \A i \in Input : taken[i] <= sent[i] /\ Len(queue[i]) <= sent[i] - taken[i]
    <3>1. \A i \in Input : Len(queue[i]) \in Nat /\ sent[i] \in Nat /\ taken[i] \in Nat
      BY LenProperties DEF RowsInv, Traffic, QueuesInv
    <3> QED
      BY <3>1 DEF QueuesInv
  <2>3. ASSUME NEW d, Right(d)
        PROVE  /\ \A n \in DOMAIN d.log : d.log[n].host \in 0 .. Len(d.host)
               /\ \A n \in DOMAIN d.name : d.name[n] \in DOMAIN d.ident
               /\ \A n \in DOMAIN d.value :
                    d.value[n].parent \in DOMAIN d.log /\ d.value[n].name \in DOMAIN d.name
    <3>1. /\ d.host \in Seq(Hosts) /\ d.ident \in Seq(Data) /\ d.log \in Seq([msg : Msg, host : Nat])
          /\ d.name \in Seq(Nat) /\ d.value \in Seq([parent : Nat, name : Nat])
      BY <2>3 DEF Right, Rows
    <3>2. /\ DOMAIN d.log = 1 .. Len(d.log) /\ DOMAIN d.ident = 1 .. Len(d.ident)
          /\ DOMAIN d.name = 1 .. Len(d.name) /\ DOMAIN d.value = 1 .. Len(d.value)
          /\ Len(d.host) \in Nat
      BY <3>1, LenProperties
    <3>3. \A n \in 1 .. Len(d.log) : d.log[n].host \in Nat
      <4>1. \A n \in 1 .. Len(d.log) : d.log[n] \in [msg : Msg, host : Nat]
        BY <3>1, ElementOfSeq
      <4> QED
        BY <4>1
    <3>4. /\ HostsRight(d) /\ NamesRight(d) /\ ValuesRight(d)
      BY <2>3 DEF Right
    <3>5. \A n \in DOMAIN d.log : d.log[n].host \in 0 .. Len(d.host)
      BY <3>2, <3>3, <3>4 DEF HostsRight
    <3>6. \A n \in DOMAIN d.name : d.name[n] \in DOMAIN d.ident
      BY <3>2, <3>4 DEF NamesRight
    <3>7. \A n \in DOMAIN d.value :
            d.value[n].parent \in DOMAIN d.log /\ d.value[n].name \in DOMAIN d.name
      BY <3>2, <3>4 DEF ValuesRight
    <3> QED
      BY <3>5, <3>6, <3>7
  <2> QED
    BY <2>1, <2>2, <2>3 DEF RowsInv, WorkerType, Places, QueuesInv, TypeOK
<1> QED
  BY <1>1, TypesInvariant, PTL

-----------------------------------------------------------------------------
(***************************************************************************)
(* What is taken is stored.  Every message that AddMessage logs is a new   *)
(* one, because an input numbers its messages and hands them out in their  *)
(* order; so the logged messages are as many as were taken, less those     *)
(* that an open or a statement has cost.  The open that failed costs its   *)
(* message only when that message is taken.                                *)
(***************************************************************************)
LEMMA OccurrencesGrow ==
  ASSUME NEW S, NEW x, NEW count, NEW more, IsFiniteSet(Occurrences(count, S)),
         count[x] \in Nat, more[x] = count[x] + 1,
         \A y \in S : y # x => more[y] = count[y]
  PROVE  /\ IsFiniteSet(Occurrences(more, S))
         /\ Cardinality(Occurrences(count, S)) \in Nat
         /\ Cardinality(Occurrences(more, S)) =
              Cardinality(Occurrences(count, S)) + (IF x \in S THEN 1 ELSE 0)
<1> DEFINE new == <<x, count[x] + 1>>
<1>1. \A c, p : p \in Occurrences(c, S) <=> \E y \in S : \E k \in 1 .. c[y] : p = <<y, k>>
  BY DEF Occurrences
<1>2. /\ count[x] \in Nat /\ more[x] = count[x] + 1
      /\ \A y \in S : y # x => more[y] = count[y]
  OBVIOUS
<1>3. new \notin Occurrences(count, S)
  BY <1>1, <1>2
<1>4. CASE x \in S
  <2>1. ASSUME NEW p \in Occurrences(more, S)
        PROVE  p \in Occurrences(count, S) \cup {new}
    <3>0. PICK y \in S : \E k \in 1 .. more[y] : p = <<y, k>>
      BY DEF Occurrences
    <3>1. PICK k \in 1 .. more[y] : p = <<y, k>>
      BY <3>0
    <3>2. CASE y = x /\ k = count[x] + 1
      BY <3>1, <3>2
    <3>3. CASE ~(y = x /\ k = count[x] + 1)
      <4>1. k \in 1 .. count[y]
        BY <1>2, <3>3
      <4> QED
        BY <1>1, <3>1, <4>1
    <3> QED
      BY <3>2, <3>3
  <2>2. ASSUME NEW p \in Occurrences(count, S) \cup {new}
        PROVE  p \in Occurrences(more, S)
    <3>1. CASE p = new
      <4>1. count[x] + 1 \in 1 .. more[x]
        BY <1>2
      <4> QED
        BY <1>1, <1>4, <3>1, <4>1
    <3>2. CASE p # new
      <4>0. PICK y \in S : \E k \in 1 .. count[y] : p = <<y, k>>
        BY <1>1, <3>2
      <4>1. PICK k \in 1 .. count[y] : p = <<y, k>>
        BY <4>0
      <4>2. k \in 1 .. more[y]
        BY <1>2
      <4> QED
        BY <1>1, <4>1, <4>2
    <3> QED
      BY <3>1, <3>2
  <2>3. Occurrences(more, S) = Occurrences(count, S) \cup {new}
    BY <2>1, <2>2
  <2> HIDE DEF new
  <2>4. /\ IsFiniteSet(Occurrences(count, S) \cup {new})
        /\ Cardinality(Occurrences(count, S) \cup {new}) = Cardinality(Occurrences(count, S)) + 1
    BY <1>3, FS_AddElement
  <2> QED
    BY <1>2, <1>4, <2>3, <2>4, FS_CardinalityType
<1>5. CASE x \notin S
  <2>1. \A y \in S : more[y] = count[y]
    BY <1>2, <1>5
  <2>2. Occurrences(more, S) = Occurrences(count, S)
    <3>1. \A y \in S : 1 .. more[y] = 1 .. count[y]
      BY <2>1
    <3> QED
      BY <3>1 DEF Occurrences
  <2>3. Cardinality(Occurrences(count, S)) \in Nat
    BY FS_CardinalityType
  <2> QED
    BY <1>2, <1>5, <2>2, <2>3
<1> QED
  BY <1>4, <1>5

Commits == Faults \cap {"commit"}
Losses == Faults \cap {"open", "statement"}

LEMMA FaultCounted ==
  ASSUME faults \in [Faults -> Nat], NEW S \in SUBSET Faults,
         IsFiniteSet(Occurrences(faults, S)), NEW f, Fault(f)
  PROVE  /\ f \in Faults
         /\ faults' \in [Faults -> Nat] /\ IsFiniteSet(Occurrences(faults', S))
         /\ NofFaults(S) \in Nat /\ NofFaults(S)' = NofFaults(S) + (IF f \in S THEN 1 ELSE 0)
<1>1. f \in Faults /\ faults' = [faults EXCEPT ![f] = @ + 1]
  BY DEF Fault
<1>2. PICK more : more = faults'
  OBVIOUS
<1>4. /\ more \in [Faults -> Nat] /\ more[f] = faults[f] + 1
      /\ \A y \in Faults \ {f} : more[y] = faults[y]
  BY <1>1, <1>2
<1>3. /\ IsFiniteSet(Occurrences(more, S))
      /\ Cardinality(Occurrences(faults, S)) \in Nat
      /\ Cardinality(Occurrences(more, S)) =
           Cardinality(Occurrences(faults, S)) + (IF f \in S THEN 1 ELSE 0)
  <2>1. more \in [Faults -> Nat] /\ more[f] = faults[f] + 1
    BY <1>4
  <2>2. \A y \in S : y # f => more[y] = faults[y]
    BY <1>4
  <2>3. faults[f] \in Nat
    BY <1>1
  <2> QED
    BY <2>1, <2>2, <2>3, OccurrencesGrow
<1> QED
  BY <1>1, <1>2, <1>3, <1>4 DEF NofFaults

\* The rows that AddMessage adds to the log.
LEMMA MessageLogged ==
  ASSUME NEW d, Right(d), NEW msg \in Msg, NEW broken \in Inserts
  PROVE  Logged(AddMessage(d, msg, broken)) =
           IF broken = "log" THEN Logged(d) ELSE Logged(d) \cup {msg}
<1> DEFINE host   == AddUniqueName(d, "host", msg.content.host, broken = "host")
           logged == [host.rows EXCEPT !.log = Append(@, [msg |-> msg, host |-> host.id])]
           ident  == AddUniqueName(logged, "ident", msg.content.data, broken = "ident")
           named  == [ident.rows EXCEPT !.name = Append(@, ident.id)]
           valued == [named EXCEPT !.value = Append(@, [parent |-> Len(named.log), name |-> Len(named.name)])]
<1>1. msg.content.host \in Hosts /\ msg.content.data \in Data
  BY DEF Msg, Hosts, Data
<1>2. Right(host.rows) /\ host.rows.log = d.log /\ host.id \in Nat
      /\ host.id \in 0 .. Len(host.rows.host)
      /\ (host.id # 0 => host.rows.host[host.id] = msg.content.host)
  <2> DEFINE fails == broken = "host"
  <2>1. host = AddUniqueName(d, "host", msg.content.host, fails)
    OBVIOUS
  <2>2. d \in Rows /\ (host.rows = d \/ \E x : host.rows = [d EXCEPT !.host = x])
    BY <2>1 DEF AddUniqueName, Unique, Right
  <2> HIDE DEF host, fails
  <2>3. host.rows.log = d.log
    BY <2>2 DEF Rows
  <2>4. Right(host.rows) /\ host.id \in 0 .. Len(host.rows.host)
        /\ (host.id # 0 => host.rows.host[host.id] = msg.content.host)
    BY <1>1, <2>1, HostUnique
  <2> QED
    BY <2>3, <2>4
<1>3. Right(logged) /\ logged.log = Append(d.log, [msg |-> msg, host |-> host.id])
  <2>1. PICK h : h = host
    OBVIOUS
  <2>2. /\ Right(h.rows) /\ h.rows.log = d.log /\ h.id \in 0 .. Len(h.rows.host)
        /\ (h.id # 0 => h.rows.host[h.id] = msg.content.host)
    BY <1>2, <2>1
  <2>3. logged = [h.rows EXCEPT !.log = Append(@, [msg |-> msg, host |-> h.id])]
    BY <2>1
  <2> HIDE DEF host, logged
  <2>4. Right(logged)
    BY <2>2, <2>3, LogAdded
  <2>5. "log" \in DOMAIN h.rows
    BY <2>2 DEF Right, Rows
  <2> QED
    BY <2>1, <2>2, <2>3, <2>4, <2>5
<1>4. Logged(logged) = Logged(d) \cup {msg}
  <2> DEFINE row == [msg |-> msg, host |-> host.id]
  <2>1. d.log \in Seq([msg : Msg, host : Nat]) /\ row \in [msg : Msg, host : Nat] /\ row.msg = msg
    BY <1>2 DEF Right, Rows
  <2>2. logged.log = Append(d.log, row)
    BY <1>3
  <2> HIDE DEF row, host, logged
  <2>3. /\ DOMAIN d.log = 1 .. Len(d.log) /\ DOMAIN logged.log = (1 .. Len(d.log)) \cup {Len(d.log) + 1}
        /\ \A i \in 1 .. Len(d.log) : logged.log[i] = d.log[i]
        /\ logged.log[Len(d.log) + 1] = row
    BY <2>1, <2>2, AppendFacts, LenProperties
  <2> QED
    BY <2>1, <2>3 DEF Logged
<1> HIDE DEF host, logged
<1>5. Right(ident.rows) /\ ident.rows.log = logged.log
  <2> DEFINE fails == broken = "ident"
  <2>1. ident = AddUniqueName(logged, "ident", msg.content.data, fails)
    OBVIOUS
  <2> HIDE DEF ident, fails
  <2> QED
    BY <1>1, <1>3, <2>1, IdentUnique
<1> HIDE DEF ident
<1>6. named.log = logged.log /\ valued.log = logged.log
  BY <1>5 DEF Right, Rows
<1> HIDE DEF named, valued
<1>7. /\ broken = "log" => AddMessage(d, msg, broken) = host.rows
      /\ broken # "log" => AddMessage(d, msg, broken) \in {ident.rows, named, valued}
  BY DEF AddMessage, host, logged, ident, named, valued
<1>8. \A e : (e.log = d.log => Logged(e) = Logged(d))
             /\ (e.log = logged.log => Logged(e) = Logged(logged))
  BY DEF Logged
<1> QED
  BY <1>2, <1>4, <1>5, <1>6, <1>7, <1>8

\* An input numbers its messages; those that wait are in their order, and those
\* that are logged have come before them.
Before(m) ==
  m.nr <= sent[m.from] /\ \A k \in 1 .. Len(queue[m.from]) : m.nr < queue[m.from][k].nr

OrderInv ==
  /\ \A i \in Input : \A k \in 1 .. Len(queue[i]) :
       /\ queue[i][k].from = i /\ queue[i][k].nr <= sent[i]
       /\ \A j \in 1 .. Len(queue[i]) : j < k => queue[i][j].nr < queue[i][k].nr
  /\ \A m \in Logged(db) \cup Logged(tx) : Before(m)

\* The message that an open which failed is going to cost.
Costs == IF worker.at = "take" /\ ~worker.open THEN 1 ELSE 0

CountInv ==
  /\ faults \in [Faults -> Nat]
  /\ IsFiniteSet(Occurrences(faults, Commits)) /\ IsFiniteSet(Occurrences(faults, Losses))
  /\ IsFiniteSet(Occurrences(taken, Input))
  /\ IsFiniteSet(Logged(db)) /\ IsFiniteSet(Logged(tx))
  /\ Alive /\ NofFaults(Commits) = 0 =>
       Total(taken) + Costs <= Cardinality(Logged(tx)) + NofFaults(Losses)

LossInv == RowsInv /\ QueuesInv /\ OrderInv /\ CountInv

LEMMA LoggedType ==
  ASSUME NEW d, Right(d)
  PROVE  Logged(d) \subseteq Msg
<1>1. d.log \in Seq([msg : Msg, host : Nat]) /\ DOMAIN d.log = 1 .. Len(d.log)
  BY LenProperties DEF Right, Rows
<1>2. \A n \in 1 .. Len(d.log) : d.log[n] \in [msg : Msg, host : Nat]
  BY <1>1, ElementOfSeq
<1> QED
  BY <1>1, <1>2 DEF Logged

\* What a step that takes a message does to the log of the scope.
LEMMA TakeFacts ==
  ASSUME LossInv, TakeMessage, NEW i, i = inputs[worker.place], NEW m, m = Head(queue[i])
  PROVE  /\ i \in Input /\ m \in Msg /\ m \notin Logged(tx)
         /\ \/ ~worker.open /\ tx' = tx /\ faults' = faults
               /\ worker' = [worker EXCEPT !.at = "close"]
            \/ worker.open /\ Logged(tx') = Logged(tx) \cup {m} /\ worker' = worker
               /\ (faults' = faults \/ Fault("statement"))
            \/ worker.open /\ Logged(tx') = Logged(tx) /\ worker' = worker /\ Fault("statement")
<1>1. /\ i \in Input /\ m \in Msg /\ m = queue[i][1] /\ Len(queue[i]) \in Nat \ {0}
  BY TakesFromInput DEF LossInv, RowsInv
<1>2. m.from = i /\ m.nr \in Nat
  BY <1>1 DEF LossInv, OrderInv, Msg
<1>3. m \notin Logged(tx)
  <2>1. 1 \in 1 .. Len(queue[i])
    BY <1>1
  <2> QED
    BY <1>1, <1>2, <2>1 DEF LossInv, OrderInv, Before
<1>4. CASE ~worker.open
  BY <1>1, <1>3, <1>4 DEF TakeMessage, NoFault, Goto
<1>5. CASE worker.open
  <2>1. PICK broken \in Inserts :
          /\ IF broken = "none" THEN NoFault ELSE Fault("statement")
          /\ tx' = AddMessage(tx, m, broken)
    BY <1>5 DEF TakeMessage
  <2>2. Logged(tx') = IF broken = "log" THEN Logged(tx) ELSE Logged(tx) \cup {m}
    BY <1>1, <2>1, MessageLogged DEF LossInv, RowsInv
  <2>3. worker' = worker
    BY <1>5 DEF TakeMessage
  <2> QED
    BY <1>1, <1>3, <1>5, <2>1, <2>2, <2>3 DEF NoFault
<1> QED
  BY <1>4, <1>5

LEMMA SameTraffic ==
  ASSUME OrderInv, UNCHANGED <<queue, sent>>, db' \in {db, tx}, tx' \in {db, tx}
  PROVE  OrderInv'
<1>1. Logged(db)' \cup Logged(tx)' \subseteq Logged(db) \cup Logged(tx)
  BY DEF Logged
<1>2. \A m : Before(m) => Before(m)'
  BY DEF Before
<1> QED
  BY <1>1, <1>2 DEF OrderInv

LEMMA EarlierPlace ==
  \A n \in Nat : \A k, l \in (1 .. n) \cup {n + 1} : l < k => l \in 1 .. n
OBVIOUS

LEMMA OrderStep == LossInv /\ [Next]_vars => OrderInv'
<1> SUFFICES ASSUME LossInv, [Next]_vars
             PROVE  OrderInv'
  OBVIOUS
<1>0. /\ \A m \in Logged(db) \cup Logged(tx) : m.from \in Input /\ m.nr \in Nat /\ Before(m)
      /\ \A i \in Input : queue[i] \in Seq(Msg) /\ Len(queue[i]) \in Nat /\ sent[i] \in Nat
      /\ \A i \in Input : \A k \in 1 .. Len(queue[i]) : queue[i][k].nr \in Nat
  <2>1. \A i \in Input : queue[i] \in Seq(Msg) /\ Len(queue[i]) \in Nat /\ sent[i] \in Nat
    BY LenProperties DEF LossInv, RowsInv, Traffic
  <2>2. \A m \in Msg : m.from \in Input /\ m.nr \in Nat
    BY DEF Msg
  <2>3. \A i \in Input : \A k \in 1 .. Len(queue[i]) : queue[i][k] \in Msg
    BY <2>1, ElementOfSeq
  <2> QED
    BY <2>1, <2>2, <2>3, LoggedType DEF LossInv, RowsInv, OrderInv
<1>1. CASE UNCHANGED <<queue, sent>> /\ db' \in {db, tx} /\ tx' \in {db, tx}
  BY <1>1, SameTraffic DEF LossInv
<1>2. CASE Receive
  <2>1. PICK i \in Input, m \in Msg :
          /\ m.from = i /\ m.nr = sent[i] + 1
          /\ sent' = [sent EXCEPT ![i] = @ + 1]
          /\ queue' = [queue EXCEPT ![i] = Append(@, m)]
    BY <1>2, ReceiveFacts DEF LossInv, RowsInv
  <2>2. UNCHANGED <<db, tx>>
    BY <1>2 DEF Receive, rows
  <2>3. /\ \A j \in Input : sent'[j] = IF j = i THEN sent[i] + 1 ELSE sent[j]
        /\ \A j \in Input : queue'[j] = IF j = i THEN Append(queue[i], m) ELSE queue[j]
    BY <2>1 DEF LossInv, RowsInv, Traffic
  <2>4. /\ 1 .. Len(Append(queue[i], m)) = (1 .. Len(queue[i])) \cup {Len(queue[i]) + 1}
        /\ \A k \in 1 .. Len(queue[i]) : Append(queue[i], m)[k] = queue[i][k]
        /\ Append(queue[i], m)[Len(queue[i]) + 1] = m
    BY <1>0, AppendFacts
  <2>a. \A k, l \in (1 .. Len(queue[i])) \cup {Len(queue[i]) + 1} : l < k => l \in 1 .. Len(queue[i])
    BY <1>0, EarlierPlace
  <2>5. ASSUME NEW j \in Input, NEW k \in 1 .. Len(queue'[j])
        PROVE  /\ queue'[j][k].from = j /\ queue'[j][k].nr <= sent'[j]
               /\ \A l \in 1 .. Len(queue'[j]) : l < k => queue'[j][l].nr < queue'[j][k].nr
    <3>1. CASE j # i
      BY <2>3, <3>1 DEF LossInv, OrderInv
    <3>2. CASE j = i /\ k \in 1 .. Len(queue[i])
      <4>1. queue'[j][k] = queue[i][k] /\ sent'[j] = sent[i] + 1
        BY <2>3, <2>4, <3>2
      <4>2. \A l \in 1 .. Len(queue'[j]) : l < k => l \in 1 .. Len(queue[i]) /\ queue'[j][l] = queue[i][l]
        BY <2>3, <2>4, <2>a, <3>2
      <4> QED
        BY <1>0, <3>2, <4>1, <4>2 DEF LossInv, OrderInv
    <3>3. CASE j = i /\ k = Len(queue[i]) + 1
      <4>1. queue'[j][k] = m /\ sent'[j] = sent[i] + 1
        BY <2>3, <2>4, <3>3
      <4>2. \A l \in 1 .. Len(queue'[j]) : l < k => l \in 1 .. Len(queue[i]) /\ queue'[j][l] = queue[i][l]
        BY <2>3, <2>4, <2>a, <3>3
      <4> QED
        BY <1>0, <2>1, <3>3, <4>1, <4>2 DEF LossInv, OrderInv
    <3> QED
      BY <2>3, <2>4, <3>1, <3>2, <3>3
  <2>6. ASSUME NEW e \in Logged(db) \cup Logged(tx)
        PROVE  Before(e)'
    <3>1. CASE e.from # i
      BY <1>0, <2>3, <3>1 DEF Before
    <3>2. CASE e.from = i
      BY <1>0, <2>1, <2>3, <2>4, <3>2 DEF Before
    <3> QED
      BY <3>1, <3>2
  <2>7. Logged(db)' = Logged(db) /\ Logged(tx)' = Logged(tx)
    BY <2>2 DEF Logged
  <2> QED
    BY <2>5, <2>6, <2>7 DEF OrderInv
<1>3. CASE DeleteInput
  <2>1. PICK n \in DOMAIN inputs : queue' = [queue EXCEPT ![inputs[n]] = << >>]
    BY <1>3 DEF DeleteInput
  <2>2. \A j \in Input : queue'[j] = queue[j] \/ queue'[j] = << >>
    BY <2>1 DEF LossInv, RowsInv, Traffic
  <2>3. sent' = sent /\ db' \in {db, tx} /\ tx' \in {db, tx}
    BY <1>3 DEF DeleteInput, Disturb, rows
  <2>4. Len(<< >>) = 0
    BY EmptySeq
  <2>5. \A e \in Logged(db) \cup Logged(tx) : Before(e)'
    BY <1>0, <2>2, <2>3, <2>4 DEF Before
  <2>6. Logged(db)' \cup Logged(tx)' \subseteq Logged(db) \cup Logged(tx)
    BY <2>3 DEF Logged
  <2>7. \A j \in Input : \A k \in 1 .. Len(queue'[j]) : queue'[j] = queue[j]
    BY <2>2, <2>4
  <2> QED
    BY <2>3, <2>5, <2>6, <2>7 DEF LossInv, OrderInv
<1>4. CASE TakeMessage
  <2>1. PICK i, m : i = inputs[worker.place] /\ m = Head(queue[i])
    OBVIOUS
  <2>2. i \in Input /\ m \in Msg /\ Logged(tx') \subseteq Logged(tx) \cup {m}
    BY <1>4, <2>1, TakeFacts DEF LossInv
  <2>3. queue' = [queue EXCEPT ![i] = Tail(@)] /\ sent' = sent /\ db' = db
    BY <1>4, <2>1 DEF TakeMessage
  <2>4. /\ m = queue[i][1] /\ Len(queue[i]) \in Nat \ {0}
        /\ Len(Tail(queue[i])) = Len(queue[i]) - 1
        /\ \A k \in 1 .. Len(queue[i]) - 1 : Tail(queue[i])[k] = queue[i][k + 1]
    BY <1>4, <2>1, TakesFromInput DEF LossInv, RowsInv
  <2>5. /\ queue'[i] = Tail(queue[i])
        /\ \A j \in Input \ {i} : queue'[j] = queue[j]
    BY <2>2, <2>3 DEF LossInv, RowsInv, Traffic
  <2>6. \A k \in 1 .. Len(queue'[i]) : k + 1 \in 1 .. Len(queue[i]) /\ queue'[i][k] = queue[i][k + 1]
    BY <2>4, <2>5
  <2>7. ASSUME NEW j \in Input, NEW k \in 1 .. Len(queue'[j])
        PROVE  /\ queue'[j][k].from = j /\ queue'[j][k].nr <= sent[j]
               /\ \A l \in 1 .. Len(queue'[j]) : l < k => queue'[j][l].nr < queue'[j][k].nr
    <3>1. CASE j # i
      BY <2>5, <3>1 DEF LossInv, OrderInv
    <3>2. CASE j = i
      <4>1. Len(queue'[i]) \in Nat
        BY <2>4, <2>5
      <4>2. \A l \in 1 .. Len(queue'[i]) : l < k => l + 1 < k + 1
        BY <3>2, <4>1
      <4> QED
        <5>0. PICK q \in 1 .. Len(queue[i]) : q = k + 1 /\ queue'[i][k] = queue[i][q]
          BY <2>6, <3>2
        <5>1. /\ queue'[i][k].from = i /\ queue'[i][k].nr <= sent[i]
          BY <2>2, <5>0 DEF LossInv, OrderInv
        <5>2. ASSUME NEW l \in 1 .. Len(queue'[i]), l < k
              PROVE  queue'[i][l].nr < queue'[i][k].nr
          <6>1. /\ queue'[i][l] = queue[i][l + 1] /\ l + 1 \in 1 .. Len(queue[i])
                /\ queue'[i][k] = queue[i][k + 1] /\ k + 1 \in 1 .. Len(queue[i])
                /\ l + 1 < k + 1
            BY <2>6, <3>2, <4>2, <5>2
          <6> QED
            BY <2>2, <6>1 DEF LossInv, OrderInv
        <5> QED
          BY <3>2, <5>1, <5>2
    <3> QED
      BY <3>1, <3>2
  <2>8. ASSUME NEW e \in Logged(db) \cup Logged(tx)
        PROVE  Before(e)'
    <3>1. CASE e.from # i
      BY <1>0, <2>3, <2>5, <3>1 DEF Before
    <3>2. CASE e.from = i
      BY <1>0, <2>3, <2>6, <3>2, SMTT(30) DEF Before
    <3> QED
      BY <3>1, <3>2
  <2>9. Before(m)'
    <3>1. 1 \in 1 .. Len(queue[i]) /\ \A k \in 1 .. Len(queue'[i]) : 1 < k + 1
      BY <2>4
    <3>2. m.from = i /\ m.nr <= sent[i]
      BY <2>2, <2>4, <3>1 DEF LossInv, OrderInv
    <3>3. \A k \in 1 .. Len(queue'[i]) : m.nr < queue'[i][k].nr
      BY <2>2, <2>4, <2>6, <3>1 DEF LossInv, OrderInv
    <3> QED
      BY <2>3, <3>2, <3>3 DEF Before
  <2>10. Logged(db)' \cup Logged(tx)' \subseteq Logged(db) \cup Logged(tx) \cup {m}
    BY <2>2, <2>3 DEF Logged
  <2> QED
    BY <2>3, <2>7, <2>8, <2>9, <2>10 DEF OrderInv
<1>5. CASE AddInput
  BY <1>1, <1>5 DEF AddInput, Disturb, traffic, rows
<1>6. CASE InitEnvironment \/ Start \/ Stop \/ Join \/ (WorkerThread /\ ~TakeMessage)
  BY <1>1, <1>6 DEF InitEnvironment, Start, Stop, Join, WorkerThread, WorkerStarts, Loop, WaitFor,
                    Block, Timeout, NextInput, OpenGuard, NoMessage, NullInput, CloseGuard, traffic, rows
<1> QED
  BY <1>1, <1>2, <1>3, <1>4, <1>5, <1>6 DEF Next, vars, traffic, rows, WorkerThread

\* A fault that is neither a COMMIT's nor one that costs a message.
LEMMA NewFault ==
  ASSUME CountInv, NEW f, Fault(f)
  PROVE  /\ faults' \in [Faults -> Nat]
         /\ IsFiniteSet(Occurrences(faults', Commits)) /\ IsFiniteSet(Occurrences(faults', Losses))
         /\ NofFaults(Commits) \in Nat /\ NofFaults(Losses) \in Nat
         /\ NofFaults(Commits)' = NofFaults(Commits) + (IF f = "commit" THEN 1 ELSE 0)
         /\ NofFaults(Losses)' =
              NofFaults(Losses) + (IF f \in {"open", "statement"} THEN 1 ELSE 0)
<1>1. /\ Commits \in SUBSET Faults /\ Losses \in SUBSET Faults
      /\ f \in Faults => (f \in Commits <=> f = "commit")
      /\ f \in Faults => (f \in Losses <=> f \in {"open", "statement"})
  BY DEF Commits, Losses
<1>2. /\ f \in Faults /\ faults' \in [Faults -> Nat] /\ IsFiniteSet(Occurrences(faults', Commits))
      /\ NofFaults(Commits) \in Nat
      /\ NofFaults(Commits)' = NofFaults(Commits) + (IF f \in Commits THEN 1 ELSE 0)
  BY <1>1, FaultCounted DEF CountInv
<1>3. /\ IsFiniteSet(Occurrences(faults', Losses)) /\ NofFaults(Losses) \in Nat
      /\ NofFaults(Losses)' = NofFaults(Losses) + (IF f \in Losses THEN 1 ELSE 0)
  BY <1>1, FaultCounted DEF CountInv
<1> QED
  BY <1>1, <1>2, <1>3

LEMMA CountTypes ==
  ASSUME CountInv
  PROVE  /\ NofFaults(Commits) \in Nat /\ NofFaults(Losses) \in Nat /\ Total(taken) \in Nat
         /\ Cardinality(Logged(tx)) \in Nat /\ Cardinality(Logged(db)) \in Nat
         /\ Costs \in {0, 1}
BY FS_CardinalityType DEF CountInv, NofFaults, Total, Costs

\* A step that stores and drops nothing: its faults may only add to the losses.
LEMMA SameCount ==
  ASSUME CountInv, UNCHANGED <<taken, db, tx>>, Alive' => Alive,
         \/ faults' = faults /\ (Alive' => Costs' <= Costs)
         \/ Fault("open") /\ (Alive' => Costs' <= Costs + 1)
         \/ Fault("create") /\ (Alive' => Costs' <= Costs)
  PROVE  CountInv'
<1>1. /\ Logged(db)' = Logged(db) /\ Logged(tx)' = Logged(tx) /\ Total(taken)' = Total(taken)
      /\ Costs' \in {0, 1}
  BY DEF Logged, Total, Costs
<1>2. CASE faults' = faults
  <2>1. NofFaults(Commits)' = NofFaults(Commits) /\ NofFaults(Losses)' = NofFaults(Losses)
    BY <1>2 DEF NofFaults
  <2>2. CASE Alive' => Costs' <= Costs
    BY <1>1, <1>2, <2>1, <2>2, CountTypes DEF CountInv
  <2>3. CASE ~(Alive' => Costs' <= Costs)
    <3>1. PICK f \in {"open", "create"} : Fault(f)
      BY <2>3
    <3>2. faults'[f] = faults[f] + 1 /\ faults[f] \in Nat
      BY <3>1 DEF Fault, CountInv
    <3> QED
      BY <1>2, <3>2
  <2> QED
    BY <2>2, <2>3
<1>3. CASE faults' # faults
  <2>1. PICK f \in {"open", "create"} : /\ Fault(f)
                                        /\ Alive' => Costs' <= Costs + (IF f = "open" THEN 1 ELSE 0)
    BY <1>3, CountTypes
  <2>2. /\ faults' \in [Faults -> Nat]
        /\ IsFiniteSet(Occurrences(faults', Commits)) /\ IsFiniteSet(Occurrences(faults', Losses))
        /\ NofFaults(Commits)' = NofFaults(Commits)
        /\ NofFaults(Losses)' = NofFaults(Losses) + (IF f = "open" THEN 1 ELSE 0)
    BY <2>1, NewFault
  <2>3. Alive' /\ NofFaults(Commits)' = 0 =>
          Total(taken)' + Costs' <= Cardinality(Logged(tx))' + NofFaults(Losses)'
    BY <1>1, <2>1, <2>2, CountTypes DEF CountInv
  <2> QED
    BY <1>1, <2>2, <2>3 DEF CountInv
<1> QED
  BY <1>2, <1>3

LEMMA TakeCounts ==
  ASSUME LossInv, TakeMessage
  PROVE  CountInv'
<1>1. PICK i, m : i = inputs[worker.place] /\ m = Head(queue[i])
  OBVIOUS
<1>2. /\ i \in Input /\ m \notin Logged(tx)
      /\ \/ ~worker.open /\ tx' = tx /\ faults' = faults
            /\ worker' = [worker EXCEPT !.at = "close"]
         \/ worker.open /\ Logged(tx') = Logged(tx) \cup {m} /\ worker' = worker
            /\ (faults' = faults \/ Fault("statement"))
         \/ worker.open /\ Logged(tx') = Logged(tx) /\ worker' = worker /\ Fault("statement")
  BY <1>1, TakeFacts
<1>3. /\ taken' = [taken EXCEPT ![i] = @ + 1] /\ db' = db /\ worker.at = "take"
  BY <1>1 DEF TakeMessage
<1>4. /\ IsFiniteSet(Occurrences(taken', Input)) /\ Total(taken)' = Total(taken) + 1
  <2>1. PICK more : more = taken'
    OBVIOUS
  <2>2. /\ taken[i] \in Nat /\ more[i] = taken[i] + 1
        /\ \A y \in Input : y # i => more[y] = taken[y]
        /\ IsFiniteSet(Occurrences(taken, Input))
    BY <1>2, <1>3, <2>1 DEF LossInv, QueuesInv, CountInv
  <2>3. /\ IsFiniteSet(Occurrences(more, Input))
        /\ Cardinality(Occurrences(more, Input)) =
             Cardinality(Occurrences(taken, Input)) + (IF i \in Input THEN 1 ELSE 0)
    BY <2>2, OccurrencesGrow
  <2> QED
    BY <1>2, <2>1, <2>3 DEF Total
<1>5. /\ IsFiniteSet(Logged(tx) \cup {m})
      /\ Cardinality(Logged(tx) \cup {m}) = Cardinality(Logged(tx)) + 1
  BY <1>2, FS_AddElement DEF LossInv, CountInv
<1>6. Logged(db)' = Logged(db) /\ Logged(tx)' = Logged(tx')
  BY <1>3 DEF Logged
<1>7. /\ Alive /\ NofFaults(Commits) = 0 =>
           Total(taken) + Costs <= Cardinality(Logged(tx)) + NofFaults(Losses)
      /\ Alive
  BY <1>3 DEF LossInv, CountInv, Alive
<1>8. worker \in [at : Places, place : Nat, open : BOOLEAN]
  BY DEF LossInv, RowsInv, WorkerType
<1>9. CASE ~worker.open
  <2>1. Costs = 1 /\ Costs' = 0
    BY <1>2, <1>3, <1>8, <1>9 DEF Costs
  <2>2. faults' = faults /\ Logged(tx') = Logged(tx)
    BY <1>2, <1>9
  <2>3. NofFaults(Commits)' = NofFaults(Commits) /\ NofFaults(Losses)' = NofFaults(Losses)
    BY <2>2 DEF NofFaults
  <2>4. Cardinality(Logged(tx))' = Cardinality(Logged(tx))
    BY <1>6, <2>2
  <2>5. Alive' /\ NofFaults(Commits)' = 0 =>
          Total(taken)' + Costs' <= Cardinality(Logged(tx))' + NofFaults(Losses)'
    BY <1>4, <1>7, <2>1, <2>3, <2>4, CountTypes DEF LossInv
  <2> QED
    BY <1>4, <1>6, <2>2, <2>5 DEF LossInv, CountInv
<1>10. CASE worker.open
  <2>1. Costs = 0 /\ Costs' = 0 /\ worker' = worker
    BY <1>2, <1>10 DEF Costs
  <2>2. CASE faults' = faults /\ Logged(tx') = Logged(tx) \cup {m}
    <3>1. NofFaults(Commits)' = NofFaults(Commits) /\ NofFaults(Losses)' = NofFaults(Losses)
      BY <2>2 DEF NofFaults
    <3>2. Cardinality(Logged(tx))' = Cardinality(Logged(tx)) + 1 /\ IsFiniteSet(Logged(tx)')
      BY <1>5, <1>6, <2>2
    <3>3. Alive' /\ NofFaults(Commits)' = 0 =>
            Total(taken)' + Costs' <= Cardinality(Logged(tx))' + NofFaults(Losses)'
      BY <1>4, <1>7, <2>1, <3>1, <3>2, CountTypes DEF LossInv
    <3> QED
      BY <1>4, <1>6, <2>2, <3>2, <3>3 DEF LossInv, CountInv
  <2>3. CASE Fault("statement")
    <3>1. /\ faults' \in [Faults -> Nat]
          /\ IsFiniteSet(Occurrences(faults', Commits)) /\ IsFiniteSet(Occurrences(faults', Losses))
          /\ NofFaults(Commits)' = NofFaults(Commits)
          /\ NofFaults(Losses)' = NofFaults(Losses) + 1
      BY <2>3, NewFault, CountTypes DEF LossInv
    <3>2. Cardinality(Logged(tx)') >= Cardinality(Logged(tx)) /\ IsFiniteSet(Logged(tx)')
          /\ Cardinality(Logged(tx)') \in Nat
      <4>1. Cardinality(Logged(tx)) \in Nat /\ IsFiniteSet(Logged(tx))
        BY CountTypes DEF LossInv, CountInv
      <4>2. CASE Logged(tx') = Logged(tx) \cup {m}
        BY <1>5, <1>6, <4>1, <4>2
      <4>3. CASE Logged(tx') = Logged(tx)
        BY <1>6, <4>1, <4>3
      <4> QED
        BY <1>2, <1>10, <4>2, <4>3
    <3>3. Alive' /\ NofFaults(Commits)' = 0 =>
            Total(taken)' + Costs' <= Cardinality(Logged(tx)') + NofFaults(Losses)'
      BY <1>4, <1>7, <2>1, <3>1, <3>2, CountTypes DEF LossInv
    <3> QED
      BY <1>4, <1>6, <3>1, <3>2, <3>3 DEF LossInv, CountInv
  <2> QED
    BY <1>2, <1>10, <2>2, <2>3
<1> QED
  BY <1>9, <1>10

\* A worker that is gone stays gone: what its inputs have taken no longer counts.
LEMMA GoneCounts ==
  ASSUME CountInv, ~Alive', UNCHANGED <<taken, faults>>, db' \in {db, tx}, tx' \in {db, tx}
  PROVE  CountInv'
<1>1. Logged(db)' \in {Logged(db), Logged(tx)} /\ Logged(tx)' \in {Logged(db), Logged(tx)}
  BY DEF Logged
<1> QED
  BY <1>1 DEF CountInv

LEMMA CloseCounts ==
  ASSUME LossInv, CloseGuard
  PROVE  CountInv'
<1>1. worker \in [at : Places, place : Nat, open : BOOLEAN] /\ worker.at = "close"
      /\ worker' = [worker EXCEPT !.at = "input", !.place = @ + 1, !.open = FALSE]
  BY DEF LossInv, RowsInv, WorkerType, CloseGuard
<1>2. worker'.at = "input" /\ taken' = taken
  <2>1. worker' = [at |-> "input", place |-> worker.place + 1, open |-> FALSE]
    BY <1>1
  <2> QED
    BY <2>1 DEF CloseGuard, traffic
<1>3. Costs = 0 /\ Costs' = 0 /\ Alive /\ Alive'
  BY <1>1, <1>2 DEF Costs, Alive
<1>4. Total(taken)' = Total(taken)
  BY <1>2 DEF Total
<1>5. CASE faults' = faults /\ db' = tx /\ tx' = tx
  <2>1. Logged(db)' = Logged(tx) /\ Logged(tx)' = Logged(tx)
    BY <1>5 DEF Logged
  <2>2. NofFaults(Commits)' = NofFaults(Commits) /\ NofFaults(Losses)' = NofFaults(Losses)
    BY <1>5 DEF NofFaults
  <2> QED
    BY <1>2, <1>3, <1>4, <1>5, <2>1, <2>2 DEF LossInv, CountInv
<1>6. CASE Fault("commit") /\ tx' = db /\ db' = db
  <2>1. Logged(db)' = Logged(db) /\ Logged(tx)' = Logged(db)
    BY <1>6 DEF Logged
  <2>2. /\ faults' \in [Faults -> Nat]
        /\ IsFiniteSet(Occurrences(faults', Commits)) /\ IsFiniteSet(Occurrences(faults', Losses))
        /\ NofFaults(Commits) \in Nat /\ NofFaults(Commits)' = NofFaults(Commits) + 1
    BY <1>6, NewFault DEF LossInv
  <2>3. NofFaults(Commits)' # 0
    BY <2>2
  <2> QED
    BY <1>2, <2>1, <2>2, <2>3 DEF LossInv, CountInv
<1> QED
  BY <1>5, <1>6 DEF CloseGuard, NoFault

LEMMA CountStep == LossInv /\ [Next]_vars => CountInv'
<1> SUFFICES ASSUME LossInv, [Next]_vars
             PROVE  CountInv'
  OBVIOUS
<1>0. CountInv /\ worker \in [at : Places, place : Nat, open : BOOLEAN] /\ Costs \in {0, 1}
  BY CountTypes DEF LossInv, RowsInv, WorkerType
<1>1. CASE UNCHANGED <<taken, db, tx, faults>> /\ (worker' = worker \/ (worker'.at # "take" /\ Alive))
  <2>1. (Alive' => Alive) /\ Costs' <= Costs
    BY <1>0, <1>1 DEF Alive, Costs
  <2> QED
    BY <1>0, <1>1, <2>1, SameCount
<1>2. CASE Receive
  BY <1>1, <1>2 DEF Receive, rows
<1>3. CASE InitEnvironment
  <2>1. UNCHANGED <<taken, db, tx, worker>> /\ (faults' = faults \/ Fault("create") \/ Fault("open"))
    BY <1>3 DEF InitEnvironment, NoFault, traffic, rows
  <2>2. (Alive' => Alive) /\ Costs' <= Costs /\ Costs' <= Costs + 1
    BY <1>0, <2>1 DEF Alive, Costs
  <2> QED
    BY <1>0, <2>1, <2>2, SameCount
<1>4. CASE AddInput \/ DeleteInput
  <2>1. UNCHANGED <<taken, faults>> /\ Disturb /\ Alive
    BY <1>4 DEF AddInput, DeleteInput, traffic, Owner
  <2>2. CASE UNCHANGED <<worker, rows>>
    BY <1>1, <2>1, <2>2 DEF rows
  <2>3. CASE worker.at = "input" /\ worker' = [worker EXCEPT !.place = Len(inputs') + 1] /\ UNCHANGED rows
    <3>1. worker'.at = "input"
      BY <1>0, <2>3
    <3> QED
      BY <1>1, <2>1, <2>3, <3>1 DEF rows
  <2>4. CASE worker' = [NoWorker EXCEPT !.at = "crashed"] /\ tx' = db /\ UNCHANGED db
    <3>1. ~Alive'
      BY <2>4 DEF Alive, NoWorker
    <3> QED
      BY <1>0, <2>1, <2>4, <3>1, GoneCounts
  <2> QED
    BY <2>1, <2>2, <2>3, <2>4 DEF Disturb
<1>5. CASE Start \/ Stop \/ Join
  <2>1. UNCHANGED <<taken, db, tx, faults>>
    BY <1>5 DEF Start, Stop, Join, traffic, rows
  <2>2. worker' = worker \/ worker'.at # "take"
    <3>1. CASE Start \/ Join
      <4>1. worker' \in {[at |-> "none", place |-> 0, open |-> FALSE],
                        [at |-> "start", place |-> 0, open |-> FALSE]}
        BY <3>1 DEF Start, Join, NoWorker
      <4> QED
        BY <4>1
    <3>2. CASE Stop
      <4>1. worker' = worker \/ worker' = [worker EXCEPT !.at = "input", !.place = 1]
        BY <3>2 DEF Stop
      <4>2. worker' = worker \/ worker' = [at |-> "input", place |-> 1, open |-> worker.open]
        BY <1>0, <4>1
      <4> QED
        BY <4>2
    <3> QED
      BY <1>5, <3>1, <3>2
  <2>3. Alive
    BY <1>5 DEF Start, Stop, Join, Owner, Alive
  <2> QED
    BY <1>1, <2>1, <2>2, <2>3
<1>6. CASE WorkerStarts \/ Loop \/ WaitFor \/ Block \/ Timeout \/ NextInput \/ NoMessage
  <2>1. UNCHANGED <<taken, db, tx, faults>> /\ worker.at # "crashed"
    BY <1>6 DEF WorkerStarts, Loop, WaitFor, Block, Timeout, NextInput, NoMessage, Goto, traffic, rows
  <2>2. worker'.at # "take"
    BY <1>0, <1>6 DEF WorkerStarts, Loop, WaitFor, Block, Timeout, NextInput, NoMessage, Goto, Pass
  <2> QED
    BY <1>1, <2>1, <2>2 DEF Alive
<1>7. CASE OpenGuard
  <2>1. /\ UNCHANGED <<taken, db, tx>> /\ worker.at = "input"
        /\ \/ faults' = faults /\ worker' = [worker EXCEPT !.at = "take", !.open = TRUE]
           \/ Fault("open") /\ worker' = [worker EXCEPT !.at = "take", !.open = FALSE]
    BY <1>7 DEF OpenGuard, NoFault, traffic, rows
  <2>2. \/ faults' = faults /\ worker' = [at |-> "take", place |-> worker.place, open |-> TRUE]
        \/ Fault("open") /\ worker' = [at |-> "take", place |-> worker.place, open |-> FALSE]
    BY <1>0, <2>1
  <2>3. \/ faults' = faults /\ Costs' = 0
        \/ Fault("open") /\ Costs' = 1
    BY <2>2 DEF Costs
  <2>4. Costs = 0 /\ Alive
    BY <2>1 DEF Costs, Alive
  <2>5. \/ faults' = faults /\ Costs' <= Costs
        \/ Fault("open") /\ Costs' <= Costs + 1
    BY <2>3, <2>4
  <2> QED
    BY <1>0, <2>1, <2>4, <2>5, SameCount
<1>8. CASE TakeMessage
  BY <1>8, TakeCounts
<1>9. CASE NullInput
  <2>1. ~Alive' /\ UNCHANGED <<taken, faults>> /\ tx' = db /\ db' = db
    BY <1>9 DEF NullInput, NoWorker, Alive, traffic
  <2> QED
    BY <1>0, <2>1, GoneCounts
<1>10. CASE CloseGuard
  BY <1>10, CloseCounts
<1>11. CASE UNCHANGED vars
  <2>1. taken' = taken /\ db' = db /\ tx' = tx /\ faults' = faults /\ worker' = worker
    BY <1>11 DEF vars, traffic, rows
  <2>2. UNCHANGED <<taken, db, tx, faults>> /\ (Alive' => Alive) /\ Costs' <= Costs
    BY <1>0, <2>1 DEF Alive, Costs
  <2> QED
    BY <1>0, <2>1, <2>2, SameCount
<1> QED
  BY <1>2, <1>3, <1>4, <1>5, <1>6, <1>7, <1>8, <1>9, <1>10, <1>11 DEF Next, WorkerThread

LEMMA LossInitial == Init => QueuesInv /\ OrderInv /\ CountInv
<1> SUFFICES ASSUME Init
             PROVE  QueuesInv /\ OrderInv /\ CountInv
  OBVIOUS
<1>1. Logged(db) = {} /\ Logged(tx) = {}
  BY EmptySeq DEF Init, NoRows, Logged
<1>2. Len(<< >>) = 0
  BY EmptySeq
<1>3. QueuesInv /\ OrderInv
  BY <1>1, <1>2, EmptySeq DEF Init, QueuesInv, IsInjective, OrderInv
<1>4. /\ Occurrences(taken, Input) = {} /\ Occurrences(faults, Commits) = {}
      /\ Occurrences(faults, Losses) = {}
  BY DEF Init, Occurrences, Commits, Losses
<1>5. Costs = 0
  BY DEF Init, NoWorker, Costs
<1>6. IsFiniteSet({}) /\ Cardinality({}) = 0
  BY FS_EmptySet
<1>7. NofFaults(Losses) = 0 /\ Total(taken) = 0
  BY <1>4, <1>6 DEF NofFaults, Total
<1>8. faults \in [Faults -> Nat]
  BY DEF Init
<1>9. Total(taken) + Costs <= Cardinality(Logged(tx)) + NofFaults(Losses)
  BY <1>1, <1>5, <1>6, <1>7
<1>10. CountInv
  BY <1>1, <1>4, <1>6, <1>8, <1>9 DEF CountInv
<1> QED
  BY <1>3, <1>10

\* Every message that was taken from an input is stored or in the open scope,
\* except for one for each failed open and each failed statement, as long as no
\* COMMIT has failed and the process lives.
THEOREM NothingElseIsLost == Spec => []TakenIsStored
<1>1. LossInv => TakenIsStored
  <2> SUFFICES ASSUME LossInv, Alive, NofFaults(Commits) = 0
               PROVE  Total(taken) <= Cardinality(Logged(tx)) + NofFaults(Losses)
    BY DEF TakenIsStored, Commits, Losses
  <2> QED
    BY CountTypes DEF LossInv, CountInv
<1>2. LossInv /\ [Next]_vars => LossInv'
  BY RowsStep, QueuesStep, OrderStep, CountStep DEF LossInv
<1>3. Init => LossInv
  BY RowsInitial, LossInitial DEF LossInv
<1> QED
  BY <1>1, <1>2, <1>3, PTL DEF Spec
==============================================================================
