------------------------------ MODULE EventLogDb ------------------------------
(***************************************************************************)
(* EventLogDb (src/eventlogdb.cpp): syslog servers are the inputs of a    *)
(* worker thread that stores their messages in an SQLite database.  The   *)
(* class leaves IEnvironment::Database() to a derived class; what is      *)
(* modelled is the class with a Database() that returns database_.        *)
(*                                                                         *)
(* Two threads: the owner, who calls Init, AddInput, DeleteInput, Start   *)
(* and Stop, and the worker.  The inputs receive messages at any time.    *)
(* An application is a host by another name, and is left out, and so is   *)
(* the enterprise of an element, which gets 0 where its name is refused.  *)
(* A message with structured data has one element with one parameter.  A  *)
(* trim never happens: nothing changes nof_messages_ from 0.               *)
(*                                                                         *)
(* A Create that fails leaves no file here.  In the code it may leave one *)
(* without some of the tables; the next Init then answers true without    *)
(* opening it, because the model has been read, and every insert into a   *)
(* table that is missing fails.  DumpRestore has the steps of a Create.   *)
(***************************************************************************)
EXTENDS Naturals, Sequences, FiniteSets, SequencesExt

CONSTANTS
  Input,       \* the syslog servers, by their names
  Content,     \* what a message may hold: [host, data]
  Faults,      \* the faults that happen
  MaxSent,     \* bound: messages that the inputs receive
  MaxFaults, MaxChanges

VARIABLES
  inputs,      \* input_list_
  queue,       \* the messages waiting in an input
  sent, taken, \* how many an input has received and given away
  model,       \* model_ has been read
  ok,          \* is_ok_
  stop,        \* stop_thread_
  owner,       \* "idle", or "join" inside Stop
  worker,      \* where the worker thread is, the place in inputs, the guard
  db, tx,      \* the committed rows, and with those of the open scope
  faults, changes

rows == <<db, tx>>
traffic == <<queue, sent, taken>>
control == <<model, ok, stop, owner>>
vars == <<inputs, traffic, control, worker, rows, faults, changes>>

NoRows == [host |-> << >>, ident |-> << >>, log |-> << >>, name |-> << >>, value |-> << >>]

NoWorker == [at |-> "none", place |-> 0, open |-> FALSE]

Init ==
  /\ inputs = << >>
  /\ queue = [i \in Input |-> << >>]
  /\ sent = [i \in Input |-> 0] /\ taken = [i \in Input |-> 0]
  /\ model = FALSE /\ ok = FALSE /\ stop = FALSE
  /\ owner = "idle"
  /\ worker = NoWorker
  /\ db = NoRows /\ tx = NoRows
  /\ faults = [f \in Faults |-> 0]
  /\ changes = 0

(* A sum over a set, counted as the pairs of an element and a number up to  *)
(* its count.                                                              *)
Occurrences(count, S) == UNION {{x} \X (1 .. count[x]) : x \in S}

NofFaults(F) == Cardinality(Occurrences(faults, F))
Fault(f) == f \in Faults /\ NofFaults(Faults) < MaxFaults /\ faults' = [faults EXCEPT ![f] = @ + 1]
NoFault == UNCHANGED faults

Total(count) == Cardinality(Occurrences(count, Input))

Alive == worker.at # "crashed"

Receive ==
  /\ Alive
  /\ \E i \in ToSet(inputs), c \in Content :
       /\ Total(sent) < MaxSent
       /\ sent' = [sent EXCEPT ![i] = @ + 1]
       /\ queue' = [queue EXCEPT ![i] = Append(@, [from |-> i, nr |-> sent'[i], content |-> c])]
  /\ UNCHANGED <<inputs, taken, control, worker, rows, faults, changes>>

------------------------------------------------------------------------------
(* The owner.                                                              *)
Owner == Alive /\ owner = "idle"

(* Init: the file may have to be created, after the model file has been   *)
(* read; the model of a file that is there is read once.                   *)
InitEnvironment ==
  /\ Owner
  /\ \/ NoFault /\ model' = TRUE /\ ok' = TRUE
     \/ Fault("create") /\ model' \in {model, TRUE} /\ ok' = FALSE
     \/ ~model /\ Fault("open") /\ ok' = FALSE /\ UNCHANGED model
  /\ UNCHANGED <<inputs, traffic, stop, owner, worker, rows, changes>>

InPass == worker.at \in {"input", "take", "close"}

(* A change of the vector while the worker iterates over it is undefined: *)
(* the pass goes on with what now is in its place, or finds null pointers *)
(* up to the end, or the process ends.                                     *)
Disturb ==
  \/ UNCHANGED <<worker, rows>>
  \/ InPass /\ worker.at = "input" /\ worker' = [worker EXCEPT !.place = Len(inputs') + 1] /\ UNCHANGED rows
  \/ InPass /\ worker' = [NoWorker EXCEPT !.at = "crashed"] /\ tx' = db /\ UNCHANGED db

Change == changes < MaxChanges /\ changes' = changes + 1

AddInput ==
  /\ Owner /\ Change
  /\ \E i \in Input \ ToSet(inputs) : inputs' = Append(inputs, i)
  /\ Disturb
  /\ UNCHANGED <<traffic, control, faults>>

DeleteInput ==
  /\ Owner /\ Change
  /\ \E n \in DOMAIN inputs :
       /\ inputs' = RemoveAt(inputs, n)
       /\ queue' = [queue EXCEPT ![inputs[n]] = << >>]
  /\ Disturb
  /\ UNCHANGED <<sent, taken, control, faults>>

Joinable == worker.at # "none"
IsStarted == Joinable /\ ~stop

MutStart ==
  /\ Owner /\ ~IsStarted
  /\ stop' = FALSE
  /\ worker' = [NoWorker EXCEPT !.at = "start"]
  /\ UNCHANGED <<inputs, traffic, model, ok, owner, rows, faults, changes>>

Start ==
  /\ Owner /\ ~IsStarted /\ ok
  /\ stop' = FALSE
  /\ worker' = [NoWorker EXCEPT !.at = "start"]
  /\ UNCHANGED <<inputs, traffic, model, ok, owner, rows, faults, changes>>

(* The notification reaches a worker that is waiting, no other.            *)
Stop ==
  /\ Owner
  /\ stop' = TRUE
  /\ worker' = IF worker.at = "wait" THEN [worker EXCEPT !.at = "input", !.place = 1] ELSE worker
  /\ owner' = "join"
  /\ UNCHANGED <<inputs, traffic, model, ok, rows, faults, changes>>

Join ==
  /\ owner = "join" /\ worker.at \in {"none", "ended"}
  /\ worker' = NoWorker
  /\ owner' = "idle"
  /\ UNCHANGED <<inputs, traffic, model, ok, stop, rows, faults, changes>>

------------------------------------------------------------------------------
(* AddMessage.  AddUniqueName answers 0 for a name that is empty or       *)
(* stored already: SqliteDatabase::Insert does not look at its filter, and *)
(* UNIQUE refuses the row.  "broken" is a statement that throws.           *)
Unique(d, t, name, broken) ==
  IF name = "" \/ broken \/ Contains(d[t], name) THEN [rows |-> d, id |-> 0]
  ELSE [rows |-> [d EXCEPT ![t] = Append(@, name)], id |-> Len(d[t]) + 1]

MutAddUniqueName(d, t, name, broken) ==
  [Unique(d, t, name, broken) EXCEPT !.id = Len(Unique(d, t, name, broken).rows[t])]

AddUniqueName(d, t, name, broken) == Unique(d, t, name, broken)

Inserts == {"none", "host", "log", "ident", "name", "value"}

MutAddMessage(d, msg, broken) ==
  LET r == AddUniqueName(d, "host", msg.content.host, broken = "host").rows
  IN  [r EXCEPT !.log = Append(@, [msg |-> msg, host |-> Len(r.host) + 1])]

AddMessage(d, msg, broken) ==
  LET host   == AddUniqueName(d, "host", msg.content.host, broken = "host")
      logged == [host.rows EXCEPT !.log = Append(@, [msg |-> msg, host |-> host.id])]
      ident  == AddUniqueName(logged, "ident", msg.content.data, broken = "ident")
      named  == [ident.rows EXCEPT !.name = Append(@, ident.id)]
      valued == [named EXCEPT !.value = Append(@, [parent |-> Len(named.log), name |-> Len(named.name)])]
  IN  CASE broken = "log" -> host.rows
        [] broken # "log" /\ ident.id = 0 -> ident.rows
        [] broken = "name" /\ ident.id # 0 -> ident.rows
        [] broken = "value" /\ ident.id # 0 -> named
        [] OTHER -> valued

------------------------------------------------------------------------------
(* The worker.                                                             *)
Goto(from, to) == worker.at = from /\ worker' = [worker EXCEPT !.at = to]

WorkerStarts ==
  /\ Goto("start", "loop")
  /\ ok' = TRUE
  /\ UNCHANGED <<inputs, traffic, model, stop, owner, rows, faults, changes>>

(* while (!stop_thread_), and the first look at the predicate of wait_for. *)
Loop ==
  /\ \/ ~stop /\ Goto("loop", "lock") /\ UNCHANGED ok
     \/ stop /\ Goto("loop", "ended") /\ ok' = TRUE
  /\ UNCHANGED <<inputs, traffic, model, stop, owner, rows, faults, changes>>

Pass == worker' = [worker EXCEPT !.at = "input", !.place = 1]

WaitFor ==
  /\ worker.at = "lock"
  /\ IF stop THEN Pass ELSE Goto("lock", "block")
  /\ UNCHANGED <<inputs, traffic, control, rows, faults, changes>>

(* Stop sets the flag without the lock: it may come in between.            *)
Block ==
  /\ Goto("block", "wait")
  /\ UNCHANGED <<inputs, traffic, control, rows, faults, changes>>

MutTimeout == FALSE

Timeout ==
  /\ worker.at = "wait" /\ Pass
  /\ UNCHANGED <<inputs, traffic, control, rows, faults, changes>>

MutNextInput ==
  /\ worker.at = "input"
  /\ worker.place <= Len(inputs) => queue[inputs[worker.place]] = << >>
  /\ worker' = [worker EXCEPT !.at = "loop"]
  /\ UNCHANGED <<inputs, traffic, control, rows, faults, changes>>

(* DoAllInputMessages; after the last input DoTrimDatabase returns.        *)
NextInput ==
  /\ worker.at = "input"
  /\ IF worker.place > Len(inputs) THEN worker' = [worker EXCEPT !.at = "loop"]
     ELSE /\ queue[inputs[worker.place]] = << >>
          /\ worker' = [worker EXCEPT !.place = @ + 1]
  /\ UNCHANGED <<inputs, traffic, control, rows, faults, changes>>

OpenGuard ==
  /\ worker.at = "input"
  /\ worker.place <= Len(inputs) /\ queue[inputs[worker.place]] # << >>
  /\ \/ NoFault /\ worker' = [worker EXCEPT !.at = "take", !.open = TRUE]
     \/ Fault("open") /\ worker' = [worker EXCEPT !.at = "take", !.open = FALSE]
  /\ UNCHANGED <<inputs, traffic, control, rows, changes>>

(* After a DeleteInput the place may be one behind the last: a null        *)
(* pointer.                                                                *)
Here == worker.place <= Len(inputs)

MutTake ==
  /\ worker.at = "take" /\ Here
  /\ LET i == inputs[worker.place]
     IN  /\ queue[i] # << >>
         /\ queue' = [queue EXCEPT ![i] = Tail(@)]
         /\ taken' = [taken EXCEPT ![i] = @ + 1]
         /\ tx' = IF worker.open THEN AddMessage(tx, Head(queue[i]), "none") ELSE tx
  /\ UNCHANGED <<inputs, sent, control, worker, db, faults, changes>>

(* GetMsg comes before the guard is asked: if it has not opened the       *)
(* database, the message is dropped and the others stay in the queue.     *)
TakeMessage ==
  /\ worker.at = "take" /\ Here
  /\ LET i == inputs[worker.place]
     IN  /\ queue[i] # << >>
         /\ queue' = [queue EXCEPT ![i] = Tail(@)]
         /\ taken' = [taken EXCEPT ![i] = @ + 1]
         /\ IF ~worker.open THEN NoFault /\ Goto("take", "close") /\ UNCHANGED tx
            ELSE /\ UNCHANGED worker
                 /\ \E broken \in Inserts :
                      /\ IF broken = "none" THEN NoFault ELSE Fault("statement")
                      /\ tx' = AddMessage(tx, Head(queue[i]), broken)
  /\ UNCHANGED <<inputs, sent, control, db, changes>>

NoMessage ==
  /\ worker.at = "take" /\ Here /\ queue[inputs[worker.place]] = << >>
  /\ Goto("take", "close")
  /\ UNCHANGED <<inputs, traffic, control, rows, faults, changes>>

NullInput ==
  /\ worker.at = "take" /\ ~Here
  /\ worker' = [NoWorker EXCEPT !.at = "crashed"]
  /\ tx' = db
  /\ UNCHANGED <<inputs, traffic, control, db, faults, changes>>

(* The guard's destructor; a COMMIT that fails is logged.                  *)
CloseGuard ==
  /\ worker.at = "close"
  /\ worker' = [worker EXCEPT !.at = "input", !.place = @ + 1, !.open = FALSE]
  /\ \/ NoFault /\ db' = tx /\ UNCHANGED tx
     \/ worker.open /\ Fault("commit") /\ tx' = db /\ UNCHANGED db
  /\ UNCHANGED <<inputs, traffic, control, changes>>

WorkerThread ==
  \/ WorkerStarts \/ Loop \/ WaitFor \/ Block \/ Timeout
  \/ NextInput \/ OpenGuard \/ TakeMessage \/ NoMessage \/ NullInput \/ CloseGuard

Next ==
  \/ Receive
  \/ InitEnvironment \/ AddInput \/ DeleteInput \/ Start \/ Stop \/ Join
  \/ WorkerThread

(* The threads are scheduled, wait_for times out after a second, and the  *)
(* owner inside Stop waits for nothing but the thread.                     *)
Spec == Init /\ [][Next]_vars /\ WF_vars(WorkerThread) /\ WF_vars(Join)
------------------------------------------------------------------------------
(* The variables keep their types; ids of rows lie within their tables.    *)
TypeOK ==
  /\ ToSet(inputs) \subseteq Input /\ IsInjective(inputs)
  /\ \A i \in Input : taken[i] <= sent[i] /\ Len(queue[i]) <= sent[i] - taken[i]
  /\ owner \in {"idle", "join"}
  /\ worker.at \in {"none", "start", "loop", "lock", "block", "wait", "input", "take", "close", "ended", "crashed"}
  /\ \A d \in {db, tx} :
       /\ \A n \in DOMAIN d.log : d.log[n].host \in 0..Len(d.host)
       /\ \A n \in DOMAIN d.name : d.name[n] \in DOMAIN d.ident
       /\ \A n \in DOMAIN d.value : d.value[n].parent \in DOMAIN d.log /\ d.value[n].name \in DOMAIN d.name

(* The messages of a table of rows.                                        *)
Logged(d) == {d.log[n].msg : n \in DOMAIN d.log}

(* A database that cannot be opened costs one message for each attempt,   *)
(* and a statement that fails the one message that it belongs to: all     *)
(* others that have been taken from the inputs are stored, or are in the  *)
(* open scope (unless a COMMIT or the process failed).                     *)
TakenIsStored ==
  Alive /\ NofFaults(Faults \cap {"commit"}) = 0 =>
    Total(taken) <= Cardinality(Logged(tx)) + NofFaults(Faults \cap {"open", "statement"})

(* A stored message refers to the row of its own host or to none, and its *)
(* value to the identity it came with, after any lost COMMIT: unlike the  *)
(* syslog inserter, the environment keeps no ids outside of the scope.    *)
Attributed ==
  \A n \in DOMAIN db.log :
    /\ db.log[n].host # 0 => db.host[db.log[n].host] = db.log[n].msg.content.host
    /\ \A v \in DOMAIN db.value :
         db.value[v].parent = n =>
           db.ident[db.name[db.value[v].name]] = db.log[n].msg.content.data

(* The worker never runs without a model, so that AddMessage finds its    *)
(* tables, whatever Inits have failed before or while it runs.             *)
WorksWithModel == Joinable => model

(* Stop comes back, although its notification may be lost between the     *)
(* test of the flag and the wait.                                          *)
StopEnds == owner = "join" ~> (owner = "idle" \/ ~Alive)

(* A message that an input has received is taken, unless the input is     *)
(* deleted or the worker stopped: an empty or a failing input does not    *)
(* keep the worker from the others.                                        *)
MessagesAreTaken ==
  \A i \in Input :
    (queue[i] # << >> /\ IsStarted) ~> (queue[i] = << >> \/ ~IsStarted \/ ~Alive)
==============================================================================
