------------------------------ MODULE EventLog ------------------------------
(***************************************************************************)
(* What the syslog inserter promises about the message log of a database:  *)
(* a list of messages that is offered is stored as a whole, in its order   *)
(* and behind what is stored already, or it is dropped as a whole.         *)
(***************************************************************************)
EXTENDS Sequences

CONSTANTS Message

VARIABLES
  log,       \* the stored messages
  offered    \* the list that is being stored, <<>> when there is none

Init == log = <<>> /\ offered = <<>>

Offer ==
  /\ offered = <<>>
  /\ offered' \in Seq(Message) \ {<<>>}
  /\ log' = log

Store ==
  /\ offered # <<>>
  /\ log' = log \o offered
  /\ offered' = <<>>

Drop ==
  /\ offered # <<>>
  /\ log' = log
  /\ offered' = <<>>

Next == Offer \/ Store \/ Drop

Spec == Init /\ [][Next]_<<log, offered>>
=============================================================================
