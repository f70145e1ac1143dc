----------------------------- MODULE MCEventLogDb -----------------------------
(* Two syslog servers, to check with TLC.                                  *)
EXTENDS EventLogDb

MCContent == {[host |-> "h", data |-> ""], [host |-> "g", data |-> "id"]}
==============================================================================
