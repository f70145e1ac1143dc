-------------------------- MODULE MCSyslogInserter --------------------------
(***************************************************************************)
(* Instances of SyslogInserter for TLC: few messages that share hosts,     *)
(* applications and identities, so that the caches are hit and missed.     *)
(***************************************************************************)
EXTENDS SyslogInserter

Msg3(host, app, ident, key) ==
  [name |-> [t \in RefTable |-> CASE t = "Hostname" -> host
                                  [] t = "Application" -> app
                                  [] t = "SdIdent" -> ident],
   key |-> key]

MCName == {"a", "b"}

\* Two hosts; one message without an application, one with an identity.
PlainMessages ==
  {Msg3("a", "", "", FALSE), Msg3("b", "a", "", FALSE), Msg3("a", "b", "a", FALSE)}

\* Two hosts and two identities, one of them with a parameter.
DataMessages ==
  {Msg3("a", "", "a", TRUE), Msg3("b", "", "b", FALSE), Msg3("b", "", "", FALSE)}

\* Three hosts, and an identity with a parameter.
MCThreeNames == {"a", "b", "c"}

ThreeHosts ==
  {Msg3("a", "", "a", TRUE), Msg3("b", "", "", FALSE), Msg3("c", "", "", FALSE)}

\* Messages without a host.
HostlessMessages == {Msg3("", "", "a", FALSE), Msg3("", "", "b", FALSE)}
=============================================================================
