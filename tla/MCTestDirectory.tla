-------------------------- MODULE MCTestDirectory --------------------------
(***************************************************************************)
(* Instances of TestDirectory for TLC.                                     *)
(***************************************************************************)
EXTENDS TestDirectory

\* Every directory names the same test bed.
OneBed == [t \in Test |-> "bed"]

\* No directory names a test bed.
NoBed == [t \in Test |-> ""]

\* Every file has a name of its own, or all of them have the same.
OwnNames == [f \in File |-> f]
OneName == [f \in File |-> "f"]

\* Files in every test, or in one of them.
AllPaths == Test \X File
OneTest == {"t1"} \X File
=============================================================================
