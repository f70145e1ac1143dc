----------------------------- MODULE MCMeasImport -----------------------------
(***************************************************************************)
(* An instance of MeasImport for TLC.                                      *)
(***************************************************************************)
EXTENDS MeasImport

Ch(name, unit, samples) == [name |-> name, unit |-> unit, samples |-> samples]

\* Two files that share a channel and a unit; a file with one data group,
\* one with two, and one with three channel groups that have a channel in common.
MCFiles == <<"f1", "f2">>

MCContents ==
  {<< <<Ch("speed", "m/s", 1)>> >>,
   << <<Ch("speed", "m/s", 2), Ch("flow", "l", 2)>>, <<Ch("speed", "m/s", 1)>> >>,
   << <<Ch("flow", "m/s", 1), Ch("flow", "m/s", 3), Ch("flow", "m/s", 2)>> >>}
===============================================================================
