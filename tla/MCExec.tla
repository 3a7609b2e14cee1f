-------------------------------- MODULE MCExec --------------------------------
(***************************************************************************)
(* Instances of Exec for TLC.                                              *)
(***************************************************************************)
EXTENDS Exec

\* stdout can exceed both its limit and its pipe; stderr is silent.
MCLimit == [s \in Streams |-> IF s = "stdout" THEN 1 ELSE 0]
MCOutput == [s \in Streams |-> IF s = "stdout" THEN 2 ELSE 0]

\* Nobody writes: for the runs that are about processes and stdin.
MCSilent == [s \in Streams |-> 0]

==============================================================================
