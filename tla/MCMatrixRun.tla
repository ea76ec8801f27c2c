---------------------------- MODULE MCMatrixRun ----------------------------
(* An instance of MatrixRun: three cases on two workers, two harnesses.    *)
EXTENDS MatrixRun

\* Every case has a directory of its own.
DistinctDirs == <<"d1", "d2", "d3">>

\* Two files, one of them without a SHA256; one file name for two versions, of
\* which the second has a SHA256; and another ISO under the first name.
MCConfigs ==
  {<<[name |-> 1, source |-> 1, sha |-> 1], [name |-> 2, source |-> 2, sha |-> 0]>>,
   <<[name |-> 1, source |-> 1, sha |-> 0], [name |-> 1, source |-> 2, sha |-> 2]>>,
   <<[name |-> 1, source |-> 2, sha |-> 2]>>}
=============================================================================
