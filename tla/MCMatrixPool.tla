---------------------------- MODULE MCMatrixPool ----------------------------
(* Instances of MatrixPool: three cases on two workers.                    *)
EXTENDS MatrixPool

\* Every case has a directory of its own.
DistinctDirs == <<"d1", "d2", "d3">>

\* Two cases have one ID, as those of disk_formats: [raw, raw] do.
SharedDirs == <<"d1", "d1", "d2">>
=============================================================================
