--------------------------- MODULE MCFileCluster ----------------------------
(* Two instances polling the same folder, without subfolders.              *)
EXTENDS FileEventStarter

CONSTANTS a, b, i1, i2

MCInstances == {i1, i2}
MCFiles     == {a, b}
MCBaseName  == [f \in Files |-> f]
=============================================================================
