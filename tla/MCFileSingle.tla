---------------------------- MODULE MCFileSingle ----------------------------
(* One starter, one file in the input folder and one in its subfolder, and *)
(* one slot of the semaphore: the walk has to wait for a goroutine.        *)
EXTENDS FileEventStarter

CONSTANTS top, other, sub, i1

MCInstances == {i1}
MCFiles     == {top, other, sub}
MCSubFiles  == {sub}
MCMatching  == {top, sub}
MCBaseName  == [f \in Files |-> f]
MCSameName  == [f \in Files |-> IF f = sub THEN top ELSE f]
=============================================================================
