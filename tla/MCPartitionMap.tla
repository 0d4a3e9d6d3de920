--------------------------- MODULE MCPartitionMap ---------------------------
(* Up to three disks, with no, one or several ext partitions, and gaps
   between their numbers. *)
EXTENDS PartitionMap

MCTables == {<<>>, <<1>>, <<3>>, <<1, 3>>, <<2, 3, 5>>}
MCSystems == {<<>>} \cup UNION {[1 .. k -> MCTables] : k \in 1 .. 3}
MCNames == 0 .. 6
=============================================================================
