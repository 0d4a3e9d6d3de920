---------------------------- MODULE MCExtentSearch ----------------------------
(* All headers of up to MaxEntries entries that begin at blocks up to      *)
(* MaxBlock.                                                               *)
EXTENDS ExtentSearch

CONSTANTS MaxEntries, MaxBlock

MCBlocks == 0 .. MaxBlock

Keys(n) == {f \in [1 .. n -> 0 .. MaxBlock] : \A j, k \in 1 .. n : j < k => f[j] < f[k]}

MCHeaders ==
  UNION {{[k \in 1 .. n |-> [key |-> f[k], addr |-> k, len |-> 1]] : f \in Keys(n)} :
           n \in 1 .. MaxEntries}
=============================================================================
