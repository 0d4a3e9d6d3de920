----------------------------- MODULE MCInodeUse -----------------------------
(* Model values and the symmetry of the buffer addresses for InodeUse. *)
EXTENDS InodeUse, TLC

CONSTANTS main, copy_thread, b1, b2, b3

MCThreads == {main, copy_thread}
MCBuffers == {b1, b2, b3}
BufferSymmetry == Permutations(MCBuffers)
=============================================================================
