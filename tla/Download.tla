------------------------------- MODULE Download -------------------------------
(***************************************************************************)
(* What FsGetFile promises the host: the local file grows block by block,  *)
(* in order, from nothing to a copy of the source; success is reported     *)
(* only for a complete copy; and once a call has returned nobody touches   *)
(* the local file any more.  A block may be wrong in three ways only: it   *)
(* is content from elsewhere, it is the block before it once more, or it   *)
(* comes late, as every block after it, once for each request that was     *)
(* lost.                                                                   *)
(***************************************************************************)
EXTENDS Naturals, Sequences

CONSTANTS
  Lengths,     \* the lengths of the sources, in blocks
  Refused,     \* results of a call that leaves the local file alone
  Broken,      \* results of a call that may leave an incomplete local file
  Ok,          \* the result of a complete copy
  Nothing,     \* what is repeated before the first block
  Elsewhere    \* content that is not the block due

VARIABLES
  phase,       \* "idle", "called" or "copying"
  source,      \* the length of the source, in blocks
  dest,        \* the blocks in the local file
  late,        \* how many requests of this download were lost
  outcome      \* the result of the last call, "none" during a call

downloadVars == <<phase, source, dest, late, outcome>>

Init ==
  /\ phase = "idle"
  /\ source = 0
  /\ dest = <<>>
  /\ late = 0
  /\ outcome = "none"

Begin ==
  /\ phase = "idle"
  /\ source' \in Lengths
  /\ phase' = "called"
  /\ outcome' = "none"
  /\ UNCHANGED <<dest, late>>

(* The old content of the local file is dropped. *)
Truncate ==
  /\ phase = "called"
  /\ dest' = <<>> /\ late' = 0
  /\ phase' = "copying"
  /\ UNCHANGED <<source, outcome>>

LastBlock == IF dest = <<>> THEN Nothing ELSE dest[Len(dest)]

Extend ==
  /\ phase = "copying"
  /\ Len(dest) < source
  /\ \/ late <= Len(dest) /\ dest' = Append(dest, Len(dest) - late)
     \/ dest' = Append(dest, Elsewhere)
     \/ dest' = Append(dest, LastBlock)
  /\ UNCHANGED <<phase, source, late, outcome>>

(* The answer for the next block is lost. *)
Lose ==
  /\ phase = "copying"
  /\ Len(dest) < source
  /\ late <= Len(dest)
  /\ late' = late + 1
  /\ UNCHANGED <<phase, source, dest, outcome>>

Finish ==
  /\ \/ phase = "called" /\ outcome' \in Refused
     \/ phase = "copying" /\ outcome' \in Broken
     \/ phase = "copying" /\ Len(dest) = source /\ outcome' = Ok
  /\ phase' = "idle"
  /\ UNCHANGED <<source, dest, late>>

Next == Begin \/ Truncate \/ Extend \/ Lose \/ Finish

Spec == Init /\ [][Next]_downloadVars
=============================================================================
