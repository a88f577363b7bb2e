------------------------------- MODULE Archive -------------------------------
(***************************************************************************)
(* What extraction promises, without jobs, workers or transactions: an     *)
(* archive of blocks that reports a block as extracted only while every    *)
(* row of the block is in the database.  ingest.py:3-5 (any block can be   *)
(* reprocessed), runner.py:118-119 and config.py:162-165 (a crash of the   *)
(* server loses the data and the report of a block together, never one of  *)
(* them) are promises about this machine.  Extraction implements it.       *)
(***************************************************************************)
CONSTANT Height

VARIABLES
  stored,    \* blocks with all their rows in the database
  reported,  \* blocks whose vout_status is done
  saved      \* the two as a crash of the server would leave them

vars == <<stored, reported, saved>>

Init ==
  /\ stored \in SUBSET Height   \* a block without transactions has no rows
  /\ reported = {}
  /\ saved = <<stored, reported>>

\* All rows of h and the report of it appear together, now or again.
Publish(h) ==
  /\ stored' = stored \cup {h}
  /\ reported' = reported \cup {h}
  /\ UNCHANGED saved

\* Blocks are to be processed again, or failed when they were: no row goes.
Withdraw ==
  /\ reported' \subseteq reported
  /\ UNCHANGED <<stored, saved>>

\* The server's log reaches the disk.
Persist ==
  /\ saved' = <<stored, reported>>
  /\ UNCHANGED <<stored, reported>>

\* The server crashes and loses its last commits.
Lose ==
  /\ <<stored', reported'>> = saved
  /\ UNCHANGED saved

Next == (\E h \in Height : Publish(h)) \/ Withdraw \/ Persist \/ Lose

Spec == Init /\ [][Next]_vars
=============================================================================
