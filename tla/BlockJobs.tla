------------------------------ MODULE BlockJobs ------------------------------
(***************************************************************************)
(* The table blockchain.block_jobs as seen by one phase: one status column *)
(* of it, a function from heights to statuses, and what the statements of  *)
(* core/jobs.py and of `crawlbtc requeue` do to that column.  A height     *)
(* with no row in the table has status "absent".                           *)
(*                                                                         *)
(* The module has no state: PhaseRunner, Extraction and AddressScan apply  *)
(* its operators to their own columns.                                     *)
(***************************************************************************)
EXTENDS Integers, FiniteSets

\* The enum blockchain.block_job_status, and the lack of a row.
JobStatus == {"absent", "pending", "in_progress", "done", "skipped", "failed"}

\* A status no phase picks up again without a requeue.
Terminal == {"done", "skipped", "failed"}

Rows(col) == {h \in DOMAIN col : col[h] # "absent"}

WithStatus(col, s) == {h \in DOMAIN col : col[h] = s}

\* UPDATE block_jobs SET {col} = s WHERE height is in H and has a row.
Mark(col, H, s) ==
  [h \in DOMAIN col |-> IF h \in H /\ col[h] # "absent" THEN s ELSE col[h]]

\* The rows a claim may take: pending ones that pass the extra_where filter.
Claimable(col, ready) == ready \cap WithStatus(col, "pending")

\* ORDER BY height LIMIT n.
Lowest(H, n) == {h \in H : Cardinality({k \in H : k < h}) < n}

\* MUTANT: every in_progress row, whatever its age (the legacy scripts did).
ResetEveryJob(col, stale) == Mark(col, WithStatus(col, "in_progress"), "pending")

\* MUTANT: nothing is reset.
ResetNothing(col, stale) == col

\* Stale in_progress rows go back to pending.
ResetAbandoned(col, stale) == Mark(col, stale \cap WithStatus(col, "in_progress"), "pending")

\* COALESCE(MAX(height), -1).
LatestJob(col) == IF Rows(col) = {} THEN -1
                  ELSE CHOOSE h \in Rows(col) : \A k \in Rows(col) : k <= h

\* MUTANT: starts one height too high.
InsertJobsOffByOne(col, latest, tip) ==
  [h \in DOMAIN col |-> IF h \in (latest + 2)..tip /\ col[h] = "absent"
                        THEN "pending" ELSE col[h]]

\* MUTANT: ON CONFLICT (height) DO UPDATE.
InsertJobsOverwriting(col, latest, tip) ==
  [h \in DOMAIN col |-> IF h \in (latest + 1)..tip THEN "pending" ELSE col[h]]

\* Pending rows for latest+1 .. tip, ON CONFLICT (height) DO NOTHING.
InsertJobs(col, latest, tip) ==
  [h \in DOMAIN col |-> IF h \in (latest + 1)..tip /\ col[h] = "absent"
                        THEN "pending" ELSE col[h]]

\* MUTANT: in_progress rows are not waited for.
FinishedIgnoringHeld(col, ready) ==
  /\ \A h \in ready : col[h] # "pending"
  /\ \E h \in ready : col[h] \in Terminal

\* MUTANT: failed rows are waited for.
FinishedWithoutFailed(col, ready) ==
  /\ \A h \in ready : col[h] \in {"absent", "done", "skipped"}
  /\ \E h \in ready : col[h] \in Terminal

\* What the monitor concludes from the progress counts of the ready rows.
PhaseFinished(col, ready) ==
  /\ \A h \in ready : col[h] \notin {"pending", "in_progress"}
  /\ \E h \in ready : col[h] \in Terminal

\* `crawlbtc requeue` with a height range only: the terminal rows of H.
RequeueRange(col, H) == Mark(col, {h \in H : col[h] \in Terminal}, "pending")

\* `crawlbtc requeue --features`: every row of H, whatever its status.
RequeueFeatures(col, H) == Mark(col, H, "pending")
=============================================================================
