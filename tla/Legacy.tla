------------------------------- MODULE Legacy -------------------------------
(***************************************************************************)
(* The scripts that came before crawlbtc, scripts/00_extract_blocks_... and *)
(* scripts/01_backfill_vins.py, and the upgrade of a database they have    *)
(* filled (README.md, "Picking up Satoshi-era coins"; cli.py, requeue).    *)
(* The upgrade may begin at any moment, with the scripts stopped anyhow.   *)
(*                                                                         *)
(* Tables are those of Extraction, and so are the steps of the new phases, *)
(* here without their faults, which Extraction has.  Shown are the outputs *)
(* the node reports an address for: the old code stores no others, the new *)
(* code derives the address of a P2PK output.                              *)
(***************************************************************************)
EXTENDS BlockJobs

CONSTANTS
  Height, Tx, Out, BlockOf, TxOf, SpentBy, Unspent, Valued, Addressed,   \* as in Extraction
  Shown,       \* outputs the node reports an address for
  LegacyBatch, \* job_batch_size
  MaxMishaps   \* bounds the failures and kills of the scripts

ASSUME LegacyAssumption ==
  /\ Height \subseteq Nat /\ IsFiniteSet(Height)
  /\ Shown \subseteq Addressed /\ Addressed \subseteq Valued
  /\ LegacyBatch \in Nat \ {0} /\ MaxMishaps \in Nat

VARIABLES
  old,       \* the tables, see Extraction!Tables, and block_jobs.features
  running,   \* the scripts running: 0, 1
  claimed,   \* the heights each of them has in hand
  mishaps,
  upgrade,   \* "no", or which upgrade has begun
  ended      \* whether it is finished

legacyVars == <<old, running, claimed, mishaps, upgrade, ended>>

Script == {0, 1}
Extracting == {"skipped", "features", "rescan"}
Upgrades == Extracting \cup {"repair"}

\* The transactions of the new phases, on the same tables.
New == INSTANCE Extraction WITH
  Extractor <- {}, Backfiller <- {}, Batch <- 1, Verbosity <- {3}, Phased <- TRUE,
  Faults <- {}, MaxFaults <- 0, db <- old, disk <- old, at <- <<>>, todo <- <<>>,
  job <- <<>>, v3 <- <<>>, found <- <<>>, faults <- 0, seen <- {}

ChainTip == CHOOSE h \in Height : \A k \in Height : k <= h

LegacyInit ==
  /\ old = [vout |-> [h \in Height |-> "absent"], vin |-> [h \in Height |-> "absent"],
            tx |-> {}, tin |-> [t \in Tx |-> {}], out |-> {}, in |-> {}, spend |-> {},
            features |-> [h \in Height |-> "unset"]]
  /\ running = {} /\ claimed = [s \in Script |-> {}]
  /\ mishaps = 0 /\ upgrade = "no" /\ ended = FALSE

-----------------------------------------------------------------------------
\* The job queue of the two scripts.

Column(s) == IF s = 0 THEN old.vout ELSE old.vin
Put(s, col) == IF s = 0 THEN [old EXCEPT !.vout = col] ELSE [old EXCEPT !.vin = col]
ReadyFor(s) == IF s = 0 THEN Height ELSE {h \in Height : old.vout[h] \in {"done", "skipped"}}

TopUp(d, latest) ==
  [d EXCEPT !.vout = InsertJobs(@, latest, ChainTip), !.vin = InsertJobs(@, latest, ChainTip)]

\* The extraction resets every job in progress, the backfill old ones.
Abandoned(s) == IF s = 0 THEN {Height} ELSE SUBSET Height

LegacyStart(s) ==
  /\ upgrade = "no" /\ s \notin running
  /\ running' = running \cup {s}
  /\ \E H \in Abandoned(s) : old' = Put(s, ResetAbandoned(Column(s), H))
  /\ UNCHANGED <<claimed, mishaps, upgrade, ended>>

Claimed(s) == Lowest(Claimable(Column(s), ReadyFor(s)), LegacyBatch)

\* Workers claim batches, together or one after the other.
LegacyClaim(s) ==
  /\ s \in running /\ Claimed(s) # {}
  /\ old' = Put(s, Mark(Column(s), Claimed(s), "in_progress"))
  /\ claimed' = [claimed EXCEPT ![s] = @ \cup Claimed(s)]
  /\ UNCHANGED <<running, mishaps, upgrade, ended>>

NothingLeft(s) == \A h \in ReadyFor(s) : Column(s)[h] \notin {"pending", "in_progress"}

\* The monitors: rows for the new blocks, from 1 if there is none yet; then the
\* script ends if the counts, read before that, had nothing left to do.
LegacyMonitor(s) ==
  /\ s \in running
  /\ old' = IF s = 1 THEN old
            ELSE LET latest == IF Rows(old.vout) = {} THEN 0 ELSE LatestJob(old.vout)
                 IN  TopUp(old, latest)
  /\ running' = IF NothingLeft(s) THEN running \ {s} ELSE running
  /\ UNCHANGED <<claimed, mishaps, upgrade, ended>>

\* Killed, or ended by an exception: what it had in hand stays in progress.
Stops(s) ==
  /\ running' = running \ {s}
  /\ claimed' = [claimed EXCEPT ![s] = {}]

Mishap == mishaps < MaxMishaps /\ mishaps' = mishaps + 1

LegacyDies(s) ==
  /\ s \in running /\ Mishap
  /\ Stops(s)
  /\ UNCHANGED <<old, upgrade, ended>>

\* A failed block; one the extraction fails after it was fetched ends the script.
LegacyFails(s) ==
  /\ Mishap
  /\ \E h \in claimed[s] :
       /\ old' = Put(s, Mark(Column(s), {h}, "failed"))
       /\ \/ s = 0 /\ Stops(s)
          \/ claimed' = [claimed EXCEPT ![s] = @ \ {h}] /\ UNCHANGED running
  /\ UNCHANGED <<upgrade, ended>>

-----------------------------------------------------------------------------
\* The transactions of the scripts.

OldOutRows(h) == New!OutRows[h] \cap Shown

LegacyFeatures(h) ==
  IF New!Spends[h] # {} THEN IF OldOutRows(h) # {} THEN "both" ELSE "vin"
  ELSE IF OldOutRows(h) # {} THEN "vout"
  ELSE IF \E o \in Valued : BlockOf[TxOf[o]] = h THEN "op_return_only"
  ELSE IF New!TxsOf[h] # {} THEN "coinbase_only"
  ELSE "none"

\* process_block: transactions without total_in, outputs the node has an address
\* for, and no spends; what is there already stays as it is.
LegacyExtracted(h) ==
  IF LegacyFeatures(h) = "none" THEN [old EXCEPT !.vout = Mark(@, {h}, "skipped")]
  ELSE [old EXCEPT !.tx = @ \cup New!TxsOf[h],
                   !.out = @ \cup OldOutRows(h),
                   !.vout = Mark(@, {h}, "done"),
                   !.features = IF old.vout[h] = "absent" THEN @
                                ELSE [@ EXCEPT ![h] = LegacyFeatures(h)]]

\* `genesis`: block 0 alone, which has no row for its status to be marked in.
Genesis ==
  /\ upgrade = "no" /\ 0 \in Height
  /\ old' = LegacyExtracted(0)
  /\ UNCHANGED <<running, claimed, mishaps, upgrade, ended>>

\* The quick check: some spend of the block, and at most one transaction of it,
\* the coinbase, without 'in' rows.
LooksComplete(h) ==
  /\ old.spend \cap New!Spends[h] # {}
  /\ Cardinality({t \in New!TxsOf[h] \cap old.tx : \A o \in old.in : SpentBy[o] # t}) <= 1

\* Inputs with an address in the block, at verbosity 3, or by their 'out' row.
LegacyResolved(h, withPrevouts) ==
  {o \in New!InRows[h] : o \in old.out \/ (withPrevouts /\ o \in Shown)}

\* MUTANT: the spend is recorded with the row of the input, not for every input.
LegacyBackfilledSome(h, S) ==
  [New!Backfilled(old, h, S) EXCEPT !.spend = old.spend \cup S]

\* The write of the backfill is that of the new phase.
LegacyBackfilled(h, S) == New!Backfilled(old, h, S)

\* backfill_vins_for_height: what it may commit.
LegacyBackfills(h) ==
  IF LooksComplete(h) THEN {[old EXCEPT !.vin = Mark(@, {h}, "done")]}
  ELSE {LegacyBackfilled(h, LegacyResolved(h, prevouts)) : prevouts \in BOOLEAN}

LegacyCommit(s) ==
  /\ \E h \in claimed[s] :
       /\ old' \in IF s = 0 THEN {LegacyExtracted(h)} ELSE LegacyBackfills(h)
       /\ claimed' = [claimed EXCEPT ![s] = @ \ {h}]
  /\ UNCHANGED <<running, mishaps, upgrade, ended>>

-----------------------------------------------------------------------------
\* The upgrade, with a verbosity 3 node: requeue, then the phase to its end.

\* MUTANT: blocks found to hold nothing but OP_RETURN are believed.
SuspectNotOpReturn == {"none", "vin"}
\* The features diagnose finds suspect.
Suspect == {"op_return_only", "none", "vin"}

Selected(how) ==
  CASE how = "skipped" -> [old EXCEPT !.vout = Mark(@, WithStatus(@, "skipped"), "pending")]
    [] how = "rescan" -> New!Requeued(old, Height, {"vout"}, FALSE)
    [] how = "repair" -> New!Requeued(old, Height, {"vin"}, FALSE)
    [] how = "features" ->
         New!Requeued(old, {h \in Height : \/ old.features[h] \in Suspect
                                           \/ old.vout[h] \in {"failed", "skipped"}}, {"vout"}, TRUE)

\* Rows the scripts left in progress are old by now: the primary resets them,
\* and that of extract inserts rows for new blocks.
BeginUpgrade ==
  /\ upgrade = "no"
  /\ \E how \in Upgrades :
       /\ upgrade' = how
       /\ old' = LET chosen == Selected(how)
                 IN  IF how = "repair" THEN [chosen EXCEPT !.vin = ResetAbandoned(@, Height)]
                     ELSE TopUp([chosen EXCEPT !.vout = ResetAbandoned(@, Height)],
                                LatestJob(chosen.vout))
  /\ running' = {} /\ claimed' = [s \in Script |-> {}]
  /\ UNCHANGED <<mishaps, ended>>

\* crawlbtc extract, with prevouts.
NewExtract(h) ==
  /\ upgrade \in Extracting /\ old.vout[h] = "pending"
  /\ old' = IF New!Features(h) = "none"
            THEN [old EXCEPT !.vout = Mark(@, {h}, "skipped"), !.vin = Mark(@, {h}, "done")]
            ELSE [New!Extracted(old, h, TRUE) EXCEPT !.features[h] = New!Features(h)]
  /\ UNCHANGED <<running, claimed, mishaps, upgrade, ended>>

\* MUTANT: the shortcut of the script is still in the phase.
RepairedShort(h) ==
  IF LooksComplete(h) THEN [old EXCEPT !.vin = Mark(@, {h}, "done")]
  ELSE New!Backfilled(old, h, New!Resolved(old, h, TRUE))
Repaired(h) == New!Backfilled(old, h, New!Resolved(old, h, TRUE))

\* crawlbtc backfill-vins, which has no quick check.
NewBackfill(h) ==
  /\ upgrade = "repair" /\ h \in Claimable(old.vin, ReadyFor(1))
  /\ old' = Repaired(h)
  /\ UNCHANGED <<running, claimed, mishaps, upgrade, ended>>

\* The phase has processed every row it can.
EndUpgrade ==
  /\ ~ended
  /\ \/ upgrade \in Extracting /\ WithStatus(old.vout, "pending") = {}
     \/ upgrade = "repair" /\ Claimable(old.vin, ReadyFor(1)) = {}
  /\ ended' = TRUE
  /\ UNCHANGED <<old, running, claimed, mishaps, upgrade>>

LegacyNext ==
  \/ \E s \in Script : \/ LegacyStart(s) \/ LegacyClaim(s) \/ LegacyMonitor(s)
                       \/ LegacyDies(s) \/ LegacyFails(s) \/ LegacyCommit(s)
  \/ Genesis
  \/ BeginUpgrade
  \/ \E h \in Height : NewExtract(h) \/ NewBackfill(h)
  \/ EndUpgrade

LegacySpec == LegacyInit /\ [][LegacyNext]_legacyVars

-----------------------------------------------------------------------------
Queued == Rows(old.vout)

\* Whatever the scripts have left, a rescan of all heights makes every block
\* that has a row whole: outputs of P2PK, spends, inputs and totals, though the
\* rows and the partial totals of the scripts are in the way (ingest.py:24-31);
\* and the repair pass finds the inputs the quick check of the script had passed
\* over (backfill_vins.py:3-12).
UpgradeCompletes ==
  ended => \A h \in Queued :
    /\ upgrade = "rescan" => /\ New!Stored(old, h)
                             /\ \A t \in New!TxsOf[h] : old.tin[t] = New!Prevouts[t]
    /\ upgrade = "rescan" \/ (upgrade = "repair" /\ old.vin[h] = "done") =>
         New!InRows[h] \subseteq old.in

\* A block whose vin_status is done has all its spends, which no later command
\* looks for again: the quick check never stands in for recording them
\* (01_backfill_vins.py:413-437, 470-480).
LegacySpends ==
  \A h \in Height : old.vin[h] = "done" => New!Spends[h] \subseteq old.spend

\* What diagnose recommends brings in the outputs of all blocks that had no
\* other, whether they were marked done, skipped or failed (diagnose.py:227-231).
FeaturesSuffice ==
  ended /\ upgrade = "features" =>
    \A h \in Queued : OldOutRows(h) = {} => New!OutRows[h] \subseteq old.out

\* The same of the command in the README, which re-queues skipped blocks as
\* those "dropped as P2PK-only" (README.md:129-134).
SkippedSuffices ==
  ended /\ upgrade = "skipped" =>
    \A h \in Queued : OldOutRows(h) = {} => New!OutRows[h] \subseteq old.out
=============================================================================
