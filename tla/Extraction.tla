----------------------------- MODULE Extraction -----------------------------
(***************************************************************************)
(* The extract and backfill-vins phases (phases/extract.py,                *)
(* phases/backfill_vins.py) writing the tables of core/ingest.py.          *)
(*                                                                         *)
(* The chain is fixed: transactions in blocks, outputs of transactions,    *)
(* and the transaction that spends each output.  An outpoint identifies    *)
(* its 'out' row, the spends row of the input that consumes it and that    *)
(* input's 'in' row.  transactions.total_in is kept as the set of          *)
(* outpoints it sums: every amount is positive, so 0 is the empty set.     *)
(*                                                                         *)
(* A database transaction is one action on the record db, its commit: the  *)
(* statements insert or update the same rows whatever commits in between.  *)
(* The SELECT of backfill-vins is the exception.  What it finds is fixed   *)
(* before the commit, so it is a step of its own.  With                    *)
(* synchronous_commit=off (config.py:166) a commit is on disk only some    *)
(* time later: disk is the committed prefix a crash of the server leaves.  *)
(*                                                                         *)
(* Claims are taken from PhaseRunner in the abstract: any pending rows,    *)
(* since concurrent claims skip the rows others lock, and a row in         *)
(* progress may be reset whether or not a worker still holds it.           *)
(***************************************************************************)
EXTENDS BlockJobs

CONSTANTS
  Height,      \* the blocks with a row in block_jobs
  Tx,          \* the transactions of those blocks
  Out,         \* their outputs
  BlockOf,     \* the height of a transaction
  TxOf,        \* the transaction of an output
  SpentBy,     \* the transaction that spends an output, or Unspent
  Unspent,
  Valued,      \* outputs with a positive value that are not OP_RETURN
  Addressed,   \* those extract_output_address finds an address for
  Extractor,   \* worker coroutines of extract
  Backfiller,  \* worker coroutines of backfill-vins
  Batch,       \* job_batch_size
  Verbosity,   \* the getblock verbosities that can succeed: 2, 3
  Phased,      \* backfill-vins runs when extract has finished (run-all)
  Faults,      \* which disturbances may happen, see FaultKinds
  MaxFaults    \* how many of them in a behaviour: bounds the faults

FaultKinds == {"rpc_error", "abort", "lost_ack", "swallow", "die", "reset",
               "requeue", "requeue_features", "db_crash"}

ASSUME ExtractionAssumption ==
  /\ Height \subseteq Nat
  /\ BlockOf \in [Tx -> Height]
  /\ TxOf \in [Out -> Tx]
  /\ SpentBy \in [Out -> Tx \cup {Unspent}]
  /\ Unspent \notin Tx
  /\ Addressed \subseteq Valued /\ Valued \subseteq Out
  /\ Extractor \cap Backfiller = {}
  /\ Batch \in Nat \ {0}
  /\ Verbosity \subseteq {2, 3}
  /\ Phased \in BOOLEAN
  /\ Faults \subseteq FaultKinds
  /\ MaxFaults \in Nat

Worker == Extractor \cup Backfiller
NoJob == -1

VARIABLES
  db,      \* the committed tables, see Tables
  disk,    \* the part of their history a server crash preserves
  at,      \* where a worker is
  todo,    \* heights it has claimed and not begun
  job,     \* the height it is processing
  v3,      \* whether its block came with prevouts
  found,   \* the inputs its backfill transaction has resolved
  faults,  \* number of disturbances so far
  seen     \* and of what kinds

workers == <<at, todo, job, v3, found>>
disturbances == <<faults, seen>>
vars == <<db, disk, workers, disturbances>>

\* vout and vin: status columns of block_jobs.  tx: rows of transactions, and
\* tin their total_in.  out and in: rows of transaction_io.  spend: of spends.
Tables == [vout : [Height -> JobStatus], vin : [Height -> JobStatus],
           tx : SUBSET Tx, tin : [Tx -> SUBSET Out],
           out : SUBSET Out, in : SUBSET Out, spend : SUBSET Out]

-----------------------------------------------------------------------------
\* What parse_block finds in a block.

TxsOf == [h \in Height |-> {t \in Tx : BlockOf[t] = h}]

OutRows == [h \in Height |-> {o \in Addressed : BlockOf[TxOf[o]] = h}]

Spends == [h \in Height |-> {o \in Out : SpentBy[o] \in TxsOf[h]}]

\* The inputs of t whose prevout has an address: its 'in' rows at verbosity 3.
Prevouts == [t \in Tx |-> {o \in Addressed : SpentBy[o] = t}]

InRows == [h \in Height |-> {o \in Addressed : SpentBy[o] \in TxsOf[h]}]

\* classify_block_features; a transaction without inputs is a coinbase.
Features(h) ==
  IF Spends[h] # {} THEN IF OutRows[h] # {} THEN "both" ELSE "vin"
  ELSE IF OutRows[h] # {} THEN "vout"
  ELSE IF \E o \in Valued : BlockOf[TxOf[o]] = h THEN "op_return_only"
  ELSE IF TxsOf[h] # {} THEN "coinbase_only"
  ELSE "none"

-----------------------------------------------------------------------------
\* The transactions of the two phases, as functions from tables to tables.

\* MUTANT: total_in = EXCLUDED.total_in, the 0 of verbosity 2 included.
UpsertTotalsClobber(tin, h, withPrevouts) ==
  [t \in Tx |-> IF BlockOf[t] = h THEN IF withPrevouts THEN Prevouts[t] ELSE {} ELSE tin[t]]

\* insert_tx_rows: an existing total_in is replaced by a positive one only.
UpsertTotals(tin, h, withPrevouts) ==
  [t \in Tx |-> IF withPrevouts /\ BlockOf[t] = h /\ Prevouts[t] # {}
                THEN Prevouts[t] ELSE tin[t]]

\* MUTANT: insert_spends_rows is left out.
ExtractedNoSpends(d, h, withPrevouts) ==
  [d EXCEPT !.tx = @ \cup TxsOf[h],
            !.tin = UpsertTotals(@, h, withPrevouts),
            !.out = @ \cup OutRows[h],
            !.in = IF withPrevouts THEN @ \cup InRows[h] ELSE @,
            !.vout = Mark(@, {h}, "done"),
            !.vin = IF withPrevouts THEN Mark(@, {h}, "done") ELSE @]

\* _write of extract: rows of the block, and the status of it.
Extracted(d, h, withPrevouts) ==
  [d EXCEPT !.tx = @ \cup TxsOf[h],
            !.tin = UpsertTotals(@, h, withPrevouts),
            !.out = @ \cup OutRows[h],
            !.in = IF withPrevouts THEN @ \cup InRows[h] ELSE @,
            !.spend = @ \cup Spends[h],
            !.vout = Mark(@, {h}, "done"),
            !.vin = IF withPrevouts THEN Mark(@, {h}, "done") ELSE @]

\* MUTANT: prevouts missing from the response are not looked up.
ResolvedFromBlockOnly(d, h, withPrevouts) == IF withPrevouts THEN InRows[h] ELSE {}

\* Inputs backfill-vins can resolve: from the block, or from 'out' rows.
Resolved(d, h, withPrevouts) ==
  IF withPrevouts THEN InRows[h] ELSE InRows[h] \cap d.out

\* MUTANT: the total counts inputs that were not resolved.
FillTotalsFromBlock(d, h, S) ==
  [t \in Tx |-> IF BlockOf[t] = h /\ t \in d.tx /\ d.tin[t] = {} THEN Prevouts[t] ELSE d.tin[t]]

\* update_total_in: only where the total is NULL or 0.
FillTotals(d, h, S) ==
  [t \in Tx |-> IF BlockOf[t] = h /\ t \in d.tx /\ d.tin[t] = {}
                THEN Prevouts[t] \cap S ELSE d.tin[t]]

\* _write of backfill-vins, with S the inputs it has resolved.
Backfilled(d, h, S) ==
  [d EXCEPT !.in = @ \cup S,
            !.tin = FillTotals(d, h, S),
            !.spend = @ \cup Spends[h],
            !.vin = Mark(@, {h}, "done")]

-----------------------------------------------------------------------------
Disturb(kind) ==
  /\ kind \in Faults /\ faults < MaxFaults
  /\ faults' = faults + 1
  /\ seen' = seen \cup {kind}

\* The rows are there and pending: top_up inserted them.
Init ==
  /\ db = [vout |-> [h \in Height |-> "pending"], vin |-> [h \in Height |-> "pending"],
           tx |-> {}, tin |-> [t \in Tx |-> {}], out |-> {}, in |-> {}, spend |-> {}]
  /\ disk = db
  /\ at = [w \in Worker |-> "idle"]
  /\ todo = [w \in Worker |-> {}]
  /\ job = [w \in Worker |-> NoJob]
  /\ v3 = [w \in Worker |-> FALSE]
  /\ found = [w \in Worker |-> {}]
  /\ faults = 0
  /\ seen = {}

Take(w, H) ==
  /\ H # {} /\ Cardinality(H) <= Batch
  /\ at' = [at EXCEPT ![w] = "holding"]
  /\ todo' = [todo EXCEPT ![w] = H]
  /\ UNCHANGED <<disk, job, v3, found, disturbances>>

ClaimVout(w) ==
  /\ w \in Extractor /\ at[w] = "idle"
  /\ \E H \in SUBSET Claimable(db.vout, Height) :
       /\ Take(w, H)
       /\ db' = [db EXCEPT !.vout = Mark(@, H, "in_progress")]

\* _READY_WHERE of backfill-vins: the vout side of the same height is in.
VinReady == {h \in Height : db.vout[h] \in {"done", "skipped"}}

ClaimVin(w) ==
  /\ w \in Backfiller /\ at[w] = "idle"
  /\ Phased => \A h \in Height : db.vout[h] \in Terminal
  /\ \E H \in SUBSET Claimable(db.vin, VinReady) :
       /\ Take(w, H)
       /\ db' = [db EXCEPT !.vin = Mark(@, H, "in_progress")]

Begin(w, h) ==
  /\ at[w] = "holding" /\ h \in todo[w]
  /\ todo' = [todo EXCEPT ![w] = @ \ {h}]
  /\ job' = [job EXCEPT ![w] = h]

\* getblockhash and get_block_with_prevouts: verbosity 3, or 2 if it raises.
Fetch(w) ==
  /\ \E h \in todo[w] : Begin(w, h)
  /\ \E v \in Verbosity : v3' = [v3 EXCEPT ![w] = (v = 3)]
  /\ at' = [at EXCEPT ![w] = "fetched"]
  /\ UNCHANGED <<db, disk, found, disturbances>>

\* All retries of both verbosities are exhausted, or the block is malformed.
FetchError(w) ==
  /\ \E h \in todo[w] : Begin(w, h)
  /\ Disturb("rpc_error")
  /\ at' = [at EXCEPT ![w] = "erred"]
  /\ UNCHANGED <<db, disk, v3, found>>

\* The SELECT of backfill-vins, in the transaction it then writes with.
Resolve(w) ==
  /\ at[w] = "fetched" /\ w \in Backfiller
  /\ found' = [found EXCEPT ![w] = Resolved(db, job[w], v3[w])]
  /\ at' = [at EXCEPT ![w] = "resolved"]
  /\ UNCHANGED <<db, disk, todo, job, v3, disturbances>>

\* What the worker is about to commit.
Written(w) ==
  IF w \in Extractor THEN Extracted(db, job[w], v3[w]) ELSE Backfilled(db, job[w], found[w])

ToWrite(w) ==
  IF w \in Extractor THEN at[w] = "fetched" /\ Features(job[w]) # "none"
  ELSE at[w] = "resolved"

\* The next height of the batch, or another claim.
NextJob(w) ==
  /\ at' = [at EXCEPT ![w] = IF todo[w] = {} THEN "idle" ELSE "holding"]
  /\ job' = [job EXCEPT ![w] = NoJob]
  /\ found' = [found EXCEPT ![w] = {}]

Write(w) ==
  /\ ToWrite(w)
  /\ db' = Written(w)
  /\ NextJob(w)
  /\ UNCHANGED <<disk, todo, v3, disturbances>>

\* The commit is applied, its acknowledgement is lost.
WriteUnseen(w) ==
  /\ ToWrite(w)
  /\ Disturb("lost_ack")
  /\ db' = Written(w)
  /\ at' = [at EXCEPT ![w] = "erred"]
  /\ UNCHANGED <<disk, todo, job, v3, found>>

\* Nothing is written: the transaction rolls back.
Abort(w) ==
  /\ at[w] \in {"fetched", "resolved", "skipping"}
  /\ Disturb("abort")
  /\ at' = [at EXCEPT ![w] = "erred"]
  /\ UNCHANGED <<db, disk, todo, job, v3, found>>

\* A block without rows: vout skipped, then, with prevouts, vin done, each in
\* a transaction of its own.
SkipVout(w) ==
  /\ at[w] = "fetched" /\ w \in Extractor /\ Features(job[w]) = "none"
  /\ db' = [db EXCEPT !.vout = Mark(@, {job[w]}, "skipped")]
  /\ IF v3[w] THEN at' = [at EXCEPT ![w] = "skipping"] /\ UNCHANGED <<job, found>>
     ELSE NextJob(w)
  /\ UNCHANGED <<disk, todo, v3, disturbances>>

SkipVin(w) ==
  /\ at[w] = "skipping"
  /\ db' = [db EXCEPT !.vin = Mark(@, {job[w]}, "done")]
  /\ NextJob(w)
  /\ UNCHANGED <<disk, todo, v3, disturbances>>

\* The except block, on the column of the phase.
MarkFailed(w) ==
  /\ at[w] = "erred"
  /\ db' = IF w \in Extractor THEN [db EXCEPT !.vout = Mark(@, {job[w]}, "failed")]
           ELSE [db EXCEPT !.vin = Mark(@, {job[w]}, "failed")]
  /\ NextJob(w)
  /\ UNCHANGED <<disk, todo, v3, disturbances>>

MarkFailedLost(w) ==
  /\ at[w] = "erred"
  /\ Disturb("swallow")
  /\ NextJob(w)
  /\ UNCHANGED <<db, disk, todo, v3>>

\* The process is killed, or shut down and the task cancelled.
Die(w) ==
  /\ at[w] # "idle"
  /\ Disturb("die")
  /\ at' = [at EXCEPT ![w] = "idle"]
  /\ todo' = [todo EXCEPT ![w] = {}]
  /\ job' = [job EXCEPT ![w] = NoJob]
  /\ found' = [found EXCEPT ![w] = {}]
  /\ UNCHANGED <<db, disk, v3>>

-----------------------------------------------------------------------------
\* A primary starts either phase: rows of any age H are old enough to reset.
Reset ==
  \E H \in SUBSET Height :
    /\ Disturb("reset")
    /\ db' \in {[db EXCEPT !.vout = ResetAbandoned(@, H)], [db EXCEPT !.vin = ResetAbandoned(@, H)]}
    /\ db' # db
    /\ UNCHANGED <<disk, workers>>

\* The UPDATE of cmd_requeue on one column: by features, or by range.
RequeuedColumn(col, H, features) ==
  IF features THEN RequeueFeatures(col, H) ELSE RequeueRange(col, H)

\* It, on the columns of --phase.
Requeued(d, H, cols, features) ==
  [d EXCEPT !.vout = IF "vout" \in cols THEN RequeuedColumn(@, H, features) ELSE @,
            !.vin = IF "vin" \in cols THEN RequeuedColumn(@, H, features) ELSE @]

Requeue ==
  \E H \in SUBSET Height, cols \in {{"vout"}, {"vin"}, {"vout", "vin"}}, features \in BOOLEAN :
    /\ Disturb(IF features THEN "requeue_features" ELSE "requeue")
    /\ db' = Requeued(db, H, cols, features)
    /\ db' # db
    /\ UNCHANGED <<disk, workers>>

\* The WAL writer: everything committed so far is on disk.  Where no crash of
\* the server is admitted nothing ever reads disk, and the step is left out.
Flush ==
  /\ disk # db /\ "db_crash" \in Faults
  /\ disk' = db
  /\ UNCHANGED <<db, workers, disturbances>>

\* A transaction that has begun fails with its connection.
BreakTransactions ==
  at' = [w \in Worker |-> IF at[w] = "resolved" THEN "erred" ELSE at[w]]

\* MUTANT: statuses survive that the data they were to commit with does not.
DbCrashDataOnly ==
  /\ Disturb("db_crash")
  /\ db' = [disk EXCEPT !.vout = db.vout, !.vin = db.vin]
  /\ BreakTransactions
  /\ UNCHANGED <<disk, todo, job, v3, found>>

\* The server stops and recovers; the commits after the last flush are lost.
\* Workers go on: their next transaction meets the recovered tables.
DbCrash ==
  /\ Disturb("db_crash")
  /\ db' = disk
  /\ BreakTransactions
  /\ UNCHANGED <<disk, todo, job, v3, found>>

WorkerStep(w) ==
  \/ ClaimVout(w) \/ ClaimVin(w) \/ Fetch(w) \/ FetchError(w)
  \/ Resolve(w) \/ Write(w) \/ WriteUnseen(w) \/ Abort(w) \/ SkipVout(w) \/ SkipVin(w)
  \/ MarkFailed(w) \/ MarkFailedLost(w) \/ Die(w)

Next ==
  \/ \E w \in Worker : WorkerStep(w)
  \/ Reset
  \/ Requeue
  \/ Flush
  \/ DbCrash

Spec == Init /\ [][Next]_vars

-----------------------------------------------------------------------------
\* Every row of the block that the extract phase is to write at verbosity 2.
Stored(d, h) ==
  /\ TxsOf[h] \subseteq d.tx
  /\ OutRows[h] \subseteq d.out
  /\ Spends[h] \subseteq d.spend

\* Tables and worker fields have their types, and a worker that is fetching,
\* writing or failing has a job.
TypeOK ==
  /\ db \in Tables /\ disk \in Tables
  /\ at \in [Worker -> {"idle", "holding", "fetched", "resolved", "skipping", "erred"}]
  /\ todo \in [Worker -> SUBSET Height]
  /\ job \in [Worker -> Height \cup {NoJob}]
  /\ \A w \in Worker : at[w] \in {"fetched", "resolved", "skipping", "erred"} => job[w] \in Height
  /\ v3 \in [Worker -> BOOLEAN]
  /\ found \in [Worker -> SUBSET Out]
  /\ faults \in Nat /\ seen \subseteq Faults

\* A block whose vout_status is done has all its transactions, outputs and
\* spends, whoever processed it, however often, and also in what a crash of
\* the server leaves (runner.py:118-119, ingest.py:3-5).
VoutDoneStored ==
  \A d \in {db, disk} : \A h \in Height : d.vout[h] = "done" => Stored(d, h)

\* A block whose vin_status is done has every spends row of its inputs: a
\* scan of the block misses no debit (extract.py:207, backfill_vins.py:155).
VinDoneSpends ==
  \A d \in {db, disk} : \A h \in Height : d.vin[h] = "done" => Spends[h] \subseteq d.spend

\* A block is in the tables with all its rows or not at all: the presence of
\* one of its transactions says that everything else is there too.
BlockAtomic ==
  \A d \in {db, disk} : \A h \in Height : TxsOf[h] \cap d.tx # {} => Stored(d, h)

\* What transactions.total_in sums is also there as 'in' rows: the two ways to
\* ask what a transaction consumed never disagree upwards.
TotalsBacked ==
  \A d \in {db, disk} : \A t \in Tx :
    d.tin[t] \subseteq d.in /\ (d.tin[t] # {} => t \in d.tx)

\* vin_status done means that every input with an address has its 'in' row and
\* is part of total_in (backfill_vins.py:8-12: no block is marked done while a
\* transaction is missing its inputs).
VinDoneComplete ==
  \A h \in Height : db.vin[h] = "done" =>
    /\ InRows[h] \subseteq db.in
    /\ \A t \in TxsOf[h] \cap db.tx : db.tin[t] = Prevouts[t]

\* Workers and machines stopped and started again, and stale jobs reset, as
\* long as none of them loses a commit.
Restarts == {"die", "reset"}

\* In a run-all in which no block failed, at either verbosity and however often
\* workers die and their jobs are taken up again, vin done means complete.
RunAllComplete == (Phased /\ seen \subseteq Restarts) => VinDoneComplete

\* Reprocessing and repair only add: no step but a crash of the server removes
\* a row or takes anything out of a total_in (ingest.py:27-29).
RowsOnlyGrow ==
  [][DbCrash \/ /\ \A c \in {"tx", "out", "in", "spend"} : db[c] \subseteq db'[c]
                /\ \A t \in Tx : db.tin[t] \subseteq db'.tin[t]]_vars

\* Extraction implements the archive that reports only what it stores.
Contents(d) == {h \in Height : Stored(d, h)}
Reports(d) == {h \in Height : d.vout[h] = "done"}

Abstract == INSTANCE Archive WITH stored <- Contents(db), reported <- Reports(db),
                                  saved <- <<Contents(disk), Reports(disk)>>

ImplementsArchive == Abstract!Spec
=============================================================================
