# A verification project for crawlbtc

crawlbtc reads blocks from a Bitcoin Core node, writes their transactions,
inputs, outputs and spends into PostgreSQL, and keeps the balances of a set of
watched addresses. This directory holds TLA+ models of the parts of it where
order, concurrency and failure decide whether the database is right, the TLC
runs that check them, and TLAPS proofs. Paths below are relative to
`src/crawlbtc/` of the repository.

## 1. The system

### Components, state, operations

| Component | State | Operations |
|---|---|---|
| Job queue (`core/jobs.py`, `sql/schema.sql`) | `block_jobs`: one row per height, a status column per phase (`vout_status`, `vin_status`, `address_status`), one `updated_at` | `claim_jobs`, `mark_status`, `reset_abandoned`, `get_phase_progress`, `top_up_jobs`; `crawlbtc requeue` |
| Phase runner (`core/runner.py`) | per process: shutdown event, worker tasks, monitor task, cached tip | `run_phase`, `run_phase_async`, `_worker_loop`, `_monitor_loop` |
| RPC client (`core/rpc.py`) | semaphore, session | `with_retry`, `call`, `get_block_with_prevouts`, `healthy` |
| Extract (`phases/extract.py`, `core/ingest.py`) | `transactions`, `transaction_io`, `spends`, statuses | `parse_block`, `classify_block_features`, the write transaction, skip and failure paths |
| Backfill of inputs (`phases/backfill_vins.py`) | the same tables, `vin_status` | resolution of inputs, `update_total_in`, write, failure |
| Address scan (`phases/address_scans.py`) and `recompute-balances` (`cli.py`) | `watch_addresses`, `address_status` | one delta per block; recomputation from the tables |
| `build-balances` (`cli.py`) | `address_balances` | one serial rebuild |
| Configuration (`core/config.py`) | none | derives pool and concurrency sizes |
| Addresses (`core/addresses.py`) | none | base58check, P2PK derivation, types of addresses |
| Trace (`trace.py`, `trace_template.py`) | a graph under construction | bounded walk, rendering |
| Entity tags (`tags.py`) | `entity_tags` | import, OFAC parser |
| Backup (`backup.py`), config restore (`configtool.py`) | files, manifest | dump, verify, restore |
| Legacy scripts (`scripts/` of the repository) | the same tables and `block_jobs`, with `features` | extraction, backfill and scan as the phases above, with another reset, top-up and quick check |
| Diagnose (`diagnose.py`), logging, migrations, schema dumps | | read-only or serial |

### Interaction

A command starts a primary process and, with `--processes N`, its children.
Each is an asyncio loop with worker tasks and one monitor task. Workers of all
processes, and of all commands running at the same time, share only the
database: they claim heights with `FOR UPDATE SKIP LOCKED`, process each height
in one database transaction that ends with the status mark, and mark a failure
on a second connection. The monitor of the primary inserts new heights; every
monitor reads the progress counts and sets its own process's shutdown event.
Phases meet in the tables: backfill waits for `vout_status`, the scan for
`vout_status` and `vin_status` of the same height, and both read rows other
heights have written. `run-all` runs the three phases one after the other.

### What is hard

- a height processed twice, or by two workers at once, since the reset of stale
  jobs goes by age and `requeue --features` takes rows of any status;
- what the monitor has read is old when it acts on it;
- a commit whose acknowledgement is lost is marked failed afterwards;
- workers and servers die between any two steps, and with
  `synchronous_commit=off` the server forgets a tail of commits;
- the phases read rows of *other* heights, whose state no condition checks;
- the address delta, unlike all other writes, is not idempotent and, because of
  its clamp at 0, not commutative; it and recompute-balances read a snapshot
  and write later.

`PROJECT.json` lists each of these under `hazards`, with the line where it bites
and the properties about it.

### What makes each component correct

- queue and runner: no two workers hold a height, unless the lease rule is
  broken; what is held is in progress; done is final; no hole in the queue;
  a process stops, and only when the phase is finished; what was abandoned is
  taken up again;
- extract and backfill: done means stored; a block is stored as a whole;
  totals agree with rows; reprocessing only adds; a crash of the server loses
  data and statuses together; vin done means that the inputs are all there;
- address scan: a delta is applied once and exactly with its status; balances
  are those a recomputation gives; deltas that lock the same rows all end;
- RPC client: a passing failure costs a block nothing; every fetch ends;
- upgrade of a legacy database: whatever state the scripts have left, the
  recommended requeue brings in what they had not stored;
- pool: however the settings are split, slow writes leave connections for the
  monitor, and nobody waits for a connection while holding one;
- trace: levels are distances, no flow is counted twice, the caps hold and are
  reported;
- backup: what verifies is whole and of one instant, and its height is not too
  low; config restore: the files are exactly those of the backup, and what they
  replace is kept;
- addresses and build-balances: an output, and the input that spends it, are
  under the address of the key, whichever node reported them, and a rebuild
  gives each owner what the chain gives it;
- entity tags: a finished OFAC import tags every address of the list, and a
  sanctioned address is shown as such.

## 2. Modules

| Module | Models |
|---|---|
| `BlockJobs` | operators on one status column: the statements of `core/jobs.py` and `requeue` |
| `PhaseRunner` | `core/runner.py` over that queue: processes, workers, monitors, faults |
| `Archive` | the abstract promise of extraction: report only what is stored, lose both together |
| `Extraction` | extract and backfill-vins over the tables; implements `Archive` |
| `AddressScan` | the delta, recompute-balances and requeue over `watch_addresses` |
| `Trace` | the bounded walk of `build_graph` |
| `Pool` | the sizes `load_config` derives, and the connection pool under the tasks of a process |
| `Backup` | dump, manifest and verify next to running commits |
| `EntityTags` | imports of tags and the label of an address |
| `ConfigFiles` | config backup and restore |
| `Coins` | addresses and their types, the P2PK label, `build-balances` |
| `Rpc` | the calls of a fetch: semaphore, retries, fallback to verbosity 2 |
| `DeltaLocks` | the row locks of concurrent deltas, and the columns of sightings |
| `Legacy` | the scripts 00 and 01, and the upgrade of what they left; instantiates `Extraction` |
| `Commands` | `Trace` to `Legacy` side by side; `command` says which one runs |
| `MCPhaseRunner`, `MCExtraction`, `MCAddressScan`, `MCCommands` | instances for TLC |
| `Subsequences` | some elements of a list, in order: the comprehensions of `Trace`, `EntityTags` and `ConfigFiles` |
| `BlockJobsProofs` | lemmas on status columns, least numbers, smallest subsets, lists |
| `PhaseRunnerProofs`, `ExtractionProofs`, `AddressScanProofs`, `TraceProofs`, `LegacyProofs` | the theorems on the specification of that name |
| `RuntimeProofs` | those on `Pool`, `Rpc` and `DeltaLocks` |
| `CommandProofs` | those on `EntityTags`, `ConfigFiles`, `Backup` and `Coins` |

Definitions marked `MUTANT` in a comment are variants of the next definition of
like name with a plausible bug. No specification uses them; each property
is shown to fail when its mutant takes the place of the original.

### PhaseRunner

`status` is the phase's column; `old` the in-progress rows untouched for
`stale_minutes`. A process is off, starting, up or killed (`run`), with its
`stop` event and its monitor's place `mon`; a worker is idle, locking (its
claim holds row locks, uncommitted), holding a batch, busy, or erred (in its
except block), or dead (its task ended with the exception of a claim). An action ends at each await that lets another actor see or change
the queue: `LockClaim`/`CommitClaim`, `ReadTip`/`TopUp`,
`ReadProgress`/`Shutdown` are pairs for that reason. `Leave` is the
cancellation of a task; a write that commits under the cancellation is
`CommitJob` followed by `Leave`. `Faults` says which disturbances an instance
admits, `MaxFaults` how many. A mark of a row (`Finish`) waits until a claim
that has locked the row has ended. What a phase does with a height is only its
outcome here.

### Extraction

`db` is the record of committed tables; an outpoint stands for its `out` row,
the `spends` row of its spender and that input's `in` row. `total_in` is kept
as the set of outpoints it sums. A database transaction is its commit, one
action, except for the SELECT of backfill-vins (`Resolve`), whose result may be
old when the transaction commits. `disk` is the prefix of history a server
crash preserves: `Flush` brings it up to date, `DbCrash` returns to it.
`Phased` tells run-all from phases run concurrently. Claims are any
set of pending rows: `PhaseRunner` has the detail.

### Archive

Three variables: blocks stored, blocks reported, and the pair a crash leaves.
`Extraction!ImplementsArchive` maps `stored` to the heights all of whose rows
are in `db`, `reported` to those with `vout_status` done, `saved` to the same two of `disk`.
Every step is Publish, Withdraw, Persist, Lose or a stutter.

### AddressScan

`watch` holds balance, utxo count and tx count of each address; `applied`, which
the program does not have, counts the committed deltas of a block. A block is
extracted at once, or first its outputs (`half`, verbosity 2) and later its
spends. `Order` tells whether extract finishes first, works in height order, or
in any order.

Both writers of `watch_addresses` are one UPDATE under READ COMMITTED, and both
take two steps here. A delta takes its snapshot when its statement begins
(`BeginDelta`: `view` is what its lookup of outputs sees) and changes the rows
as they are when it commits (`Scan`); the server reads a row again when it gets
the lock. recompute-balances takes its snapshot (`BeginRecompute`: the blocks with
outputs and those with spends) and sets the rows to its sums when it commits
(`EndRecompute`), over whatever deltas or other recomputations, of which any
number may run, have written since. Locks are held until the commit, so each row is
written in the order of the commits.

`orderly` is history too: it holds as long as the deltas have gone in in height
order, each once and begun when the blocks below had their rows; and it holds again after a
recomputation whose snapshot has the scanned blocks and no others, half ones
included, and during which no row was written. `OrderlyIsExact` says that this is enough for exact balances.
Each part is needed: without it TLC finds wrong balances.

### Trace

A flow is a pair of addresses; its value only orders rows, so `QueryRows` yields
them in any order. `size` stands for the number of outputs: few, more than
`--max-utxos` (a query then sees any part of the flows), or a hub's. `level`
and `mark` are the fields of `nodes`, `edges` and `q` the lists of the same
names. One action is one turn of the loop: the address taken is passed over
(`TraceSkip`), left unexpanded (`TraceLeave`: hub or timeout), or expanded with
all its rows, up to the node cap (`TraceExpand`). `owner` is what
`_origin_cluster` found, any set with the origin in it.

### Pool

The sizes are translated expression by expression from `load_config`
(`TotalConn` to `PoolSize`). `place` is what a task uses a connection for, or
what it does without one; `line` is the pool's queue of waiting clients, which
psycopg serves in order. A writer takes a permit of `db_write_sem` and then
asks for a connection, so permits are the writers in line or served
(`Permit`).

### Backup, EntityTags, ConfigFiles

In `Backup` a table's content is the number of the last commit it shows. The
snapshot of pg_dump and storage damage are external; `noted` is what the
database held when the command looked for running jobs, before the dump.
`EntityTags` keeps the table as a function from address and source, and a
running import as the rows it has still to insert, each autocommitted; `due` is
a history variable for `OfacComplete`. Any import but import-ofac may come with
`--source OFAC`: its row then replaces that of import-ofac, whatever its
category. `relabelled` (history too) has the addresses whose OFAC row was written last by
such an import; `SanctionedShows` speaks of the others.
`ConfigFiles` keeps contents as numbers, a path as a sequence of components,
each with the separator before it, and the clock as seconds, since `.bak` names
have no finer time. A restore takes two steps per file, as `restore_file` makes
two copies: the file in place goes to its `.bak` name (`Preserve`), then the
backup's goes over it (`RestoreFile`). The command may be killed between any two copies or
in the middle of either (`ConfigDies`), and edits may come in between.
`NothingLost` has two exceptions, which the code has: somebody edits the file between the
two copies (`looked` notes the edits there were), and a second `.bak` copy of
a file within one second goes over the first, under the same name (`baks` counts the
copies made). One of these is a restore killed after its `.bak` copy and started
again at once, and then killed or not: the file as it was before both is gone.

### Coins

A script is its type and the keys it names; an address is how it begins and the
rest, for a key the base58 digits. `Encode` is the algorithm of
`base58check_encode` on a small radix, `CoreAddress` the definition it has to
meet: as many leading ones as zero bytes, the same value. `AddressesOf` is what
the node reports: before version 22 the addresses of all keys, later none for a
bare public key or multisig. The node may be upgraded and the database migrated
at any time. `out`, `in` and `spend` are the rows, `stored`, which the program
does not have, the outputs whose block is in, `refused` those whose row the
cast to `address_type` refuses. Verbosity 3 needs a newer node. `ScriptType` are
the types with an address or keys that the code knows; scripts of other types
leave no row. That a byte is at most `Radix` squared (256, 58) makes two digits
enough for each byte.

### Rpc

`asking` is the call a fetch has come to (`getblockhash`, `getblock` at
verbosity 3, then 2) or how it ended, `turn` whether that call waits for the
semaphore, is under way, or sleeps before its next `attempt`. `queued` and
`inside` are the semaphore, which serves in order. `trouble`, which the
program does not have, counts the attempts a fetch has lost; an exception that
is not retried counts as all of them.

### DeltaLocks

The CTE that locks the rows in the order of the address is referenced by
nothing, so the server does not run it: the UPDATE locks in the order of its
plan, any order here. The comment `scripts/02_address_scans.py:318`, "Lock
watch rows deterministically to prevent deadlocks", is not what the statement
does. A blocked delta waits for one row and reads it again when it is free
(READ COMMITTED); the server ends one of a circle, whose height is then
`failed` until it is requeued. Of a row there are `first_seen`,
`last_seen` and `last_scanned_height`; `AddressScan` has the sums.

### Legacy

`old` are the tables of `Extraction` and the column `features`; scripts 0 and 1
run, at most one of each at a time (the reset of script 0 takes every job in
progress, so two of them would take each other's), and their workers are a set of `claimed` heights. `Shown` are the outputs
for which the node gives an address: the old extraction stores no others. The
upgrade begins at any moment, ends the scripts, and is one of four: the requeue
of skipped blocks in the README ("skipped"), that which diagnose recommends
("features"), a rescan of all heights ("rescan"), or backfill again
("repair"). `New` is `Extraction` on the same tables, and its operators are the
transactions of the new phases, here run to the end without fault on a node
with verbosity 3.

## 3. Runs

| Run | Instance | Shows |
|---|---|---|
| `runner` | a primary with a child, and a second command; one worker in the child and one in the other command; heights 0..1; one fault of any of seven kinds (failing jobs uncounted) | the worker exclusion, the queue without holes, done is final |
| `runner_live` | one process, two workers, two starts, one fault of any of nine kinds, those of a single process and a node that is down | it stops and only when finished; abandoned jobs recover (liveness) |
| `runner_child_stops` | primary and child, no fault | **violated**: a child stops on old counts |
| `extract` | two extractors and a backfiller at once, a block that spends another and itself, any two of seven kinds of fault | done is stored, blocks are whole, totals backed, rows only grow, `Archive` implemented |
| `extract_crash` | backfill after extract, three blocks, one of them empty, server crashes, deaths, resets | `Archive` implemented across crashes, and inputs complete when nothing failed |
| `extract_v2_failed_block` | verbosity 2, one failed fetch | **violated**: vin done without an input |
| `scan_faults` | two workers, any order, eight kinds of fault, two of them, a recomputation being one | a delta goes in with its status, and once; deltas in height order, or a recomputation from the scanned blocks alone that nothing overlaps, give exact balances |
| `scan_two_workers` | two workers, no fault, extraction finished | **violated**: a debit clamped away |
| `scan_recompute` | one worker, recompute at any time | **violated**: a block counted twice |
| `commands` | every graph of seven possible flows with a chain of two in it, four settings of the caps; three workers and the monitor on three settings of the pool; three tables and two commits; two sessions, three imports; three edits, two restores; two outputs, the first P2PK, over both kinds of node; two fetchers, one slot, four failed calls; three blocks over three addresses; five blocks, batches of two and one mishap of the scripts | the properties of the nine modules |
| `trace_max_utxos` | the same graphs | **violated**: flows cut by `--max-utxos` leave no mark |
| `upgrade_skipped` | the same blocks | **violated**: the requeue of skipped blocks misses a block with P2PK outputs only |

### Bounds

Heights: two or three. Every property relates at most two blocks, one that
creates an output and one that spends it, and the chains have a spend across
blocks, a spend within a block, an output without an address and an empty
block (four blocks in the scan, so that each address is credited
and debited over blocks and within one). Workers: two that compete, since every
property speaks of pairs; a third one of the other phase in `extract`. Faults:
one or two in a behaviour: enough for each kind alone and each pair in the
extraction and the scan. Batches of two in the runner so that a worker holds
more than it processes. The graphs of `commands` have a chain as long as the
depth, a diamond (an address queued twice), a way back to the origin and a flow
of an address to itself; its settings of the caps hit the fan-out, the
depth and the node cap, one with `--max-nodes 1`. The pool settings are one with
fewer connections than the pool's minimum, one with more writers than
connections, one split over two processes. The OFAC lists have an address under
two currencies in both orders, and one sheet gives an address the source OFAC and
another category; two of three candidate files share a base name,
and two share the name of a copy. The keys of `Coins` are one of each form, one
with a hash that begins with a zero byte; two outputs are enough for a P2PK and
a P2PKH output of one key, and for a multisig that names another's. Four failed
calls are one more than lose a verbosity, so that one fetch falls back and the
other is disturbed, behind one slot they compete for. Three deltas, each pair with
a common row, make circles of two and of three. The legacy chain has a block
with a P2PK output alone, one with both kinds, one that spends both, and an
empty one; batches of two leave a height behind that is claimed and not
processed. `MaxHeight` bounds the chain, `MaxRuns` the starts of a
command, `MaxFaults` the disturbances, `MaxErrors` the failed calls, `MaxMishaps` the failures and kills of the scripts, `MaxCommits`, `MaxImports`,
`MaxRemovals`, `MaxEdits`, `MaxRestores` and `MaxClock` what their names say;
nothing else is cut. Workers are interchangeable in `scan_faults`, which
has `SYMMETRY` over them (1.8 million states, two minutes on two cores; without it
the run would take twice as long): no definition tells one worker from another, and
the run checks no liveness.

`CHECK_DEADLOCK FALSE` everywhere: a command that has ended and is not started
again is a legal end.

### Fairness

`PhaseRunner!FairSpec` has weak fairness of the steps of a worker and of a
process: asyncio runs each task that can run, and RPC and database calls end,
in an answer or in their timeouts (`rpc.py:66`, the pool timeout). Nothing is
assumed of starts, faults, new blocks or the passing of `stale_minutes`.
`Terminates` needs a row to count, as the code does (`runner.py:91`), and a
run without disturbance; `AbandonedRecovers` asks that the next command starts
when the job is already old: a younger one is left for a later command.

`Pool!PoolFairness` has weak fairness of the short statements (claims, marks and
reads end) and of the pool handing out connections. Nothing is assumed of
writes: `MonitorServed` holds although the writes under way never end, which is
what the comment at `config.py:142` is about.

`Rpc!RpcFairness` has weak fairness of the semaphore, of the end of each call
(an answer, or the timeout of `rpc.py:66`) and of the end of a sleep; nothing
of how a call ends, and a fetch may fail as often as `MaxErrors` allows.
`DeltaLocks!LocksFairness` has weak fairness of each running delta: its UPDATE
takes the next row where it can, its transaction commits, and the server ends a
transaction of a circle after `deadlock_timeout`. No order of the locks is
assumed.

### The six disagreements

1. `runner.py:64-65` promises that topping up first prevents a premature
   shutdown. It does in the primary (`runner_live`), not in a child.
2. `backfill_vins.py:8-12` promises that no block is marked done with inputs
   missing. It is, when prevouts come from the database and a block they come
   from is not stored. `RunAllComplete` shows the case that works.
3. `README.md:149` promises that the scan keeps balances current. It does for a
   single worker behind an extract in height order, not for several workers.
4. `trace.py:15` promises that all caps are reported. The cap on the outputs
   of an address is not. `CutsAreReported` shows that it is the only one.
5. `cli.py:313` lets recompute-balances run at any time. It is exact only while
   no extracted block is still to be scanned and none is scanned while it runs.
6. `README.md:129-136` of the repository takes blocks with nothing but P2PK
   outputs to be skipped ones and requeues these. The old extraction marked them done
   (`scripts/00_extract_blocks_vin_vout_batchgpt5.py:348-358, 619, 631`), so
   their outputs stay missing. `diagnose.py:208-212` agrees with the code, and
   what it recommends works (`FeaturesSuffice`).

The node cap of trace (`cli.py:398`) is overshot by one in the second pass of
`--direction both`, and where `--max-nodes` is 1. The value of a
funding edge is the whole of the funder's inputs, its change included, although
`trace.py:283-284` calls it a fact when there is one input.

In a legacy database block 0 has no job row (the old top-up begins at 1, the new
one after the greatest), so not even `requeue --from 0` brings in its output:
`UpgradeCompletes` speaks of blocks with a row. Backfill alone leaves a total
that the old scripts had summed over some of the inputs only; a rescan does not.

A P2PK output with a hybrid key (first byte 06 or 07) is of type `pubkey` for
the node and gets no address, although `addresses.py:5` speaks of every P2PK
output; and an older node credits a bare multisig output to its first key. Both
are left out of `BalancesExact` by `OneOwner`.

## 4. Proofs

All theorems hold for every value of the constants that satisfies the named
assumption of the module, which TLC evaluates in the runs. In each case the
property is not inductive alone; what follows says what is missing.

### Extraction

`ExtractionProofs` proves `VoutDoneStored`, `VinDoneSpends`, `BlockAtomic` and
`TotalsBacked` for any chain, any workers, any batch and any number of faults.
The inductive invariant is

    IInv == TypeOK /\ Good(db) /\ Good(disk) /\ SkipsRightly

`Good(d)` collects the four statements for one state of the tables, plus
`HasRows` (the mark of a commit must hit a row, or a block would be
stored without its report) and the bound of each total by its transaction's inputs
(without it a total could name inputs of another block). It must hold of `disk` as well, because a crash makes `disk`
the tables. `SkipsRightly` links the two transactions of the skip path: the
second marks vin done, which is right only because the block has no inputs.
The step case rests on one observation: a step changes the tables in one of
four ways (store a block, complete a block's inputs, mark a skipped block's vin
done, or only take reports away), `StepChanges` proves it by one step per
action, and `ChangesGood` proves that each way keeps `Good`. That `Extraction`
implements `Archive` (`Refinement`) and that rows only grow (`TablesOnlyGrow`)
follow from the same four ways.

`RunAllIsComplete` needs more:

    RunInv == Undisturbed => NoneFailed(db) /\ InputsComplete(db) /\ Orderly

where `Undisturbed` is a run of the phases one after the other with no faults
but deaths and resets. No block has failed and a skipped one has
nothing to store; a total is of all inputs or of none; a backfiller is at work
only when extract is over, and what it has resolved is all inputs of its block,
since by `Good` every block they come from is stored.

### The runner

`PhaseRunnerProofs` proves `ContiguousJobs`, `ExclusiveJobs`,
`HeldRowsInProgress` and `DoneIsFinal` for any number of processes and workers.
The inductive invariant is

    IInv == TypeOK /\ Queue /\ Places /\ Claims /\ (LeaseKept => Leases)

`Queue` says that the rows are `0..n` for some `n`, and that a monitor about to
insert has read a maximum no higher than `n`: this is what makes the insert from
an old maximum harmless, since rows never go away. `Places` ties a worker's
place to what it holds (a dead or idle worker holds no batch, a worker of a process that is not up is off, the job is
not in the rest of the batch). `Claims` holds whatever is disturbed: rows under an
uncommitted claim are pending, ready and under that claim only, so nothing but
a ready row comes to be in progress. `Leases` is the exclusion made inductive:
rows of a worker
are in progress and not old, and no two workers share one. It depends on
`LeaseKept` because a live job that is reset breaks it. The exception, a row done under a worker in
its except block, needs "lost_ack" among the disturbances seen; so a requeue
together with a lost acknowledgement ends the lease too.

`StrandsNoJob` and `StopsWhenFinished` are about what a monitor has read:

    QuietInv == TopUps /\ Decided /\ Undisturbed

`Decided` says that a monitor that has read a finished phase, and has awaits to go
before it sets the event, is still right about it: no row becomes pending again
except by a requeue or an insert, and no other monitor inserts. The hypothesis
`SoleTopUp` is that last part: one process, or a phase that tops nothing up.
It is not a convenience: with a child beside the primary the statement is false, which
is what `runner_child_stops` shows. `StopsWhenFinished` also excludes requeues:
an operator may requeue between the reading and the event. `Undisturbed` adds
what `StrandsNoJob` needs: without a fault, whoever has a row in progress is
alive, a process that is told to stop has finished, and so has one whose primary is gone.

### The address scan

`AddressScanProofs` proves `AppliedOnce` and `DoneIffApplied`. Its invariant is
`Fields /\ DoneApplied /\ (Quiet => Exclusive /\ Once)`:
`Once` says that a delta is in once when the block is done and not at all
otherwise, and survives a step only because of `Exclusive`, that a held block
is in progress and has one holder. `Fields` are the types of the control
variables; nothing is used of the balances.

`OrderlyBalancesExact` (`OrderlyIsExact`) is about what they sum. It adds

    BalanceInv == OfStored /\ SeenByDelta /\ SeenByRecompute
                    /\ AbsentHasNothing /\ OrderlyIsExact

Only extracted blocks are scanned or held (`OfStored`); a statement under way
has seen no more than there is now, and a delta its own block
(`SeenByDelta`), since rows of blocks are never taken away. So a delta that is
begun when the blocks below are extracted, and goes in after theirs, misses no row of them, whatever
is extracted between its read and its write: outputs of higher blocks cannot be what
it spends. `DeltaIsExact` is the step: with the
balances those of the blocks below `h`, the credits of `h` are disjoint from
what is unspent, its debits are a part of both together, its transactions are
new; so the clamp at 0 never cuts, and the result is what a recomputation of one block more
gives. This needs the consensus rule, stated in `ScanAssumption`, that no
output is spent in a block before its own. A recomputation is exact for the blocks it
saw whole; if those are the scanned ones when it commits, only the addresses
without outputs in its snapshot, which it leaves alone, are in question: they had
nothing when it began (`SeenByRecompute`, from `AbsentHasNothing`, which holds in any order),
and they still have, since nothing was written in between. What fails out of
order is that all debits find their row.

### Trace

`TraceProofs` proves `FlowsOnce`, `LevelsShortest` and `CutsAreReported` for any
flows, cluster, sizes, caps and order of rows, from `TraceAssumption`. It is
the correctness of a breadth-first search that is cut in several ways and
whose queue may hold an address more than once:

    TraceInv == TraceTypes /\ Once /\ (walk # "off" => \A dir \in Dir : Pass(dir))

`Once`: an edge starts from an address already taken from the queue, so no edge
is appended twice. `Pass(dir)` says that there are distances from the origin
over the edges of that direction (`Walked`: the levels on that side are these
distances), that the queue is sorted, spans two depths at most and holds every
address still to be expanded with its distance (`Going`), and that a graph without a
mark has all flows of what it has expanded (`Whole`). The distances are a
function that is only known to exist: the program keeps none for a node that
both passes reach, or of the origin. An entry with a depth greater than the
distance stands behind one that is right, which is why it is passed over
(`HeadIsNear`). `BallOfDistances` and `BallWithin` tie distances to the
rings of the definition of the property. Without sortedness the
first level given to a node need not be the least one: the mutant
`QueueStacked` is exactly that.

### Pool, RPC client, row locks

`RuntimeProofs` proves for every setting of the pool that
`WritersLeaveRoom` and `NoHoldAndWait` hold. `Headroom` is the arithmetic of
`load_config`: the pool has at least two connections more than permits.
`PermitsKept` says that writers are no more than permits; `LineInv` that a task
stands in line once, and only in places that use a connection, which makes
`NoHoldAndWait` inductive. `TransientErrorsMasked` (`TransientMasked`) rests on
`Attempts`: a fetch has lost at least as many attempts as the number of the one
under way says, one more while it sleeps, and as many as are allowed once it has
fallen back or failed. `RowsAreExact`
(`RowsShowDone`) rests on `LockInv`: a delta holds and waits for
rows it touches, and only while it runs; and each row shows the least and the
greatest time of the blocks done on it, with witnesses in place of `Min` and `Max`.

### The other commands

`CommandProofs`: `OfacComplete` and `SanctionedShows` from `TagsInv`, that
what is due of a list is in the table or among the rows still to be inserted,
and that the rows of import-ofac say sanctioned, and so do OFAC rows in the table
but for the relabelled addresses; `RestoreExact` and `NothingLost`
from `ConfigInv`, that the copies of a backup are told apart by their names, what
a restore has not copied back is still on its list as long as nobody edits,
every replaced file has its `.bak` unless it was edited (`Preserves`), and so has, between the
two copies of a file, what the second will replace (`Looked`): a `.bak` file
written later is another one, or the second of its second; `VerifiedIsWhole` and `TipCoversDump` from
`BackupInv`: what is in the directory at each stage, that all of it is from the
snapshot, that the height was read later, and that a verdict is about files no
longer touched; `LabelsAccepted` from `LabelInv`: a label in use is in the
enum, which only grows, and so are the types of all stored rows, which
backfill-vins copies.

`OneWallet` and `BalancesExact` follow from `WalletInv`: a row is under the
address of the owner, and an output of one owner has one as soon as its block is
stored, if it has a value. The step that matters is an output of a bare public key,
reported by an older node and derived for a newer one; `DerivedIsCore` proves
for every key that both are the same. `CoreAddress` chooses a list of digits
with the value and the leading zeros of the bytes; that it can only be the one
`Encode` computes takes the digits of a number in two ways: `DigitsIs`, `DigitsType`
(`Digits` has them, without a leading zero), `DigitsUnique` (no other list
without a leading zero has the value), `Padded` (zeros in front are counted and
do not change the value), and `EncodeRoom` that the list is short enough to be
among those `CoreAddress` chooses from. A rebuild is exact because, for an address of
owners only, the rows under it are the outputs of `CoinsOf`.

### Legacy

`LegacyProofs` proves `LegacySpends`, `UpgradeCompletes` and `FeaturesSuffice`
for any chain and any state the scripts have left. `LegacyInv` has what the
scripts keep (`Whole`: the spends of a block are there together, a done block
has them, a total is of inputs of its own transaction; `Noted`: the features
column of a done block is right), what the start of an upgrade ends (`Stopped`),
and how far each upgrade has come (`Progress`: each block is still to do or is
as the upgrade leaves it). `Finishes` says that it has ended only when nothing is
pending.

### Method

The provers cannot instantiate the library's induction theorems.
`LeastNatural` and `SmallestSubset` (`BlockJobsProofs`) stand in for them: where
a statement fails, it fails first at a least number or a smallest subset. They
follow from `WFMin`, which takes sets.
`BallGrows` (a recursive function exists), `BallOfDistances` and the lemmas on
`Elements` are proved in that way, and so are the sums of `AddressScanProofs`:
`SatsIs` finds that the fold of `MapThenSumSet` has its recursion on any finite set,
`SatsRemove` that any element may be taken out first, `SatsUnion` and
`SatsWithout` follow. So are those on digits in `CommandProofs`: `DivMod` (a quotient
and a remainder exist), `ValueIs` (the fold of `ValueIn` by the last digit),
`DigitsIs` (the recursive function `Digits` exists), and `FirstFailure`, the same for
lists: if a set of them does not hold the empty one, it has a member whose front
is not in the set.

The types of the state, and `NoHoldAndWait`, are proved and not among the
properties of a run: what holds for every value of the constants needs none.

Only model-checked: liveness (`Terminates`, `AbandonedRecovers`,
`MonitorServed`, `FetchesEnd`, `DeltasEnd`: fairness and
ENABLED are beyond the prover). Every safety invariant and action property of a
passing run has its theorem.

## 5. Not modelled

Malformed blocks and addresses, wording and logs; `updated_at` as
a column shared by the three phases (a mark by one phase makes a row look young to the
others, which only delays a reset); reorganisations: the chain is
fixed; `last_scanned_txid`; values, times, loops and clusters of trace; the
queue of `scripts/02_address_scans.py`, which is that of the backfill script on
the third column; two copies of one legacy script at a time;
`scripts/01_backfill_vins_deadrecon.py`, a variant whose statements the
driver or the server refuses (several commands with parameters in one execute,
LIMIT before UNION ALL), so no run of it gets anywhere; a node that answers a
verbosity it does not know rather than refuse it; a requeue of both columns that
is seen, or killed, between the two (each is a statement of its own,
`cli.py:160-186`; `requeue` of one column alone, which leaves the same rows, is modelled);
rows of `block_jobs` themselves lost in a server crash
(`Extraction` has one for every height throughout); the `first_seen` and `last_seen` that
recompute-balances sets (`DeltaLocks` has those of the deltas); damage to a dump
before its checksum is taken, which the manifest then takes for good; and the components marked
`not_modelled` or `partly` in `PROJECT.json`, with the reasons there.

## 6. Plan

1. Done: every module of section 2; proofs of all safety properties the runs check.
2. Next models, in this order: reorganisations; the values, clusters and round
   trips of trace.
