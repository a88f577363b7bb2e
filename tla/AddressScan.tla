----------------------------- MODULE AddressScan -----------------------------
(***************************************************************************)
(* The scan-addresses phase (phases/address_scans.py), which applies one   *)
(* delta per block to blockchain.watch_addresses, and the two commands of  *)
(* cli.py that work on the same balances: recompute-balances, which sets   *)
(* them from the tables, and requeue --phase address.                      *)
(*                                                                         *)
(* Extraction gives a block its rows at once, or first its outputs and     *)
(* later its spends (verbosity 2 and backfill-vins).  A block is `stored`  *)
(* when it has both and its statuses say so, which is what _READY_WHERE    *)
(* lets through.  Every row of watch_addresses is there from the start.    *)
(*                                                                         *)
(* Both writers of watch_addresses are one UPDATE under READ COMMITTED: it *)
(* reads the tables in the snapshot taken when the statement begins, and   *)
(* the row it writes as it is once its lock is held.  The locks last until *)
(* the commit, so that each row is written in the order of the commits:    *)
(* here a statement takes its snapshot in one step, writes in a later one, *)
(* and anything may commit in between.                                     *)
(***************************************************************************)
EXTENDS BlockJobs, FiniteSetsExt

CONSTANTS
  Height, Tx, Out, BlockOf, TxOf, SpentBy, Unspent,   \* the chain, as in Extraction
  Addr,        \* the watched addresses
  AddrOf,      \* the address of an output
  Amount,      \* its value in satoshis
  Worker,      \* worker coroutines of scan-addresses
  Batch,       \* job_batch_size
  Order,       \* how extract runs: "first", to its end before the scan (run-all),
               \* "ordered", with one worker in height order, or "any" order
  Faults,      \* which disturbances may happen, see FaultKinds
  MaxFaults    \* how many of them in a behaviour: bounds the faults

FaultKinds == {"fail", "lost_ack", "swallow", "die", "reset", "reset_live", "requeue",
               "recompute"}

ASSUME ScanAssumption ==
  /\ Height \subseteq Nat
  /\ BlockOf \in [Tx -> Height]
  /\ TxOf \in [Out -> Tx]
  /\ SpentBy \in [Out -> Tx \cup {Unspent}] /\ Unspent \notin Tx
  /\ AddrOf \in [Out -> Addr]
  /\ Amount \in [Out -> Nat \ {0}]
  /\ IsFiniteSet(Out)
  \* Consensus: an output is spent in its own block or in a later one.
  /\ \A o \in Out : SpentBy[o] # Unspent => BlockOf[TxOf[o]] <= BlockOf[SpentBy[o]]
  /\ Batch \in Nat \ {0}
  /\ Order \in {"first", "ordered", "any"}
  /\ Faults \subseteq FaultKinds /\ MaxFaults \in Nat

NoJob == -1

VARIABLES
  stored,   \* extracted blocks
  half,     \* blocks with their outputs, whose spends are not in yet
  addr,     \* the address_status column
  watch,    \* balance_sats, utxo_count and tx_count of each watched address
  at, todo, job,   \* where each worker is, as in Extraction
  view,     \* the blocks whose outputs the delta statement of a worker sees
  recomputes, \* the snapshots of the recompute-balances that are running
  applied,  \* how often the delta of a block has been committed: bookkeeping
  orderly,  \* deltas went in in height order since all balances were exact, each
            \* begun with the blocks below extracted: likewise
  faults,   \* number of disturbances so far
  seen      \* and of what kinds

blocks == <<stored, half>>
workers == <<at, todo, job, view>>
disturbances == <<faults, seen>>
history == <<applied, orderly>>
vars == <<blocks, addr, watch, workers, recomputes, history, disturbances>>

-----------------------------------------------------------------------------
Sats(S) == MapThenSumSet(LAMBDA o : Amount[o], S)

\* MUTANT: spends are not looked up at this height only.
DebitsOfAnyHeight(a, h, H) == {o \in Out : /\ AddrOf[o] = a
                                           /\ SpentBy[o] # Unspent
                                           /\ BlockOf[TxOf[o]] \in H}

\* The CTE credits of _DELTA_SQL: 'out' rows of the block's transactions.
Credits(a, h) == {o \in Out : AddrOf[o] = a /\ BlockOf[TxOf[o]] = h}

\* debits: spends at this height, joined to the 'out' rows of the blocks H.
Debits(a, h, H) == {o \in Out : /\ AddrOf[o] = a
                                /\ SpentBy[o] # Unspent /\ BlockOf[SpentBy[o]] = h
                                /\ BlockOf[TxOf[o]] \in H}

DeltaTxs(a, h, H) == {TxOf[o] : o \in Credits(a, h)} \cup {SpentBy[o] : o \in Debits(a, h, H)}

\* GREATEST(0, old + delta).
Greatest0(n) == IF n < 0 THEN 0 ELSE n

\* The UPDATE of _DELTA_SQL, its lookups over the blocks H, on the rows as they are now.
ScanDelta(h, H) ==
  [a \in Addr |->
     [balance |-> Greatest0(watch[a].balance + Sats(Credits(a, h)) - Sats(Debits(a, h, H))),
      utxos   |-> Greatest0(watch[a].utxos + Cardinality(Credits(a, h)) - Cardinality(Debits(a, h, H))),
      txs     |-> watch[a].txs + Cardinality(DeltaTxs(a, h, H))]]

\* _RECOMPUTE_SQL where the blocks H have their outputs and the blocks S their
\* spends: the CTE outs, and which of them have a spends row.
OutsOf(a, H) == {o \in Out : AddrOf[o] = a /\ BlockOf[TxOf[o]] \in H}
SpentOf(a, H, S) == {o \in OutsOf(a, H) : SpentBy[o] # Unspent /\ BlockOf[SpentBy[o]] \in S}

Aggregate(a, H, S) ==
  LET outs == OutsOf(a, H)
      spent == SpentOf(a, H, S)
  IN  [balance |-> Sats(outs \ spent),
       utxos   |-> Cardinality(outs \ spent),
       txs     |-> Cardinality({TxOf[o] : o \in outs} \cup {SpentBy[o] : o \in spent})]

\* The balance of an address by the blocks H.
Exact(a, H) == Aggregate(a, H, H)

-----------------------------------------------------------------------------
Disturb(kind) ==
  /\ kind \in Faults /\ faults < MaxFaults
  /\ faults' = faults + 1
  /\ seen' = seen \cup {kind}

Init ==
  /\ stored = {} /\ half = {}
  /\ addr = [h \in Height |-> "pending"]
  /\ watch = [a \in Addr |-> [balance |-> 0, utxos |-> 0, txs |-> 0]]
  /\ at = [w \in Worker |-> "idle"]
  /\ todo = [w \in Worker |-> {}]
  /\ job = [w \in Worker |-> NoJob]
  /\ view = [w \in Worker |-> {}]
  /\ recomputes = {}
  /\ applied = [h \in Height |-> 0]
  /\ orderly = TRUE
  /\ faults = 0
  /\ seen = {}

Extractable(h) ==
  /\ h \notin stored
  /\ Order = "ordered" => \A k \in Height : k < h => k \in stored

\* A block is extracted at verbosity 2: the 'out' rows without the spends.
ExtractOutputs(h) ==
  /\ Extractable(h) /\ h \notin half
  /\ half' = half \cup {h}
  /\ UNCHANGED <<stored, addr, watch, workers, recomputes, history, disturbances>>

\* A block gets the rest of its rows: all of them, or its spends by backfill-vins.
Extract(h) ==
  /\ Extractable(h)
  /\ stored' = stored \cup {h}
  /\ half' = half \ {h}
  /\ UNCHANGED <<addr, watch, workers, recomputes, history, disturbances>>

\* The lowest pending rows that no claim in progress has locked (PhaseRunner):
\* with one worker there is no other claim.
Claim(w) ==
  /\ at[w] = "idle"
  /\ Order = "first" => stored = Height
  /\ LET C == Claimable(addr, stored)
     IN  \E H \in IF Cardinality(Worker) = 1 THEN {Lowest(C, Batch)} ELSE SUBSET C :
           /\ H # {} /\ Cardinality(H) <= Batch
           /\ addr' = Mark(addr, H, "in_progress")
           /\ todo' = [todo EXCEPT ![w] = H]
  /\ at' = [at EXCEPT ![w] = "holding"]
  /\ UNCHANGED <<blocks, watch, job, view, recomputes, history, disturbances>>

\* getblockhash and getblock for the time of the block; no state of the model.
Begin(w) ==
  /\ at[w] = "holding"
  /\ \E h \in todo[w] :
       /\ todo' = [todo EXCEPT ![w] = @ \ {h}]
       /\ job' = [job EXCEPT ![w] = h]
  /\ at' = [at EXCEPT ![w] = "busy"]
  /\ UNCHANGED <<blocks, addr, watch, view, recomputes, history, disturbances>>

\* The transaction of process begins its _DELTA_SQL, whose snapshot this is.
BeginDelta(w) ==
  /\ at[w] = "busy"
  /\ at' = [at EXCEPT ![w] = "writing"]
  /\ view' = [view EXCEPT ![w] = stored \cup half]
  /\ UNCHANGED <<blocks, addr, watch, todo, job, recomputes, history, disturbances>>

Leave(w, place) ==
  /\ at' = [at EXCEPT ![w] = place]
  /\ view' = [view EXCEPT ![w] = {}]

NextJob(w) ==
  /\ Leave(w, IF todo[w] = {} THEN "idle" ELSE "holding")
  /\ job' = [job EXCEPT ![w] = NoJob]

Scanned == {h \in Height : applied[h] >= 1}
Below(h) == {k \in Height : k < h}

\* The delta of h goes in: in order if it is the next height and for the first
\* time, and its statement has seen the blocks below.
Count(w, h) ==
  /\ applied' = [applied EXCEPT ![h] = @ + 1]
  /\ orderly' = (orderly /\ Scanned = Below(h) /\ Below(h) \subseteq view[w])

\* MUTANT: the status is not marked in the transaction of the delta.
ApplyDeltaUnmarked(w) ==
  /\ watch' = ScanDelta(job[w], view[w])
  /\ addr' = addr
  /\ Count(w, job[w])

\* MUTANT: the status is marked, the delta is left out.
MarkWithoutDelta(w) ==
  /\ addr' = Mark(addr, {job[w]}, "done")
  /\ UNCHANGED <<watch, history>>

\* The transaction commits: the delta and the status, together.
ApplyDelta(w) ==
  /\ watch' = ScanDelta(job[w], view[w])
  /\ addr' = Mark(addr, {job[w]}, "done")
  /\ Count(w, job[w])

Scan(w) ==
  /\ at[w] = "writing"
  /\ ApplyDelta(w)
  /\ NextJob(w)
  /\ UNCHANGED <<blocks, todo, recomputes, disturbances>>

ScanUnseen(w) ==
  /\ at[w] = "writing"
  /\ Disturb("lost_ack")
  /\ ApplyDelta(w)
  /\ Leave(w, "erred")
  /\ UNCHANGED <<blocks, todo, job, recomputes>>

Fail(w) ==
  /\ at[w] \in {"busy", "writing"}
  /\ Disturb("fail")
  /\ Leave(w, "erred")
  /\ UNCHANGED <<blocks, addr, watch, todo, job, recomputes, history>>

MarkFailed(w) ==
  /\ at[w] = "erred"
  /\ addr' = Mark(addr, {job[w]}, "failed")
  /\ NextJob(w)
  /\ UNCHANGED <<blocks, watch, todo, recomputes, history, disturbances>>

MarkFailedLost(w) ==
  /\ at[w] = "erred"
  /\ Disturb("swallow")
  /\ NextJob(w)
  /\ UNCHANGED <<blocks, addr, watch, todo, recomputes, history>>

Die(w) ==
  /\ at[w] # "idle"
  /\ Disturb("die")
  /\ Leave(w, "idle")
  /\ todo' = [todo EXCEPT ![w] = {}]
  /\ job' = [job EXCEPT ![w] = NoJob]
  /\ UNCHANGED <<blocks, addr, watch, recomputes, history>>

Holds(w) == todo[w] \cup ({job[w]} \ {NoJob})
Held == UNION {Holds(w) : w \in Worker}

\* Another command starts; rows of live workers are old only if they are slow.
Reset ==
  \E H \in SUBSET Height :
    /\ \/ Disturb("reset") /\ H \cap Held = {}
       \/ Disturb("reset_live")
    /\ addr' = ResetAbandoned(addr, H)
    /\ addr' # addr
    /\ UNCHANGED <<blocks, watch, workers, recomputes, history>>

\* requeue --phase address by range or status.
Requeue ==
  \E H \in SUBSET Height :
    /\ Disturb("requeue")
    /\ addr' = RequeueRange(addr, H)
    /\ addr' # addr
    /\ UNCHANGED <<blocks, watch, workers, recomputes, history>>

\* recompute-balances begins: its snapshot of the tables.  The balances are noted
\* with it, and a number that tells two runs apart.
BeginRecompute ==
  /\ Disturb("recompute")
  /\ recomputes' = recomputes \cup
       {[no |-> faults, spends |-> stored, outs |-> stored \cup half, before |-> watch]}
  /\ UNCHANGED <<blocks, addr, watch, workers, history>>

\* Addresses without an 'out' row are left alone, the others set.
Recomputed(r) ==
  [a \in Addr |-> IF OutsOf(a, r.outs) = {} THEN watch[a] ELSE Aggregate(a, r.outs, r.spends)]

\* It commits.  The balances are then those of the scanned blocks if it saw
\* these blocks, whole, and no others, and nothing was written while it ran.
EndRecompute ==
  \E r \in recomputes :
    /\ watch' = Recomputed(r)
    /\ orderly' = (r.outs = r.spends /\ Scanned = r.spends /\ watch = r.before)
    /\ recomputes' = recomputes \ {r}
    /\ UNCHANGED <<blocks, addr, workers, applied, disturbances>>

\* It is stopped, or loses a deadlock: nothing is written.
LoseRecompute ==
  \E r \in recomputes :
    /\ recomputes' = recomputes \ {r}
    /\ UNCHANGED <<blocks, addr, watch, workers, history, disturbances>>

WorkerStep(w) ==
  \/ Claim(w) \/ Begin(w) \/ BeginDelta(w) \/ Scan(w) \/ ScanUnseen(w) \/ Fail(w)
  \/ MarkFailed(w) \/ MarkFailedLost(w) \/ Die(w)

Next ==
  \/ \E h \in Height : ExtractOutputs(h) \/ Extract(h)
  \/ \E w \in Worker : WorkerStep(w)
  \/ Reset
  \/ Requeue
  \/ BeginRecompute
  \/ EndRecompute
  \/ LoseRecompute

Spec == Init /\ [][Next]_vars

-----------------------------------------------------------------------------
\* The incremental balances are what recompute-balances would compute whenever
\* no block is half extracted and every extracted one is scanned (README:149-150).
BalancesCurrent ==
  half = {} /\ (\A h \in stored : addr[h] = "done")
    => \A a \in Addr : watch[a] = Exact(a, stored)

\* Where deltas go in in height order, each begun when the blocks below are
\* extracted, the balances are at every moment those of the blocks scanned so far.
\* A recomputation makes them so again, whatever had gone wrong before, if its
\* snapshot holds the scanned blocks and no others and nothing is written while
\* it runs (README:149-150, cli.py:313).
OrderlyIsExact == orderly => \A a \in Addr : watch[a] = Exact(a, Scanned)

\* Jobs are taken from live workers, processed again on request, or marked
\* failed though their commit went through.
Reprocessing == {"lost_ack", "reset_live", "requeue"}

\* No block's delta is added twice: a delta, unlike the rows of a block, must
\* not be processed again (cli.py:313), and deaths, failures and the reset of
\* abandoned jobs alone do not make it so.
AppliedOnce == seen \cap Reprocessing = {} => \A h \in Height : applied[h] <= 1

\* The queue and the balances agree: whatever happens, a block that is done has
\* its delta in, and without reprocessing a delta that is in is reported done.
DoneIffApplied ==
  \A h \in Height :
    /\ addr[h] = "done" => applied[h] >= 1
    /\ seen \cap Reprocessing = {} => (applied[h] >= 1 => addr[h] = "done")
=============================================================================
