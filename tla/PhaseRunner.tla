---------------------------- MODULE PhaseRunner ----------------------------
(***************************************************************************)
(* core/runner.py over core/jobs.py: the processes of one phase, their     *)
(* worker loops and monitor loops, and the status column they share.       *)
(*                                                                         *)
(* A command (`crawlbtc extract`, ...) is one primary process and the      *)
(* children it spawns; several commands may run at once.  Each process is  *)
(* one asyncio loop with a monitor and its workers, and every await lets   *)
(* any other coroutine or process run, so an action ends at an await that  *)
(* matters: taking the row locks of a claim and committing it are two      *)
(* actions, and so are reading the progress and setting the shutdown event.*)
(*                                                                         *)
(* What a phase does with a height is not modelled here (see Extraction    *)
(* and AddressScan), only how it ends: committed, failed, or neither.      *)
(***************************************************************************)
EXTENDS BlockJobs

CONSTANTS
  MaxHeight,    \* highest block the node ever reaches: bounds the chain
  Worker,       \* the worker coroutines of all processes
  Proc,         \* the OS processes
  Primary,      \* those that run with is_primary=True
  ProcOf,       \* the process of each worker
  CommandOf,    \* the primary of the command a process belongs to
  Batch,        \* job_batch_size
  Ready,        \* heights the phase's extra_where lets through
  HasTopUp,     \* whether the phase object has a top_up coroutine
  Faults,       \* which disturbances may happen, see FaultKinds
  MaxFaults,    \* how many of them in a behaviour: bounds the faults
  MaxRuns       \* how often a command is started: bounds the restarts

Height == 0..MaxHeight
NoJob == -1

\* crash: kill -9 of a process.  signal: SIGINT or SIGTERM.  fail: a job
\* raises.  lost_ack: a commit succeeds but its caller sees an error.
\* swallow: marking a job failed fails.  claim_error: the claim raises.
\* slow: a job is held for more than stale_minutes.  requeue and
\* requeue_features: the operator requeues.  rpc_down: the health check fails.
\* monitor_error: a call of the monitor raises.
FaultKinds == {"crash", "signal", "fail", "lost_ack", "swallow", "claim_error", "slow",
               "requeue", "requeue_features", "rpc_down", "monitor_error"}

ASSUME RunnerAssumption ==
  /\ MaxHeight \in Nat /\ Batch \in Nat \ {0}
  /\ MaxFaults \in Nat /\ MaxRuns \in Nat
  /\ Primary \subseteq Proc
  /\ ProcOf \in [Worker -> Proc]
  /\ CommandOf \in [Proc -> Primary]
  /\ \A p \in Primary : CommandOf[p] = p
  /\ Ready \subseteq Height
  /\ HasTopUp \in BOOLEAN
  /\ Faults \subseteq FaultKinds

VARIABLES
  status,     \* the phase's column of block_jobs
  old,        \* in_progress rows untouched for more than stale_minutes
  tip,        \* getblockcount of the node
  run,        \* a process is "off", "starting", "up" or "killed"
  stop,       \* its shutdown_event
  mon,        \* where its monitor loop is
  cachedTip,  \* the primary's cached getblockcount, -1 before the first
  latest,     \* the MAX(height) its top_up read
  at,         \* where a worker is
  batch,      \* heights it has claimed, or is claiming, and not begun
  job,        \* the height it is processing
  runs,       \* starts of each command so far
  faults,     \* number of disturbances so far
  seen        \* and of what kinds

table == <<status, old>>
procs == <<run, stop, runs>>
monitors == <<mon, cachedTip, latest>>
workers == <<at, batch, job>>
disturbances == <<faults, seen>>
vars == <<table, tip, procs, monitors, workers, disturbances>>

WorkersOf(p) == {w \in Worker : ProcOf[w] = p}
Alive == {w \in Worker : at[w] \notin {"off", "dead"}}

\* The heights a worker answers for: claimed, and begun but not finished.
Holds(w) == (IF at[w] = "locking" THEN {} ELSE batch[w]) \cup ({job[w]} \ {NoJob})

\* Rows under FOR UPDATE in a claim transaction that has not ended.
Locked == UNION {batch[w] : w \in {v \in Worker : at[v] = "locking"}}

Disturb(kind) ==
  /\ kind \in Faults /\ faults < MaxFaults
  /\ faults' = faults + 1
  /\ seen' = seen \cup {kind}

\* A phase without top_up goes straight to the progress query.
FirstMon(p) == IF HasTopUp /\ p \in Primary THEN "topup" ELSE "read"

-----------------------------------------------------------------------------
\* The table as earlier runs left it: heights below d finished, the rest of
\* the rows pending.  Only `extract` inserts rows, so for it all rows have
\* been processed, and for another phase the rows are those extract inserted.
Init ==
  /\ \E n \in 0..(MaxHeight + 1), d \in 0..(MaxHeight + 1) :
       /\ IF HasTopUp THEN d = n ELSE d <= n
       /\ status = [h \in Height |-> IF h < d THEN "done"
                                     ELSE IF h < n THEN "pending" ELSE "absent"]
       /\ tip \in {t \in Height : n <= t + 1}
  /\ old = {}
  /\ run = [p \in Proc |-> "off"]
  /\ stop = [p \in Proc |-> FALSE]
  /\ runs = [p \in Primary |-> 0]
  /\ mon = [p \in Proc |-> FirstMon(p)]
  /\ cachedTip = [p \in Proc |-> -1]
  /\ latest = [p \in Proc |-> -1]
  /\ at = [w \in Worker |-> "off"]
  /\ batch = [w \in Worker |-> {}]
  /\ job = [w \in Worker |-> NoJob]
  /\ faults = 0
  /\ seen = {}

\* run_phase: the children are spawned, then the primary runs its loop.
Start(p) ==
  /\ p \in Primary /\ runs[p] < MaxRuns
  /\ \A q \in Proc : CommandOf[q] = p => run[q] \in {"off", "killed"}
  /\ runs' = [runs EXCEPT ![p] = @ + 1]
  /\ run' = [q \in Proc |-> IF CommandOf[q] = p THEN "starting" ELSE run[q]]
  /\ UNCHANGED <<table, tip, stop, monitors, workers, disturbances>>

\* run_phase_async up to its tasks: the health check, setup, which resets
\* abandoned jobs in the primary only, and one task per worker.
Setup(p) ==
  /\ run[p] = "starting"
  /\ run' = [run EXCEPT ![p] = "up"]
  /\ stop' = [stop EXCEPT ![p] = FALSE]
  /\ mon' = [mon EXCEPT ![p] = FirstMon(p)]
  /\ cachedTip' = [cachedTip EXCEPT ![p] = -1]
  /\ at' = [w \in Worker |-> IF ProcOf[w] = p THEN "idle" ELSE at[w]]
  /\ IF p \in Primary
     THEN status' = ResetAbandoned(status, old) /\ old' = {}
     ELSE UNCHANGED table
  /\ UNCHANGED <<tip, runs, latest, batch, job, disturbances>>

\* The health check fails: sys.exit(1).
SetupFails(p) ==
  /\ run[p] = "starting"
  /\ Disturb("rpc_down")
  /\ run' = [run EXCEPT ![p] = "off"]
  /\ UNCHANGED <<table, tip, stop, runs, monitors, workers>>

-----------------------------------------------------------------------------
\* Worker loop.

Running(w) == run[ProcOf[w]] = "up"

\* MUTANT: the SELECT of the claim without FOR UPDATE SKIP LOCKED.
ClaimRowsUnlocked == Lowest(Claimable(status, Ready), Batch)

\* The SELECT ... FOR UPDATE SKIP LOCKED of claim_jobs: rows another claim
\* has locked are passed over, so the lowest of the others are taken.
ClaimRows == Lowest(Claimable(status, Ready) \ Locked, Batch)

LockClaim(w) ==
  /\ at[w] = "idle" /\ Running(w) /\ ~stop[ProcOf[w]]
  /\ ClaimRows # {}
  /\ at' = [at EXCEPT ![w] = "locking"]
  /\ batch' = [batch EXCEPT ![w] = ClaimRows]
  /\ UNCHANGED <<table, tip, procs, monitors, job, disturbances>>

CommitClaim(w) ==
  /\ at[w] = "locking"
  /\ status' = Mark(status, batch[w], "in_progress")
  /\ old' = old \ batch[w]
  /\ at' = [at EXCEPT ![w] = "holding"]
  /\ UNCHANGED <<tip, procs, monitors, batch, job, disturbances>>

\* phase.claim raises, before or after its transaction committed.  Nothing
\* in _worker_loop catches it: the task ends and the process stays up.
ClaimError(w) ==
  /\ at[w] \in {"idle", "locking"} /\ Running(w)
  /\ Disturb("claim_error")
  /\ \/ UNCHANGED table
     \/ /\ status' = Mark(status, batch[w], "in_progress")
        /\ old' = old \ batch[w]
  /\ at' = [at EXCEPT ![w] = "dead"]
  /\ batch' = [batch EXCEPT ![w] = {}]
  /\ UNCHANGED <<tip, procs, monitors, job>>

\* The rows come back in no particular order.
BeginJob(w) ==
  /\ at[w] = "holding" /\ ~stop[ProcOf[w]]
  /\ \E h \in batch[w] :
       /\ job' = [job EXCEPT ![w] = h]
       /\ batch' = [batch EXCEPT ![w] = @ \ {h}]
  /\ at' = [at EXCEPT ![w] = "busy"]
  /\ UNCHANGED <<table, tip, procs, monitors, disturbances>>

\* mark_status is an UPDATE by height alone: it asks nothing of the status, but
\* it waits for a claim that has locked the row to end.
Finish(w, s) ==
  /\ job[w] \notin Locked
  /\ status' = Mark(status, {job[w]}, s)
  /\ old' = old \ {job[w]}

\* The next height of the batch, or another claim.
NextJob(w) ==
  /\ at' = [at EXCEPT ![w] = IF batch[w] = {} THEN "idle" ELSE "holding"]
  /\ job' = [job EXCEPT ![w] = NoJob]

\* The transaction of process commits, with its status mark.
CommitJob(w) ==
  /\ at[w] = "busy"
  /\ Finish(w, "done")
  /\ NextJob(w)
  /\ UNCHANGED <<tip, procs, monitors, batch, disturbances>>

\* The server commits but process sees an exception.
CommitUnseen(w) ==
  /\ at[w] = "busy"
  /\ Disturb("lost_ack")
  /\ Finish(w, "done")
  /\ at' = [at EXCEPT ![w] = "erred"]
  /\ UNCHANGED <<tip, procs, monitors, batch, job>>

\* process raises before its transaction commits: an outcome like another,
\* which counts as no disturbance of the queue.
FailJob(w) ==
  /\ at[w] = "busy" /\ "fail" \in Faults
  /\ at' = [at EXCEPT ![w] = "erred"]
  /\ UNCHANGED <<table, tip, procs, monitors, batch, job, disturbances>>

\* The except block: mark the height failed on another connection.
MarkFailed(w) ==
  /\ at[w] = "erred"
  /\ Finish(w, "failed")
  /\ NextJob(w)
  /\ UNCHANGED <<tip, procs, monitors, batch, disturbances>>

\* That fails too, and the inner except passes.
MarkFailedLost(w) ==
  /\ at[w] = "erred"
  /\ Disturb("swallow")
  /\ NextJob(w)
  /\ UNCHANGED <<table, tip, procs, monitors, batch>>

\* The shutdown event: the loop breaks, or the task is cancelled at its await.
\* A shielded write or a claim that commits first is CommitJob or CommitClaim.
Leave(w) ==
  /\ Running(w) /\ stop[ProcOf[w]] /\ at[w] # "off"
  /\ at' = [at EXCEPT ![w] = "off"]
  /\ batch' = [batch EXCEPT ![w] = {}]
  /\ job' = [job EXCEPT ![w] = NoJob]
  /\ UNCHANGED <<table, tip, procs, monitors, disturbances>>

-----------------------------------------------------------------------------
\* Monitor loop.

Monitoring(p) == run[p] = "up" /\ ~stop[p]

\* top_up, first half: the tip, asked for or cached, and MAX(height).
ReadTip(p) ==
  /\ Monitoring(p) /\ mon[p] = "topup"
  /\ \E t \in {tip} \cup ({cachedTip[p]} \ {-1}) :
       /\ cachedTip' = [cachedTip EXCEPT ![p] = t]
       /\ latest' = [latest EXCEPT ![p] = LatestJob(status)]
       /\ mon' = [mon EXCEPT ![p] = IF t <= LatestJob(status) THEN "read" ELSE "insert"]
  /\ UNCHANGED <<table, tip, procs, workers, disturbances>>

\* top_up, second half: INSERT ... ON CONFLICT DO NOTHING and commit.
TopUp(p) ==
  /\ Monitoring(p) /\ mon[p] = "insert"
  /\ status' = InsertJobs(status, latest[p], cachedTip[p])
  /\ mon' = [mon EXCEPT ![p] = "read"]
  /\ UNCHANGED <<old, tip, procs, cachedTip, latest, workers, disturbances>>

\* phase.progress: the counts are read; what follows acts on them.
ReadProgress(p) ==
  /\ Monitoring(p) /\ mon[p] = "read"
  /\ mon' = [mon EXCEPT ![p] = IF PhaseFinished(status, Ready) THEN "finish" ELSE FirstMon(p)]
  /\ UNCHANGED <<table, tip, procs, cachedTip, latest, workers, disturbances>>

\* getblockcount, top_up_jobs or the progress query raises: logged, and the
\* body starts over after its sleep.
MonitorError(p) ==
  /\ Monitoring(p) /\ mon[p] # "finish"
  /\ Disturb("monitor_error")
  /\ mon' = [mon EXCEPT ![p] = FirstMon(p)]
  /\ UNCHANGED <<table, tip, procs, cachedTip, latest, workers>>

\* pending == 0 and in_progress == 0 and (done + skipped) > 0.
Shutdown(p) ==
  /\ Monitoring(p) /\ mon[p] = "finish"
  /\ stop' = [stop EXCEPT ![p] = TRUE]
  /\ mon' = [mon EXCEPT ![p] = FirstMon(p)]
  /\ UNCHANGED <<table, tip, run, runs, cachedTip, latest, workers, disturbances>>

\* All tasks have been cancelled and gathered.
Exit(p) ==
  /\ run[p] = "up" /\ stop[p]
  /\ \A w \in WorkersOf(p) : at[w] = "off"
  /\ run' = [run EXCEPT ![p] = "off"]
  /\ UNCHANGED <<table, tip, stop, runs, monitors, workers, disturbances>>

\* run_phase after the primary's loop: join for 30 s, then SIGTERM.
Terminate(p) ==
  /\ p \notin Primary /\ run[CommandOf[p]] = "off"
  /\ run[p] = "up" /\ ~stop[p]
  /\ stop' = [stop EXCEPT ![p] = TRUE]
  /\ UNCHANGED <<table, tip, run, runs, monitors, workers, disturbances>>

-----------------------------------------------------------------------------
\* The environment.

Signal(p) ==
  /\ run[p] = "up" /\ ~stop[p]
  /\ Disturb("signal")
  /\ stop' = [stop EXCEPT ![p] = TRUE]
  /\ UNCHANGED <<table, tip, run, runs, monitors, workers>>

Crash(p) ==
  /\ run[p] \in {"starting", "up"}
  /\ Disturb("crash")
  /\ run' = [run EXCEPT ![p] = "killed"]
  /\ at' = [w \in Worker |-> IF ProcOf[w] = p THEN "off" ELSE at[w]]
  /\ batch' = [w \in Worker |-> IF ProcOf[w] = p THEN {} ELSE batch[w]]
  /\ job' = [w \in Worker |-> IF ProcOf[w] = p THEN NoJob ELSE job[w]]
  /\ UNCHANGED <<table, tip, stop, runs, monitors>>

\* stale_minutes pass without a write to row h.  A live worker is done with
\* what it holds before that, unless it is slow.
GrowOld(h) ==
  /\ status[h] = "in_progress" /\ h \notin old
  /\ old' = old \cup {h}
  /\ IF \E w \in Alive : h \in Holds(w)
     THEN Disturb("slow")
     ELSE UNCHANGED disturbances
  /\ UNCHANGED <<status, tip, procs, monitors, workers>>

NewBlock ==
  /\ tip < MaxHeight
  /\ tip' = tip + 1
  /\ UNCHANGED <<table, procs, monitors, workers, disturbances>>

\* cmd_requeue: by height range or status, terminal rows only; by features,
\* rows of any status.  updated_at = now() makes every row it writes young.
Requeue ==
  \E H \in SUBSET Height \ {{}} :
    /\ \/ Disturb("requeue") /\ status' = RequeueRange(status, H)
       \/ Disturb("requeue_features") /\ status' = RequeueFeatures(status, H)
    /\ status' # status
    /\ old' = {h \in old : status'[h] = "in_progress"}
    /\ UNCHANGED <<tip, procs, monitors, workers>>

-----------------------------------------------------------------------------
WorkerStep(w) ==
  \/ LockClaim(w) \/ CommitClaim(w) \/ BeginJob(w)
  \/ CommitJob(w) \/ MarkFailed(w) \/ Leave(w)

MonitorStep(p) == ReadTip(p) \/ TopUp(p) \/ ReadProgress(p) \/ Shutdown(p)

ProcessStep(p) == Setup(p) \/ MonitorStep(p) \/ Exit(p) \/ Terminate(p)

Next ==
  \/ \E w \in Worker : WorkerStep(w)
  \/ \E w \in Worker : ClaimError(w) \/ CommitUnseen(w) \/ FailJob(w) \/ MarkFailedLost(w)
  \/ \E p \in Proc : ProcessStep(p)
  \/ \E p \in Proc : Start(p) \/ SetupFails(p) \/ MonitorError(p) \/ Signal(p) \/ Crash(p)
  \/ \E h \in Height : GrowOld(h)
  \/ NewBlock
  \/ Requeue

Spec == Init /\ [][Next]_vars

\* asyncio runs every task that can run, and the RPC and database calls end,
\* by their timeouts at the latest.  Nothing makes a command start, a fault
\* happen, a block appear or an abandoned job reach its age.
Fairness ==
  /\ \A w \in Worker : WF_vars(WorkerStep(w))
  /\ \A p \in Proc : /\ WF_vars(Setup(p)) /\ WF_vars(MonitorStep(p))
                     /\ WF_vars(Exit(p)) /\ WF_vars(Terminate(p))

FairSpec == Spec /\ Fairness
-----------------------------------------------------------------------------
\* Every variable holds a value of its type, and a worker has a job exactly
\* while it processes one.
TypeOK ==
  /\ status \in [Height -> JobStatus]
  /\ old \subseteq WithStatus(status, "in_progress")
  /\ tip \in Height
  /\ run \in [Proc -> {"off", "starting", "up", "killed"}]
  /\ stop \in [Proc -> BOOLEAN]
  /\ runs \in [Primary -> 0..MaxRuns]
  /\ mon \in [Proc -> {"topup", "insert", "read", "finish"}]
  /\ cachedTip \in [Proc -> Height \cup {-1}]
  /\ latest \in [Proc -> Height \cup {-1}]
  /\ at \in [Worker -> {"off", "idle", "locking", "holding", "busy", "erred", "dead"}]
  /\ batch \in [Worker -> SUBSET Height]
  /\ job \in [Worker -> Height \cup {NoJob}]
  /\ \A w \in Worker : job[w] # NoJob <=> at[w] \in {"busy", "erred"}
  /\ faults \in 0..MaxFaults /\ seen \subseteq Faults

\* What the exclusion of workers rests on: no job outlives stale_minutes, no
\* requeue --features takes jobs from under them, and none by range does so for
\* a job whose commit its worker has not seen.
LeaseKept ==
  /\ seen \cap {"slow", "requeue_features"} = {}
  /\ ~({"lost_ack", "requeue"} \subseteq seen)

\* No block is worked on twice at a time: no two workers, of one process or of
\* several, hold the same height (jobs.py:3-5 promises it of the claim).
ExclusiveJobs ==
  LeaseKept => \A w, v \in Worker : w # v => Holds(w) \cap Holds(v) = {}

\* The queue says of every height a worker holds that it is in progress, so no
\* other claim can take it; only a commit whose outcome the worker has not
\* seen is already done.
HeldRowsInProgress ==
  LeaseKept =>
    \A w \in Worker : \A h \in Holds(w) :
      \/ status[h] = "in_progress"
      \/ status[h] = "done" /\ at[w] = "erred" /\ h = job[w]

\* The table has a row for every block from 0 to the highest one it knows: a
\* hole below MAX(height) would never be filled, top_up looks above it only.
ContiguousJobs == Rows(status) = 0..LatestJob(status)

\* Without any disturbance a row in progress has a live worker to finish it;
\* otherwise no worker and no monitor of this run would ever touch it.
NoStrandedJob ==
  faults = 0 => \A h \in WithStatus(status, "in_progress") :
                  \E w \in Alive : h \in Holds(w)

\* A job that is done stays done, but for a requeue and for the worker that
\* holds it and did not see its own commit.
DoneIsFinal ==
  [][LeaseKept => \A h \in WithStatus(status, "done") :
       \/ status'[h] = "done"
       \/ status'[h] = "pending" /\ faults' # faults
       \/ status'[h] = "failed" /\ \E w \in Worker : at[w] = "erred" /\ job[w] = h]_vars

\* A monitor that stops its process stops it when the phase is finished: no
\* ready row is pending or in progress (runner.py:64-65, "can't trigger a
\* premature shutdown").
NoPrematureShutdown ==
  [][\A p \in Proc : Shutdown(p) =>
       \A h \in Ready : status[h] \notin {"pending", "in_progress"}]_vars

\* Undisturbed, a process that starts working ends: its monitor sees the phase
\* finished and the workers leave.  There must be a row to count (runner.py:91).
Terminates ==
  \A p \in Proc :
    run[p] = "up" /\ (HasTopUp \/ Ready \cap Rows(status) # {})
      ~> (run[p] # "up" \/ faults > 0)

\* A job abandoned long enough is finished by the next command, whoever left
\* it behind, if that command is not itself stopped or killed.
AbandonedRecovers ==
  \A h \in Ready :
    (h \in old /\ \E p \in Primary : run[p] = "starting")
      ~> (status[h] \in Terminal \/ \A p \in Primary : run[p] \in {"off", "killed"})
=============================================================================
