------------------------- MODULE PhaseRunnerProofs -------------------------
(***************************************************************************)
(* Proofs about PhaseRunner for any processes, workers, batches, chain and *)
(* faults: the queue has no hole, while the leases of jobs are kept a      *)
(* height has one worker at most, and a monitor that tops up alone stops   *)
(* its process when the phase is finished, and strands no job.             *)
(***************************************************************************)
EXTENDS PhaseRunner, BlockJobsProofs

\* The queue is a range of heights, and what a monitor is about to insert
\* starts no higher than at its end.
Queue ==
  \E n \in Height \cup {-1} :
    /\ Rows(status) = 0..n
    /\ \A p \in Proc : mon[p] = "insert" => latest[p] <= n /\ cachedTip[p] \in Height

\* Where a worker is fits what it has claimed.
Places ==
  /\ \A w \in Worker : at[w] \in {"off", "idle", "dead"} => batch[w] = {}
  /\ \A w \in Worker : run[ProcOf[w]] # "up" => at[w] = "off"
  /\ \A w \in Worker : job[w] \notin batch[w]

\* A row under a claim is a pending one of the phase, under one claim only, and
\* none but these come to be in progress.
Claims ==
  /\ WithStatus(status, "in_progress") \subseteq Ready
  /\ \A w \in Worker : at[w] = "locking" =>
       \A h \in batch[w] : status[h] = "pending" /\ h \in Ready
  /\ \A w, v \in Worker :
       w # v /\ at[w] = "locking" /\ at[v] = "locking" => batch[w] \cap batch[v] = {}

\* A row of a worker is in progress, or done by a commit it has not seen.
HeldRow(w, h) ==
  \/ status[h] = "in_progress"
  \/ status[h] = "done" /\ at[w] = "erred" /\ h = job[w] /\ "lost_ack" \in seen

\* It is not old, and it has one worker.
Leases ==
  /\ \A w \in Worker : \A h \in Holds(w) : HeldRow(w, h) /\ h \notin old
  /\ \A w, v \in Worker : w # v => Holds(w) \cap Holds(v) = {}

IInv == TypeOK /\ Queue /\ Places /\ Claims /\ (LeaseKept => Leases)

\* One monitor decides for all when the chain is followed: with more of them a
\* child's can end while the primary's inserts (see runner_child_stops).
SoleTopUp == HasTopUp => \A p, q \in Proc : p = q

\* No ready row is left to do.
Finished == \A h \in Ready : status[h] \notin {"pending", "in_progress"}

\* Only a phase with a top_up tops up.
TopUps == HasTopUp \/ \A p \in Proc : mon[p] \notin {"topup", "insert"}

\* What a monitor has read stays true until it acts on it, unless the operator
\* requeues.
Decided ==
  seen \cap {"requeue", "requeue_features"} = {} =>
    \A p \in Proc : mon[p] = "finish" => Finished

\* Undisturbed, a process is told to stop, and outlives its primary, only when
\* nothing is left to do, and a row in progress has its worker.
Undisturbed ==
  faults = 0 =>
    /\ seen = {}
    /\ \A p \in Proc : stop[p] => Finished
    /\ \A p \in Proc : run[p] \in {"starting", "up"} /\ run[CommandOf[p]] = "off" => Finished
    /\ \A h \in WithStatus(status, "in_progress") : \E w \in Alive : h \in Holds(w)

QuietInv == TopUps /\ Decided /\ Undisturbed

LEMMA HeightType == Height \subseteq Nat /\ NoJob \notin Height /\ MaxHeight \in Height
  BY RunnerAssumption DEF Height, NoJob

LEMMA Marks == {"in_progress", "done", "failed"} \subseteq JobStatus \ {"absent"}
  BY DEF JobStatus

LEMMA InitTypes == Init => TypeOK /\ Places
  BY HeightType, RunnerAssumption
  DEF Init, TypeOK, Places, FirstMon, JobStatus, WithStatus, Height

LEMMA InitQueue == Init => Queue
  <1> SUFFICES ASSUME Init PROVE Queue
    OBVIOUS
  <1>1. PICK n \in 0..(MaxHeight + 1), d \in 0..(MaxHeight + 1) :
          /\ IF HasTopUp THEN d = n ELSE d <= n
          /\ status = [h \in Height |-> IF h < d THEN "done"
                                        ELSE IF h < n THEN "pending" ELSE "absent"]
    BY DEF Init
  <1>2. d <= n /\ n - 1 \in Height \cup {-1}
    BY <1>1, RunnerAssumption DEF Height
  <1>3. Rows(status) = 0..(n - 1)
    BY <1>1, <1>2, RunnerAssumption DEF Rows, Height
  <1>4. \A p \in Proc : mon[p] # "insert"
    BY DEF Init, FirstMon
  <1> QED
    BY <1>2, <1>3, <1>4 DEF Queue

LEMMA InitLeases == Init => Claims /\ Leases
  <1>1. Init => WithStatus(status, "in_progress") = {}
    BY DEF Init, WithStatus
  <1> QED
    BY <1>1, HeightType DEF Init, Leases, Claims, Holds

LEMMA SeenGrows == [Next]_vars => seen \subseteq seen'
  BY DEF Next, vars, disturbances, WorkerStep, ProcessStep, MonitorStep, Disturb, LockClaim,
    CommitClaim, BeginJob, CommitJob, MarkFailed, Leave, ClaimError, CommitUnseen, FailJob,
    MarkFailedLost, Setup, ReadTip, TopUp, ReadProgress, Shutdown, Exit, Terminate, Start,
    SetupFails, MonitorError, Signal, Crash, GrowOld, NewBlock, Requeue

-----------------------------------------------------------------------------
\* What the steps do to the status column: none takes a row away.

LEMMA MarkStatus ==
  ASSUME TypeOK, NEW H, NEW s \in JobStatus \ {"absent"}
  PROVE  /\ Mark(status, H, s) \in [Height -> JobStatus]
         /\ \A h \in Height : Mark(status, H, s)[h] =
                                IF h \in H /\ status[h] # "absent" THEN s ELSE status[h]
         /\ Rows(Mark(status, H, s)) = Rows(status)
  <1>1. status \in Columns(Height)
    BY DEF TypeOK, Columns
  <1> QED
    BY <1>1, MarkColumn DEF Columns, Rows, TypeOK

LEMMA ResetStatus ==
  ASSUME TypeOK
  PROVE  /\ ResetAbandoned(status, old) \in [Height -> JobStatus]
         /\ \A h \in Height : ResetAbandoned(status, old)[h] =
              IF h \in old THEN "pending" ELSE status[h]
         /\ Rows(ResetAbandoned(status, old)) = Rows(status)
  <1>1. status \in Columns(Height)
    BY DEF TypeOK, Columns
  <1> QED
    BY <1>1, ResetColumn DEF Columns, Rows, TypeOK, WithStatus

LEMMA RequeueStatus ==
  ASSUME TypeOK, NEW H
  PROVE  /\ RequeueRange(status, H) \in [Height -> JobStatus]
         /\ RequeueFeatures(status, H) \in [Height -> JobStatus]
         /\ \A h \in Height : RequeueRange(status, H)[h] =
              IF h \in H /\ status[h] \in Terminal THEN "pending" ELSE status[h]
         /\ Rows(RequeueRange(status, H)) = Rows(status)
         /\ Rows(RequeueFeatures(status, H)) = Rows(status)
  <1>1. status \in Columns(Height)
    BY DEF TypeOK, Columns
  <1> QED
    BY <1>1, RequeueRangeColumn, RequeueFeaturesColumn DEF Columns, Rows, TypeOK, Terminal

LEMMA InsertStatus ==
  ASSUME TypeOK, NEW latest0, NEW t
  PROVE  /\ InsertJobs(status, latest0, t) \in [Height -> JobStatus]
         /\ \A h \in Height : InsertJobs(status, latest0, t)[h] =
              IF h \in (latest0 + 1)..t /\ status[h] = "absent" THEN "pending" ELSE status[h]
  <1>1. status \in Columns(Height)
    BY DEF TypeOK, Columns
  <1> QED
    BY <1>1, InsertColumn DEF Columns

\* What is old stays in progress, whatever a step does to the table.
LEMMA TableTypes ==
  ASSUME TypeOK,
         \/ \E H : \E s \in JobStatus \ {"absent"} : status' = Mark(status, H, s) /\ old' = old \ H
         \/ status' = ResetAbandoned(status, old) /\ old' = {}
         \/ \E H : /\ status' \in {RequeueRange(status, H), RequeueFeatures(status, H)}
                   /\ old' = {h \in old : status'[h] = "in_progress"}
         \/ \E m, t : status' = InsertJobs(status, m, t) /\ old' = old
  PROVE  /\ status' \in [Height -> JobStatus]
         /\ old' \subseteq WithStatus(status', "in_progress")
  <1>0. old \subseteq Height /\ \A h \in old : status[h] = "in_progress"
    BY DEF TypeOK, WithStatus
  <1>1. ASSUME NEW H, NEW s \in JobStatus \ {"absent"},
               status' = Mark(status, H, s), old' = old \ H
        PROVE  /\ status' \in [Height -> JobStatus]
               /\ old' \subseteq WithStatus(status', "in_progress")
    BY <1>0, <1>1, MarkStatus DEF WithStatus
  <1>2. CASE status' = ResetAbandoned(status, old) /\ old' = {}
    BY <1>2, ResetStatus
  <1>3. ASSUME NEW H, status' \in {RequeueRange(status, H), RequeueFeatures(status, H)},
               old' = {h \in old : status'[h] = "in_progress"}
        PROVE  /\ status' \in [Height -> JobStatus]
               /\ old' \subseteq WithStatus(status', "in_progress")
    BY <1>0, <1>3, RequeueStatus DEF WithStatus
  <1>4. ASSUME NEW m, NEW t, status' = InsertJobs(status, m, t), old' = old
        PROVE  /\ status' \in [Height -> JobStatus]
               /\ old' \subseteq WithStatus(status', "in_progress")
    BY <1>0, <1>4, InsertStatus DEF WithStatus
  <1> QED
    BY <1>1, <1>2, <1>3, <1>4

\* A claim locks pending rows that no other claim has locked.
LEMMA ClaimFree ==
  ASSUME TypeOK
  PROVE  /\ ClaimRows \subseteq Height
         /\ \A h \in ClaimRows : status[h] = "pending" /\ h \in Ready
         /\ \A v \in Worker : at[v] = "locking" => batch[v] \cap ClaimRows = {}
  <1>1. ClaimRows \subseteq Claimable(status, Ready) \ Locked
    BY DEF ClaimRows, Lowest
  <1> QED
    BY <1>1 DEF Claimable, WithStatus, Locked, TypeOK

-----------------------------------------------------------------------------
\* Types, and the places of workers.

LEMMA WorkerTypes ==
  ASSUME TypeOK, Places, Queue, NEW w \in Worker,
         WorkerStep(w) \/ ClaimError(w) \/ CommitUnseen(w) \/ FailJob(w) \/ MarkFailedLost(w)
  PROVE  TypeOK' /\ Places'
  <1> USE HeightType, RunnerAssumption
  <1> USE DEF TypeOK, Places, table, procs, monitors, disturbances, workers
  <1>1. CASE LockClaim(w)
    BY <1>1, ClaimFree DEF LockClaim, Running
  <1>2. CASE CommitClaim(w)
    <2>1. status' \in [Height -> JobStatus] /\ old' \subseteq WithStatus(status', "in_progress")
      BY ONLY TypeOK, <1>2, TableTypes, Marks DEF CommitClaim
    <2> QED
      BY <1>2, <2>1 DEF CommitClaim
  <1>3. CASE BeginJob(w)
    BY <1>3 DEF BeginJob
  <1>4. CASE CommitJob(w)
    <2>1. status' \in [Height -> JobStatus] /\ old' \subseteq WithStatus(status', "in_progress")
      BY ONLY TypeOK, <1>4, TableTypes, Marks DEF CommitJob, Finish
    <2> QED
      BY <1>4, <2>1 DEF CommitJob, NextJob
  <1>5. CASE MarkFailed(w)
    <2>1. status' \in [Height -> JobStatus] /\ old' \subseteq WithStatus(status', "in_progress")
      BY ONLY TypeOK, <1>5, TableTypes, Marks DEF MarkFailed, Finish
    <2> QED
      BY <1>5, <2>1 DEF MarkFailed, NextJob
  <1>6. CASE Leave(w)
    BY <1>6 DEF Leave
  <1>7. CASE ClaimError(w)
    <2>1. status' \in [Height -> JobStatus] /\ old' \subseteq WithStatus(status', "in_progress")
      <3>1. CASE UNCHANGED table
        BY <3>1
      <3>2. CASE status' = Mark(status, batch[w], "in_progress") /\ old' = old \ batch[w]
        BY ONLY TypeOK, <3>2, TableTypes, Marks
      <3> QED
        BY <1>7, <3>1, <3>2 DEF ClaimError
    <2> QED
      BY <1>7, <2>1 DEF ClaimError, Disturb, Running
  <1>8. CASE CommitUnseen(w)
    <2>1. status' \in [Height -> JobStatus] /\ old' \subseteq WithStatus(status', "in_progress")
      BY ONLY TypeOK, <1>8, TableTypes, Marks DEF CommitUnseen, Finish
    <2> QED
      BY <1>8, <2>1 DEF CommitUnseen, Disturb
  <1>9. CASE FailJob(w)
    BY <1>9 DEF FailJob
  <1>10. CASE MarkFailedLost(w)
    BY <1>10 DEF MarkFailedLost, Disturb, NextJob
  <1> QED
    BY <1>1, <1>2, <1>3, <1>4, <1>5, <1>6, <1>7, <1>8, <1>9, <1>10 DEF WorkerStep

\* MAX(height) is a height, or -1 of an empty table.
LEMMA LatestType ==
  ASSUME Queue
  PROVE  LatestJob(status) \in Height \cup {-1} /\ Rows(status) = 0..LatestJob(status)
  BY LatestOfRange, HeightType DEF Queue

LEMMA ProcessTypes ==
  ASSUME TypeOK, Places, Queue, NEW p \in Proc,
         \/ ProcessStep(p) \/ Start(p) \/ SetupFails(p) \/ MonitorError(p)
         \/ Signal(p) \/ Crash(p)
  PROVE  TypeOK' /\ Places'
  <1> USE HeightType, RunnerAssumption
  <1> USE DEF TypeOK, Places, table, procs, monitors, disturbances, workers
  <1>1. CASE Setup(p)
    BY <1>1, TableTypes DEF Setup, FirstMon
  <1>2. CASE ReadTip(p)
    BY <1>2, LatestType DEF ReadTip
  <1>3. CASE TopUp(p)
    BY <1>3, TableTypes DEF TopUp
  <1>4. CASE ReadProgress(p)
    BY <1>4 DEF ReadProgress, FirstMon
  <1>5. CASE Shutdown(p)
    BY <1>5 DEF Shutdown, FirstMon
  <1>6. CASE Exit(p)
    BY <1>6 DEF Exit, WorkersOf
  <1>7. CASE Terminate(p)
    BY <1>7 DEF Terminate
  <1>8. CASE Start(p)
    BY <1>8 DEF Start
  <1>9. CASE SetupFails(p)
    BY <1>9 DEF SetupFails, Disturb
  <1>10. CASE MonitorError(p)
    BY <1>10 DEF MonitorError, Disturb, FirstMon
  <1>11. CASE Signal(p)
    BY <1>11 DEF Signal, Disturb
  <1>12. CASE Crash(p)
    BY <1>12 DEF Crash, Disturb
  <1> QED
    BY <1>1, <1>2, <1>3, <1>4, <1>5, <1>6, <1>7, <1>8, <1>9, <1>10, <1>11, <1>12
    DEF ProcessStep, MonitorStep

LEMMA TypesStep ==
  ASSUME TypeOK, Places, Queue, [Next]_vars
  PROVE  TypeOK' /\ Places'
  <1> USE HeightType, RunnerAssumption
  <1> USE DEF TypeOK, Places, table, procs, monitors, disturbances, workers
  <1>1. ASSUME NEW h \in Height, GrowOld(h) PROVE TypeOK' /\ Places'
    BY <1>1 DEF GrowOld, Disturb, WithStatus
  <1>2. CASE NewBlock
    BY <1>2 DEF NewBlock, Height
  <1>3. CASE Requeue
    BY <1>3, TableTypes DEF Requeue, Disturb
  <1>4. CASE UNCHANGED vars
    BY <1>4 DEF vars
  <1> QED
    BY <1>1, <1>2, <1>3, <1>4, WorkerTypes, ProcessTypes DEF Next

-----------------------------------------------------------------------------
\* The range of rows: only a top-up adds any, and it adds the next ones.

LEMMA QueueKept ==
  ASSUME Queue, Rows(status') = Rows(status),
         \A p \in Proc : mon'[p] = "insert" =>
           mon[p] = "insert" /\ latest'[p] = latest[p] /\ cachedTip'[p] = cachedTip[p]
  PROVE  Queue'
  BY DEF Queue

LEMMA QueueReadTip ==
  ASSUME TypeOK, Queue, NEW p \in Proc, ReadTip(p)
  PROVE  Queue'
  <1>1. PICK n \in Height \cup {-1} :
          /\ Rows(status) = 0..n
          /\ \A q \in Proc : mon[q] = "insert" => latest[q] <= n /\ cachedTip[q] \in Height
    BY DEF Queue
  <1>2. LatestJob(status) = n
    BY <1>1, LatestOfRange, HeightType
  <1>3. PICK t \in {tip} \cup ({cachedTip[p]} \ {-1}) :
          /\ cachedTip' = [cachedTip EXCEPT ![p] = t]
          /\ latest' = [latest EXCEPT ![p] = n]
          /\ mon' = [mon EXCEPT ![p] = IF t <= n THEN "read" ELSE "insert"]
    BY <1>2 DEF ReadTip
  <1>4. t \in Height
    BY <1>3 DEF TypeOK
  <1>5. status' = status
    BY DEF ReadTip, table
  <1>6. \A q \in Proc : mon'[q] = "insert" => latest'[q] <= n /\ cachedTip'[q] \in Height
    BY <1>1, <1>3, <1>4, HeightType DEF TypeOK
  <1> QED
    BY <1>1, <1>5, <1>6 DEF Queue

LEMMA QueueTopUp ==
  ASSUME TypeOK, Queue, NEW p \in Proc, TopUp(p)
  PROVE  Queue'
  <1>1. PICK n \in Height \cup {-1} :
          /\ Rows(status) = 0..n
          /\ \A q \in Proc : mon[q] = "insert" => latest[q] <= n /\ cachedTip[q] \in Height
    BY DEF Queue
  <1>2. /\ latest[p] \in Height \cup {-1} /\ latest[p] <= n
        /\ cachedTip[p] \in Height
    <2>1. mon[p] = "insert"
      BY DEF TopUp
    <2> QED
      BY <1>1, <2>1 DEF TypeOK
  <1>12. n \in Int /\ -1 <= n /\ latest[p] \in Int /\ cachedTip[p] \in Nat
    <2>1. \A k \in Height \cup {-1} : k \in Int /\ -1 <= k
      BY HeightType
    <2>2. n \in Height \cup {-1}
      BY <1>1
    <2>3. cachedTip[p] \in Nat
      BY <1>2, HeightType
    <2> QED
      BY <1>2, <2>1, <2>2, <2>3
  <1> DEFINE m == IF n < cachedTip[p] THEN cachedTip[p] ELSE n
  <1>3. m \in Height \cup {-1} /\ n <= m
    BY <1>2, <1>12
  <1>4. \A h \in Height : status'[h] = IF h \in (latest[p] + 1)..cachedTip[p] /\ status[h] = "absent"
                                      THEN "pending" ELSE status[h]
    BY InsertStatus DEF TopUp
  <1>5. DOMAIN status = Height /\ DOMAIN status' = Height
    BY InsertStatus DEF TopUp, TypeOK
  <1>6. \A h \in Height : status[h] # "absent" <=> h \in 0..n
    BY <1>1, <1>5 DEF Rows
  <1>7. \A h \in Height : status'[h] # "absent" <=> h \in 0..m
    <2>1. SUFFICES ASSUME NEW h \in Height
                   PROVE  status'[h] # "absent" <=> h \in 0..m
      OBVIOUS
    <2>2. h \in Nat
      BY HeightType
    <2>3. status'[h] # "absent" <=> h \in 0..n \/ h \in (latest[p] + 1)..cachedTip[p]
      BY <1>4, <1>6
    <2> QED
      BY <1>2, <1>12, <2>2, <2>3
  <1>8. 0..m \subseteq Height
    BY <1>3, RunnerAssumption DEF Height
  <1>9. Rows(status') = 0..m
    BY <1>5, <1>7, <1>8 DEF Rows
  <1>10. \A q \in Proc : mon'[q] = "insert" => mon[q] = "insert"
    BY DEF TopUp, TypeOK
  <1>11. \A q \in Proc : mon'[q] = "insert" => latest'[q] <= m /\ cachedTip'[q] \in Height
    <2>1. UNCHANGED <<latest, cachedTip>>
      BY DEF TopUp
    <2>2. ASSUME NEW q \in Proc, mon'[q] = "insert"
          PROVE  latest[q] <= m /\ cachedTip[q] \in Height
      <3>1. latest[q] <= n /\ cachedTip[q] \in Height /\ latest[q] \in Int
        <4>1. \A k \in Height \cup {-1} : k \in Int
          BY HeightType
        <4>2. latest[q] \in Height \cup {-1} /\ mon[q] = "insert"
          BY <1>10, <2>2 DEF TypeOK
        <4> QED
          BY <1>1, <4>1, <4>2
      <3> QED
        BY <3>1, <1>12, <1>3
    <2> QED
      BY <2>1, <2>2
  <1> QED
    BY <1>3, <1>9, <1>11 DEF Queue

LEMMA QueueStep ==
  ASSUME TypeOK, Queue, [Next]_vars
  PROVE  Queue'
  <1> DEFINE SameRows == Rows(status') = Rows(status)
             SameMon == \A p \in Proc : mon'[p] = "insert" =>
               mon[p] = "insert" /\ latest'[p] = latest[p] /\ cachedTip'[p] = cachedTip[p]
  <1>1. ASSUME NEW w \in Worker,
               WorkerStep(w) \/ ClaimError(w) \/ CommitUnseen(w) \/ FailJob(w) \/ MarkFailedLost(w)
        PROVE  SameRows /\ SameMon
    <2>1. UNCHANGED monitors
      BY <1>1 DEF WorkerStep, LockClaim, CommitClaim, BeginJob, CommitJob, MarkFailed, Leave,
                  ClaimError, CommitUnseen, FailJob, MarkFailedLost
    <2>2. status' = status \/ \E H : \E s \in {"in_progress", "done", "failed"} : status' = Mark(status, H, s)
      BY <1>1 DEF WorkerStep, LockClaim, CommitClaim, BeginJob, CommitJob, MarkFailed, Leave, Finish,
                  ClaimError, CommitUnseen, FailJob, MarkFailedLost, table
    <2> QED
      BY <2>1, <2>2, MarkStatus, Marks DEF monitors
  <1>2. ASSUME NEW p \in Proc, Setup(p) PROVE SameRows /\ SameMon
    <2>1. SameRows
      BY <1>2, ResetStatus DEF Setup, table
    <2> QED
      BY <1>2, <2>1 DEF Setup, FirstMon, TypeOK
  <1>3. ASSUME NEW p \in Proc, ReadProgress(p) \/ Shutdown(p) \/ MonitorError(p)
        PROVE  SameRows /\ SameMon
    BY <1>3 DEF ReadProgress, Shutdown, MonitorError, FirstMon, TypeOK, table
  <1>4. ASSUME NEW p \in Proc,
               Exit(p) \/ Terminate(p) \/ Start(p) \/ SetupFails(p) \/ Signal(p) \/ Crash(p)
        PROVE  SameRows /\ SameMon
    BY <1>4 DEF Exit, Terminate, Start, SetupFails, Signal, Crash, table, monitors
  <1>5. ASSUME NEW h \in Height, GrowOld(h) PROVE SameRows /\ SameMon
    BY <1>5 DEF GrowOld, monitors
  <1>6. CASE NewBlock
    BY <1>6, QueueKept DEF NewBlock, table, monitors
  <1>7. CASE Requeue
    BY <1>7, RequeueStatus, QueueKept DEF Requeue, monitors
  <1>8. CASE UNCHANGED vars
    BY <1>8, QueueKept DEF vars, table, monitors
  <1> HIDE DEF SameRows, SameMon
  <1>9. SameRows /\ SameMon => Queue'
    BY QueueKept DEF SameRows, SameMon
  <1> QED
    BY <1>1, <1>2, <1>3, <1>4, <1>5, <1>6, <1>7, <1>8, <1>9, QueueReadTip, QueueTopUp
    DEF Next, ProcessStep, MonitorStep

-----------------------------------------------------------------------------
\* The rows a worker has, and the rows under its claim, are heights.
LEMMA HoldsType ==
  ASSUME TypeOK, Places, NEW w \in Worker
  PROVE  /\ batch[w] \subseteq Height /\ Holds(w) \subseteq Height
         /\ at[w] \notin {"busy", "erred"} => job[w] = NoJob
         /\ at[w] \in {"busy", "erred"} => job[w] \in Height /\ job[w] \in Holds(w)
         /\ at[w] \in {"off", "idle", "dead", "locking"} => Holds(w) = {}
  BY HeightType DEF TypeOK, Places, Holds

-----------------------------------------------------------------------------
\* Claims: nobody writes a row under a claim but the claim itself.

\* A step that takes no row, and leaves the rows under claims as they are.
LEMMA ClaimsKept ==
  ASSUME TypeOK, Places, Claims, WithStatus(status', "in_progress") \subseteq Ready,
         \A w \in Worker : at'[w] = "locking" => at[w] = "locking" /\ batch'[w] = batch[w],
         \A w \in Worker : at'[w] = "locking" =>
           \A h \in batch[w] : status[h] = "pending" => status'[h] = "pending"
  PROVE  Claims'
  BY DEF Claims

\* No statement but a claim puts a row in progress.
LEMMA OnlyClaims ==
  ASSUME TypeOK, Claims,
         \/ UNCHANGED status
         \/ \E w \in Worker : status' = Mark(status, batch[w], "in_progress")
                               /\ (at[w] = "locking" \/ batch[w] = {})
         \/ \E H : \E s \in {"done", "failed"} : status' = Mark(status, H, s)
         \/ status' = ResetAbandoned(status, old)
         \/ \E H : status' \in {RequeueRange(status, H), RequeueFeatures(status, H)}
         \/ \E m, t : status' = InsertJobs(status, m, t)
  PROVE  WithStatus(status', "in_progress") \subseteq Ready
  <1>0. WithStatus(status, "in_progress") = {h \in Height : status[h] = "in_progress"}
    BY DEF TypeOK, WithStatus
  <1>1. CASE UNCHANGED status
    BY <1>1 DEF Claims
  <1>2. ASSUME NEW w \in Worker, status' = Mark(status, batch[w], "in_progress"),
               at[w] = "locking" \/ batch[w] = {}
        PROVE  WithStatus(status', "in_progress") \subseteq Ready
    BY <1>0, <1>2, MarkStatus, Marks DEF Claims, WithStatus
  <1>3. ASSUME NEW H, NEW s \in {"done", "failed"}, status' = Mark(status, H, s)
        PROVE  WithStatus(status', "in_progress") \subseteq Ready
    BY <1>0, <1>3, MarkStatus, Marks DEF Claims, WithStatus
  <1>4. CASE status' = ResetAbandoned(status, old)
    BY <1>0, <1>4, ResetStatus DEF Claims, WithStatus
  <1>5. ASSUME NEW H, status' \in {RequeueRange(status, H), RequeueFeatures(status, H)}
        PROVE  WithStatus(status', "in_progress") \subseteq Ready
    <2>1. \A h \in Height : status'[h] \in {status[h], "pending"}
      BY <1>5, RequeueRangeColumn, RequeueFeaturesColumn DEF TypeOK, Columns
    <2>2. DOMAIN status' = Height
      BY <1>5, RequeueStatus
    <2> QED
      BY <1>0, <2>1, <2>2 DEF Claims, WithStatus
  <1>6. ASSUME NEW m, NEW t, status' = InsertJobs(status, m, t)
        PROVE  WithStatus(status', "in_progress") \subseteq Ready
    BY <1>0, <1>6, InsertStatus DEF Claims, WithStatus
  <1> QED
    BY <1>1, <1>2, <1>3, <1>4, <1>5, <1>6

LEMMA ClaimsWorker ==
  ASSUME TypeOK, Places, Claims, NEW w \in Worker,
         WorkerStep(w) \/ ClaimError(w) \/ CommitUnseen(w) \/ FailJob(w) \/ MarkFailedLost(w)
  PROVE  Claims'
  <1>1. CASE LockClaim(w)
    <2>1. /\ at' = [at EXCEPT ![w] = "locking"] /\ batch' = [batch EXCEPT ![w] = ClaimRows]
          /\ UNCHANGED status
      BY <1>1 DEF LockClaim, table
    <2> QED
      BY <2>1, ClaimFree DEF Claims, TypeOK
  <1>2. CASE CommitClaim(w) \/ ClaimError(w)
    <2>1. /\ at[w] = "locking" \/ batch[w] = {}
          /\ at'[w] # "locking"
          /\ \A v \in Worker \ {w} : at'[v] = at[v] /\ batch'[v] = batch[v]
          /\ UNCHANGED status \/ status' = Mark(status, batch[w], "in_progress")
      BY <1>2 DEF CommitClaim, ClaimError, table, TypeOK, Places
    <2>2. WithStatus(status', "in_progress") \subseteq Ready
      BY <2>1, OnlyClaims
    <2>3. \A v \in Worker : at'[v] = "locking" => at[v] = "locking" /\ batch'[v] = batch[v]
      BY <2>1
    <2>4. \A v \in Worker : at'[v] = "locking" =>
            \A h \in batch[v] : status[h] = "pending" => status'[h] = "pending"
      <3>1. \A v \in Worker : at'[v] = "locking" => batch[v] \cap batch[w] = {} /\ batch[v] \subseteq Height
        BY <2>1, <2>3, HoldsType DEF Claims
      <3> QED
        BY <2>1, <3>1, MarkStatus, Marks
    <2> QED
      BY <2>2, <2>3, <2>4, ClaimsKept
  <1>3. CASE CommitJob(w) \/ MarkFailed(w) \/ CommitUnseen(w)
    <2>1. PICK s \in {"done", "failed"} : status' = Mark(status, {job[w]}, s) /\ job[w] \notin Locked
      BY <1>3 DEF CommitJob, MarkFailed, CommitUnseen, Finish
    <2>2. /\ batch' = batch
          /\ \A v \in Worker : at'[v] = "locking" => at[v] = "locking"
      BY <1>3 DEF CommitJob, MarkFailed, CommitUnseen, NextJob, TypeOK
    <2>3. \A v \in Worker : at'[v] = "locking" =>
            \A h \in batch[v] : status[h] = "pending" => status'[h] = "pending"
      BY <2>1, <2>2, MarkStatus, Marks, HoldsType DEF Locked
    <2>4. WithStatus(status', "in_progress") \subseteq Ready
      BY <2>1, OnlyClaims
    <2> QED
      BY <2>2, <2>3, <2>4, ClaimsKept
  <1>4. CASE BeginJob(w) \/ FailJob(w) \/ MarkFailedLost(w) \/ Leave(w)
    <2>1. /\ UNCHANGED status
          /\ \A v \in Worker : at'[v] = "locking" => at[v] = "locking" /\ batch'[v] = batch[v]
      BY <1>4 DEF BeginJob, FailJob, MarkFailedLost, Leave, NextJob, table, TypeOK
    <2> QED
      BY <2>1, ClaimsKept, OnlyClaims
  <1> QED
    BY <1>1, <1>2, <1>3, <1>4 DEF WorkerStep

LEMMA ClaimsStep ==
  ASSUME TypeOK, Places, Claims, [Next]_vars
  PROVE  Claims'
  <1> DEFINE SameClaims ==
               \A w \in Worker : at'[w] = "locking" => at[w] = "locking" /\ batch'[w] = batch[w]
  <1>1. ASSUME NEW p \in Proc, Setup(p) PROVE Claims'
    <2>1. SameClaims /\ (UNCHANGED status \/ status' = ResetAbandoned(status, old))
      BY <1>1 DEF Setup, table, TypeOK
    <2>2. \A h \in Height : status[h] = "pending" => status'[h] = "pending"
      BY <2>1, ResetStatus
    <2> QED
      BY <2>1, <2>2, ClaimsKept, OnlyClaims, HoldsType
  <1>2. ASSUME NEW p \in Proc, TopUp(p) PROVE Claims'
    <2>1. SameClaims /\ status' = InsertJobs(status, latest[p], cachedTip[p])
      BY <1>2 DEF TopUp, workers
    <2>2. \A h \in Height : status[h] = "pending" => status'[h] = "pending"
      BY <2>1, InsertStatus
    <2> QED
      BY <2>1, <2>2, ClaimsKept, OnlyClaims, HoldsType
  <1>3. CASE Requeue
    <2>1. PICK H : status' \in {RequeueRange(status, H), RequeueFeatures(status, H)}
      BY <1>3 DEF Requeue
    <2>2. SameClaims
      BY <1>3 DEF Requeue, workers
    <2>3. \A h \in Height : status'[h] \in {status[h], "pending"}
      BY <2>1, RequeueRangeColumn, RequeueFeaturesColumn DEF TypeOK, Columns
    <2>4. WithStatus(status', "in_progress") \subseteq Ready
      BY ONLY TypeOK, Claims, <2>1, OnlyClaims
    <2> QED
      BY <2>2, <2>3, <2>4, ClaimsKept, HoldsType
  <1>4. CASE SameClaims /\ UNCHANGED status
    BY <1>4, ClaimsKept, OnlyClaims
  <1>5. ASSUME NEW p \in Proc,
               \/ ReadTip(p) \/ ReadProgress(p) \/ Shutdown(p) \/ Exit(p) \/ Terminate(p)
               \/ Start(p) \/ SetupFails(p) \/ MonitorError(p) \/ Signal(p) \/ Crash(p)
        PROVE  SameClaims /\ UNCHANGED status
    BY <1>5 DEF ReadTip, ReadProgress, Shutdown, Exit, Terminate, Start, SetupFails, MonitorError,
      Signal, Crash, table, workers, TypeOK
  <1>6. ASSUME NEW h \in Height, GrowOld(h) PROVE SameClaims /\ UNCHANGED status
    BY <1>6 DEF GrowOld, workers
  <1>7. CASE NewBlock \/ UNCHANGED vars
    BY <1>4, <1>7 DEF NewBlock, vars, table, workers
  <1> HIDE DEF SameClaims
  <1> QED
    BY <1>1, <1>2, <1>3, <1>4, <1>5, <1>6, <1>7, ClaimsWorker DEF Next, ProcessStep, MonitorStep

-----------------------------------------------------------------------------
\* Leases.

\* A step that takes no row and touches no row keeps the leases.
LEMMA LeasesRelease ==
  ASSUME Leases, UNCHANGED status, old' \subseteq old, seen \subseteq seen',
         \A w \in Worker :
           /\ Holds(w)' \subseteq Holds(w)
           /\ at'[w] = "locking" => at[w] = "locking" /\ batch'[w] = batch[w]
           /\ at[w] = "erred" /\ job[w] \in Holds(w)' => at'[w] = "erred" /\ job'[w] = job[w]
  PROVE  Leases'
  BY DEF Leases, HeldRow

LEMMA LeasesLockClaim ==
  ASSUME TypeOK, Places, Leases, NEW w \in Worker, LockClaim(w)
  PROVE  Leases'
  <1>1. /\ at' = [at EXCEPT ![w] = "locking"] /\ batch' = [batch EXCEPT ![w] = ClaimRows]
        /\ at[w] = "idle" /\ UNCHANGED <<status, old, job, seen>>
    BY DEF LockClaim, table, disturbances
  <1>2. \A v \in Worker : Holds(v)' = Holds(v)
    BY <1>1, HoldsType DEF Holds, TypeOK
  <1>3. \A v \in Worker : \A h \in Holds(v)' : HeldRow(v, h)'
    BY <1>1, <1>2, HoldsType DEF Leases, HeldRow, TypeOK
  <1> QED
    BY <1>1, <1>2, <1>3 DEF Leases

\* Marking the rows under the claim of w, whatever becomes of w, takes no row
\* of another worker.
LEMMA LeasesMarkClaim ==
  ASSUME TypeOK, Places, Claims, Leases, NEW w \in Worker, at[w] = "locking",
         status' = Mark(status, batch[w], "in_progress"), old' = old \ batch[w],
         seen \subseteq seen', job' = job,
         \A v \in Worker \ {w} : at'[v] = at[v] /\ batch'[v] = batch[v],
         at'[w] # "locking", Holds(w)' \subseteq batch[w]
  PROVE  Leases'
  <1>1. \A h \in Height : status'[h] = IF h \in batch[w] THEN "in_progress" ELSE status[h]
    BY MarkStatus, Marks DEF Claims
  <1>2. batch[w] \subseteq Height /\ \A h \in batch[w] : status[h] = "pending"
    BY HoldsType DEF Claims
  <1>4. \A v \in Worker \ {w} : Holds(v)' = Holds(v) /\ Holds(v) \cap batch[w] = {}
    BY <1>2 DEF Leases, HeldRow, Holds
  <1>5. \A h \in Holds(w)' : HeldRow(w, h)' /\ h \notin old'
    BY <1>1, <1>2 DEF HeldRow
  <1>6. \A v \in Worker \ {w} : \A h \in Holds(v)' : HeldRow(v, h)' /\ h \notin old'
    BY <1>1, <1>4, HoldsType DEF Leases, HeldRow
  <1>7. \A v, u \in Worker : v # u => Holds(v)' \cap Holds(u)' = {}
    BY <1>4 DEF Leases
  <1> QED
    BY <1>5, <1>6, <1>7 DEF Leases

LEMMA LeasesClaim ==
  ASSUME TypeOK, Places, Claims, Leases, NEW w \in Worker, CommitClaim(w) \/ ClaimError(w)
  PROVE  Leases'
  <1>1. CASE CommitClaim(w)
    <2>1. at' = [at EXCEPT ![w] = "holding"] /\ UNCHANGED <<batch, job, seen>> /\ at[w] = "locking"
      BY <1>1 DEF CommitClaim, disturbances
    <2>2. Holds(w)' \subseteq batch[w]
      BY <2>1, HoldsType DEF Holds
    <2> QED
      BY <1>1, <2>1, <2>2, LeasesMarkClaim DEF CommitClaim, TypeOK
  <1>2. CASE ClaimError(w)
    <2>1. /\ at' = [at EXCEPT ![w] = "dead"] /\ batch' = [batch EXCEPT ![w] = {}]
          /\ job' = job /\ seen \subseteq seen' /\ at[w] \in {"idle", "locking"}
      BY <1>2 DEF ClaimError, Disturb
    <2>2. at'[w] = "dead" /\ Holds(w)' = {}
      BY <2>1, HoldsType DEF Holds, TypeOK
    <2>3. \A v \in Worker \ {w} : at'[v] = at[v] /\ batch'[v] = batch[v] /\ Holds(v)' = Holds(v)
      BY <2>1 DEF Holds, TypeOK
    <2>4. CASE UNCHANGED <<status, old>>
      BY <2>1, <2>2, <2>3, <2>4, LeasesRelease
    <2>5. CASE /\ status' = Mark(status, batch[w], "in_progress") /\ old' = old \ batch[w]
               /\ at[w] = "locking"
      BY <2>1, <2>2, <2>3, <2>5, LeasesMarkClaim
    <2>6. CASE /\ status' = Mark(status, batch[w], "in_progress") /\ old' = old \ batch[w]
               /\ at[w] = "idle"
      <3>1. batch[w] = {}
        BY <2>6 DEF Places
      <3>2. \A h \in Height : status'[h] = status[h]
        BY <2>6, <3>1, MarkStatus, Marks
      <3>3. status' = status
        BY <2>6, <3>2, MarkStatus, Marks DEF TypeOK
      <3> QED
        BY <2>1, <2>2, <2>3, <2>6, <3>1, <3>3, LeasesRelease
    <2> QED
      BY <1>2, <2>1, <2>4, <2>5, <2>6 DEF ClaimError, table
  <1> QED
    BY <1>1, <1>2

\* Writing the status of the row w processes, which leaves w or stays with it
\* as a commit it has not seen.
LEMMA LeasesFinish ==
  ASSUME TypeOK, Places, Leases, NEW w \in Worker, at[w] \in {"busy", "erred"},
         NEW s \in {"done", "failed"}, Finish(w, s), batch' = batch,
         seen \subseteq seen', \A v \in Worker \ {w} : at'[v] = at[v] /\ job'[v] = job[v],
         \/ at'[w] # "locking" /\ job'[w] = NoJob
         \/ at'[w] = "erred" /\ job'[w] = job[w] /\ s = "done" /\ "lost_ack" \in seen'
  PROVE  Leases'
  <1>1. job[w] \in Height /\ job[w] \in Holds(w) /\ at'[w] # "locking"
    BY HoldsType
  <1>2. status[job[w]] \in {"in_progress", "done"}
    BY <1>1 DEF Leases, HeldRow
  <1>3. /\ \A h \in Height : status'[h] = IF h = job[w] THEN s ELSE status[h]
        /\ old' = old \ {job[w]}
    BY <1>1, <1>2, MarkStatus, Marks DEF Finish
  <1>5. \A v \in Worker \ {w} : Holds(v)' = Holds(v) /\ job[w] \notin Holds(v)
    BY <1>1 DEF Leases, Holds
  <1>6. \A v \in Worker \ {w} : \A h \in Holds(v)' : HeldRow(v, h)' /\ h \notin old'
    BY <1>3, <1>5, HoldsType DEF Leases, HeldRow
  <1>7. Holds(w)' \subseteq Holds(w)
    BY DEF Holds
  <1>8. \A h \in Holds(w)' : h # job[w] => h \in Holds(w) /\ status'[h] = "in_progress" /\ h \notin old'
    BY <1>3, <1>7, HoldsType DEF Leases, HeldRow
  <1>9. \A h \in Holds(w)' : HeldRow(w, h)' /\ h \notin old'
    <2>1. CASE job'[w] = NoJob
      <3>1. job[w] \notin Holds(w)'
        BY <2>1, <1>1, HeightType DEF Holds, Places
      <3> QED
        BY <1>8, <3>1 DEF HeldRow
    <2>2. CASE at'[w] = "erred" /\ job'[w] = job[w] /\ s = "done" /\ "lost_ack" \in seen'
      BY <1>1, <1>3, <1>8, <2>2 DEF HeldRow
    <2> QED
      BY <2>1, <2>2
  <1>10. \A v, u \in Worker : v # u => Holds(v)' \cap Holds(u)' = {}
    BY <1>5, <1>7 DEF Leases
  <1> QED
    BY <1>6, <1>9, <1>10 DEF Leases

LEMMA LeasesWorker ==
  ASSUME TypeOK, Places, Claims, Leases, NEW w \in Worker,
         WorkerStep(w) \/ ClaimError(w) \/ CommitUnseen(w) \/ FailJob(w) \/ MarkFailedLost(w)
  PROVE  Leases'
  <1>1. CASE BeginJob(w)
    <2>1. PICK h \in batch[w] : /\ job' = [job EXCEPT ![w] = h]
                                /\ batch' = [batch EXCEPT ![w] = @ \ {h}]
      BY <1>1 DEF BeginJob
    <2>2. /\ at[w] = "holding" /\ at' = [at EXCEPT ![w] = "busy"]
          /\ UNCHANGED <<status, old, seen>> /\ job[w] = NoJob
      BY <1>1, HoldsType DEF BeginJob, table, disturbances
    <2>3. \A v \in Worker : Holds(v)' = Holds(v)
      BY <2>1, <2>2, HoldsType, HeightType DEF Holds, TypeOK
    <2> QED
      BY <2>1, <2>2, <2>3, LeasesRelease DEF TypeOK
  <1>2. CASE CommitJob(w) \/ MarkFailed(w)
    <2>1. PICK s \in {"done", "failed"} :
            at[w] \in {"busy", "erred"} /\ Finish(w, s) /\ NextJob(w) /\ UNCHANGED <<batch, seen>>
      BY <1>2 DEF CommitJob, MarkFailed, disturbances
    <2>2. at'[w] # "locking" /\ job'[w] = NoJob
      BY <2>1 DEF NextJob, TypeOK
    <2>3. \A v \in Worker \ {w} : at'[v] = at[v] /\ job'[v] = job[v]
      BY <2>1 DEF NextJob, TypeOK
    <2> QED
      BY <2>1, <2>2, <2>3, LeasesFinish
  <1>3. CASE CommitUnseen(w)
    <2>1. /\ at[w] = "busy" /\ Finish(w, "done") /\ at' = [at EXCEPT ![w] = "erred"]
          /\ UNCHANGED <<batch, job>> /\ seen \subseteq seen' /\ "lost_ack" \in seen'
      BY <1>3 DEF CommitUnseen, Disturb
    <2> QED
      BY <2>1, LeasesFinish DEF TypeOK
  <1>4. CASE FailJob(w)
    <2>1. /\ at[w] = "busy" /\ at' = [at EXCEPT ![w] = "erred"]
          /\ UNCHANGED <<status, old, batch, job, seen>>
      BY <1>4 DEF FailJob, table, disturbances
    <2>2. \A v \in Worker : Holds(v)' = Holds(v)
      BY <2>1 DEF Holds, TypeOK
    <2> QED
      BY <2>1, <2>2, LeasesRelease DEF TypeOK
  <1>5. CASE MarkFailedLost(w)
    <2>1. /\ at[w] = "erred" /\ NextJob(w) /\ UNCHANGED <<status, old, batch>> /\ seen \subseteq seen'
      BY <1>5 DEF MarkFailedLost, Disturb, table
    <2>2. /\ \A v \in Worker : Holds(v)' \subseteq Holds(v)
          /\ job[w] \notin Holds(w)'
      BY <2>1, HeightType DEF Holds, NextJob, TypeOK, Places
    <2> QED
      BY <2>1, <2>2, LeasesRelease DEF NextJob, TypeOK
  <1>6. CASE Leave(w)
    <2>1. /\ at' = [at EXCEPT ![w] = "off"] /\ batch' = [batch EXCEPT ![w] = {}]
          /\ job' = [job EXCEPT ![w] = NoJob] /\ UNCHANGED <<status, old, seen>>
      BY <1>6 DEF Leave, table, disturbances
    <2>2. Holds(w)' = {} /\ \A v \in Worker \ {w} : Holds(v)' = Holds(v)
      BY <2>1 DEF Holds, TypeOK
    <2> QED
      BY <2>1, <2>2, LeasesRelease DEF TypeOK
  <1> QED
    BY <1>1, <1>2, <1>3, <1>4, <1>5, <1>6, LeasesLockClaim, LeasesClaim DEF WorkerStep

LEMMA LeasesProcess ==
  ASSUME TypeOK, Places, Leases, NEW p \in Proc,
         \/ ProcessStep(p) \/ Start(p) \/ SetupFails(p) \/ MonitorError(p)
         \/ Signal(p) \/ Crash(p)
  PROVE  Leases'
  <1>1. CASE Setup(p)
    <2>1. /\ at' = [w \in Worker |-> IF ProcOf[w] = p THEN "idle" ELSE at[w]]
          /\ UNCHANGED <<batch, job, seen>>
          /\ \A w \in Worker : ProcOf[w] = p => at[w] = "off"
      BY <1>1 DEF Setup, disturbances, Places
    <2>2. \A w \in Worker : Holds(w)' = Holds(w) /\ (at'[w] = "locking" <=> at[w] = "locking")
      BY <2>1 DEF Holds
    <2>3. CASE UNCHANGED table
      BY <2>1, <2>2, <2>3, HoldsType, LeasesRelease DEF table
    <2>4. CASE status' = ResetAbandoned(status, old) /\ old' = {}
      <3>1. \A h \in Height : status[h] # "in_progress" \/ h \notin old => status'[h] = status[h]
        BY <2>4, ResetStatus DEF TypeOK, WithStatus
      <3>2. \A w \in Worker : \A h \in Holds(w)' : HeldRow(w, h)' /\ h \notin old'
        BY <2>1, <2>2, <2>4, <3>1, HoldsType DEF Leases, HeldRow
      <3> QED
        BY <2>2, <3>2 DEF Leases
    <2> QED
      BY <1>1, <2>3, <2>4 DEF Setup
  <1>2. CASE TopUp(p)
    <2>1. UNCHANGED <<old, at, batch, job, seen>>
      BY <1>2 DEF TopUp, workers, disturbances
    <2>2. \A h \in Height : status[h] # "absent" => status'[h] = status[h]
      BY <1>2, InsertStatus DEF TopUp
    <2>4. \A w \in Worker : Holds(w)' = Holds(w)
      BY <2>1 DEF Holds
    <2>5. \A w \in Worker : \A h \in Holds(w)' : HeldRow(w, h)' /\ h \notin old'
      BY <2>1, <2>2, <2>4, HoldsType DEF Leases, HeldRow
    <2> QED
      BY <2>4, <2>5 DEF Leases
  <1>3. CASE Crash(p)
    <2>1. /\ at' = [w \in Worker |-> IF ProcOf[w] = p THEN "off" ELSE at[w]]
          /\ batch' = [w \in Worker |-> IF ProcOf[w] = p THEN {} ELSE batch[w]]
          /\ job' = [w \in Worker |-> IF ProcOf[w] = p THEN NoJob ELSE job[w]]
          /\ UNCHANGED <<status, old>> /\ seen \subseteq seen'
      BY <1>3 DEF Crash, Disturb, table
    <2>2. \A w \in Worker : Holds(w)' = IF ProcOf[w] = p THEN {} ELSE Holds(w)
      BY <2>1 DEF Holds
    <2> QED
      BY <2>1, <2>2, LeasesRelease
  <1>4. CASE UNCHANGED <<status, old, at, batch, job>> /\ seen \subseteq seen'
    <2>1. \A w \in Worker : Holds(w)' = Holds(w)
      BY <1>4 DEF Holds
    <2> QED
      BY <1>4, <2>1, LeasesRelease
  <1> QED
    BY <1>1, <1>2, <1>3, <1>4
    DEF ProcessStep, MonitorStep, ReadTip, ReadProgress, Shutdown, Exit, Terminate, Start, SetupFails,
        MonitorError, Signal, Disturb, table, workers, disturbances

LEMMA LeasesStep ==
  ASSUME TypeOK, Places, Claims, LeaseKept => Leases, [Next]_vars, LeaseKept'
  PROVE  Leases'
  <1>1. LeaseKept /\ Leases
    BY SeenGrows DEF LeaseKept
  <1>2. ASSUME NEW h \in Height, GrowOld(h) PROVE Leases'
    <2>1. UNCHANGED <<status, at, batch, job>>
      BY <1>2 DEF GrowOld, workers
    <2>2. \A w \in Alive : h \notin Holds(w)
      BY <1>2 DEF GrowOld, Disturb, LeaseKept
    <2>3. \A w \in Worker : h \notin Holds(w)
      BY <2>2, HoldsType DEF Alive
    <2>4. \A w \in Worker : Holds(w)' = Holds(w)
      BY <2>1 DEF Holds
    <2>5. old' = old \cup {h} /\ seen \subseteq seen'
      BY <1>2 DEF GrowOld, Disturb, disturbances
    <2> QED
      BY <1>1, <2>1, <2>3, <2>4, <2>5 DEF Leases, HeldRow
  <1>3. CASE Requeue
    <2>1. PICK H \in SUBSET Height :
            /\ status' = RequeueRange(status, H)
            /\ "requeue" \in seen' /\ seen \subseteq seen'
            /\ old' \subseteq old /\ UNCHANGED <<at, batch, job>>
      BY <1>3 DEF Requeue, Disturb, LeaseKept, workers
    <2>2. "lost_ack" \notin seen
      BY <2>1 DEF LeaseKept
    <2>3. \A h \in Height : status[h] \in {"pending", "in_progress"} => status'[h] = status[h]
      BY <2>1, RequeueStatus DEF Terminal
    <2>4. \A w \in Worker : Holds(w)' = Holds(w)
      BY <2>1 DEF Holds
    <2>6. \A w \in Worker : \A h \in Holds(w)' : HeldRow(w, h)' /\ h \notin old'
      BY <1>1, <2>1, <2>2, <2>3, <2>4, HoldsType DEF Leases, HeldRow
    <2> QED
      BY <1>1, <2>4, <2>6 DEF Leases
  <1>4. CASE NewBlock \/ UNCHANGED vars
    <2>1. UNCHANGED <<status, old, at, batch, job, seen>>
      BY <1>4 DEF NewBlock, vars, table, workers, disturbances
    <2>2. \A w \in Worker : Holds(w)' = Holds(w)
      BY <2>1 DEF Holds
    <2> QED
      BY <1>1, <2>1, <2>2, LeasesRelease
  <1> QED
    BY <1>1, <1>2, <1>3, <1>4, LeasesWorker, LeasesProcess DEF Next

-----------------------------------------------------------------------------
LEMMA InitIInv == Init => IInv
  BY InitTypes, InitQueue, InitLeases DEF IInv

LEMMA NextIInv == IInv /\ [Next]_vars => IInv'
  <1> SUFFICES ASSUME IInv, [Next]_vars PROVE IInv'
    OBVIOUS
  <1>1. TypeOK' /\ Places' /\ Queue' /\ Claims'
    BY TypesStep, QueueStep, ClaimsStep DEF IInv
  <1>2. LeaseKept' => Leases'
    BY LeasesStep DEF IInv
  <1> QED
    BY <1>1, <1>2 DEF IInv

\* The inductive invariant of the phase runner: types, the range of rows, and
\* the leases as long as nothing breaks them (runner.py:45-213, jobs.py).
THEOREM Invariance == Spec => []IInv
  BY InitIInv, NextIInv, PTL DEF Spec

\* The variables of the phase runner keep their types.
THEOREM TypeCorrect == Spec => []TypeOK
  BY Invariance, PTL DEF IInv

\* block_jobs never has a hole: top_up_jobs (jobs.py:132-141) inserts a range
\* of heights above an old maximum, and other top-ups only raise it.
THEOREM NoHoles == Spec => []ContiguousJobs
  <1>1. IInv => ContiguousJobs
    BY LatestType DEF IInv, ContiguousJobs
  <1> QED
    BY <1>1, Invariance, PTL

\* No two workers, in any number of processes and commands, hold one height
\* (jobs.py:3-5), unless a job outlives stale_minutes or is requeued meanwhile.
THEOREM OneWorkerPerHeight == Spec => []ExclusiveJobs
  <1>1. IInv => ExclusiveJobs
    BY DEF IInv, Leases, ExclusiveJobs
  <1> QED
    BY <1>1, Invariance, PTL

\* Under the same condition what a worker holds is in progress in the queue.
THEOREM HeldIsInProgress == Spec => []HeldRowsInProgress
  <1>1. IInv => HeldRowsInProgress
    BY DEF IInv, Leases, HeldRow, HeldRowsInProgress
  <1> QED
    BY <1>1, Invariance, PTL

-----------------------------------------------------------------------------
\* What a step may do to a job that is done.
KeepsDone ==
  \A h \in WithStatus(status, "done") :
    \/ status'[h] = "done"
    \/ status'[h] = "pending" /\ faults' # faults
    \/ status'[h] = "failed" /\ \E w \in Worker : at[w] = "erred" /\ job[w] = h

LEMMA NextKeepsDone ==
  ASSUME IInv, Next, LeaseKept
  PROVE  KeepsDone
  <1> USE DEF KeepsDone
  <1>1. WithStatus(status, "done") = {h \in Height : status[h] = "done"}
    BY DEF WithStatus, IInv, TypeOK
  <1>2. CASE UNCHANGED status
    BY <1>1, <1>2
  <1>3. ASSUME NEW w \in Worker, CommitClaim(w) \/ ClaimError(w) PROVE KeepsDone
    <2>1. \A h \in batch[w] : status[h] = "pending"
      BY <1>3 DEF IInv, Claims, Places, CommitClaim, ClaimError
    <2>2. status' = status \/ status' = Mark(status, batch[w], "in_progress")
      BY <1>3 DEF CommitClaim, ClaimError, table
    <2> QED
      BY <1>1, <2>1, <2>2, MarkStatus, Marks DEF IInv
  <1>4. ASSUME NEW w \in Worker, CommitJob(w) \/ CommitUnseen(w) PROVE KeepsDone
    BY <1>1, <1>4, MarkStatus, Marks DEF CommitJob, CommitUnseen, Finish, IInv
  <1>5. ASSUME NEW w \in Worker, MarkFailed(w) PROVE KeepsDone
    BY <1>1, <1>5, MarkStatus, Marks DEF MarkFailed, Finish, IInv
  <1>6. ASSUME NEW p \in Proc, Setup(p) PROVE KeepsDone
    <2>1. \A h \in Height : status[h] = "done" => h \notin old
      BY DEF IInv, TypeOK, WithStatus
    <2>2. status' = status \/ status' = ResetAbandoned(status, old)
      BY <1>6 DEF Setup, table
    <2> QED
      BY <1>1, <2>1, <2>2, ResetStatus DEF IInv
  <1>7. ASSUME NEW p \in Proc, TopUp(p) PROVE KeepsDone
    BY <1>1, <1>7, InsertStatus DEF TopUp, IInv
  <1>8. CASE Requeue
    <2>1. faults' # faults
      BY <1>8 DEF Requeue, Disturb, IInv, TypeOK
    <2>2. PICK H : status' = RequeueRange(status, H) \/ status' = RequeueFeatures(status, H)
      BY <1>8 DEF Requeue
    <2>3. \A h \in Height : status'[h] \in {status[h], "pending"}
      BY <2>2, RequeueRangeColumn, RequeueFeaturesColumn DEF IInv, TypeOK, Columns
    <2> QED
      BY <1>1, <2>1, <2>3
  <1> QED
    BY <1>2, <1>3, <1>4, <1>5, <1>6, <1>7, <1>8
    DEF Next, WorkerStep, ProcessStep, MonitorStep, LockClaim, BeginJob, FailJob, MarkFailedLost, Leave,
        ReadTip, ReadProgress, Shutdown, Exit, Terminate, Start, SetupFails, MonitorError,
        Signal, Crash, GrowOld, NewBlock, table

\* While leases are kept a done job is only requeued, or marked failed by the
\* worker that did not see its own commit (jobs.py:71-94 asks no status).
THEOREM DoneStays == Spec => DoneIsFinal
  <1>1. IInv /\ [Next]_vars => [LeaseKept => KeepsDone]_vars
    BY NextKeepsDone
  <1> QED
    BY <1>1, Invariance, PTL DEF Spec, DoneIsFinal, KeepsDone

-----------------------------------------------------------------------------
\* What a monitor decides.

LEMMA InitQuiet == Init => QuietInv
  <1> SUFFICES ASSUME Init PROVE QuietInv
    OBVIOUS
  <1>1. WithStatus(status, "in_progress") = {} /\ seen = {}
    BY DEF Init, WithStatus
  <1>2. \A p \in Proc : mon[p] = FirstMon(p) /\ run[p] = "off" /\ ~stop[p]
    BY DEF Init
  <1> QED
    BY <1>1, <1>2 DEF QuietInv, TopUps, Decided, Undisturbed, FirstMon

LEMMA FirstMonIsNoInsert ==
  ASSUME NEW p \in Proc
  PROVE  FirstMon(p) \in {"topup", "read"} /\ (~HasTopUp => FirstMon(p) = "read")
  BY DEF FirstMon

LEMMA TopUpsStep ==
  ASSUME TypeOK, TopUps, [Next]_vars
  PROVE  TopUps'
  <1> SUFFICES ASSUME ~HasTopUp PROVE \A q \in Proc : mon'[q] \notin {"topup", "insert"}
    BY DEF TopUps
  <1>0. \A q \in Proc : mon[q] \notin {"topup", "insert"}
    BY DEF TopUps
  <1>1. ASSUME NEW p \in Proc, \E v \in {FirstMon(p), "finish"} : mon' = [mon EXCEPT ![p] = v]
        PROVE  \A q \in Proc : mon'[q] \notin {"topup", "insert"}
    BY <1>0, <1>1, FirstMonIsNoInsert DEF TypeOK
  <1>2. CASE UNCHANGED mon
    BY <1>0, <1>2
  <1>3. \A p \in Proc : ~ReadTip(p) /\ ~TopUp(p)
    BY <1>0 DEF ReadTip, TopUp
  <1>4. ASSUME NEW p \in Proc, Setup(p) \/ ReadProgress(p) \/ MonitorError(p) \/ Shutdown(p)
        PROVE  \E v \in {FirstMon(p), "finish"} : mon' = [mon EXCEPT ![p] = v]
    BY <1>4 DEF Setup, ReadProgress, MonitorError, Shutdown
  <1>5. (\E p \in Proc : Setup(p) \/ ReadProgress(p) \/ MonitorError(p) \/ Shutdown(p))
          \/ UNCHANGED mon
    BY <1>3 DEF Next, vars, WorkerStep, ProcessStep, MonitorStep, LockClaim, CommitClaim, BeginJob,
      CommitJob, MarkFailed, Leave, ClaimError, CommitUnseen, FailJob, MarkFailedLost, Exit,
      Terminate, Start, SetupFails, Signal, Crash, GrowOld, NewBlock, Requeue, monitors
  <1> QED
    BY <1>1, <1>2, <1>4, <1>5

\* Nothing but a top-up or a requeue adds work to a finished phase.
LEMMA FinishedStays ==
  ASSUME TypeOK, Places, Claims, [Next]_vars, Finished,
         \A p \in Proc : ~TopUp(p), seen' \cap {"requeue", "requeue_features"} = {}
  PROVE  Finished'
  <1> USE DEF Finished
  <1>0. Ready \subseteq Height
    BY RunnerAssumption
  <1>1. CASE UNCHANGED status
    BY <1>1
  <1>2. ASSUME NEW w \in Worker, CommitClaim(w) \/ ClaimError(w) PROVE Finished'
    <2>1. batch[w] = {}
      BY <1>2 DEF CommitClaim, ClaimError, Claims, Places
    <2>2. status' = status \/ status' = Mark(status, batch[w], "in_progress")
      BY <1>2 DEF CommitClaim, ClaimError, table
    <2> QED
      BY <1>0, <2>1, <2>2, MarkStatus, Marks
  <1>3. ASSUME NEW w \in Worker, CommitJob(w) \/ CommitUnseen(w) \/ MarkFailed(w)
        PROVE  Finished'
    <2>1. PICK s \in {"done", "failed"} : status' = Mark(status, {job[w]}, s)
      BY <1>3 DEF CommitJob, CommitUnseen, MarkFailed, Finish
    <2> QED
      BY <1>0, <2>1, MarkStatus, Marks
  <1>4. ASSUME NEW p \in Proc, Setup(p) PROVE Finished'
    <2>1. \A h \in old : status[h] = "in_progress"
      BY DEF TypeOK, WithStatus
    <2>2. status' = status \/ status' = ResetAbandoned(status, old)
      BY <1>4 DEF Setup, table
    <2> QED
      BY <1>0, <2>1, <2>2, ResetStatus
  <1>5. ~Requeue
    BY DEF Requeue, Disturb
  <1> QED
    BY <1>1, <1>2, <1>3, <1>4, <1>5
    DEF Next, WorkerStep, ProcessStep, MonitorStep, LockClaim, BeginJob, FailJob, MarkFailedLost, Leave,
        ReadTip, ReadProgress, Shutdown, Exit, Terminate, Start, SetupFails, MonitorError,
        Signal, Crash, GrowOld, NewBlock, table, vars

\* The one monitor that tops up does not do so once it has decided.
LEMMA NoTopUpElsewhere ==
  ASSUME TopUps, SoleTopUp, NEW p \in Proc, mon[p] # "insert" \/ ~Monitoring(p)
  PROVE  \A q \in Proc : ~TopUp(q)
  BY DEF TopUps, SoleTopUp, TopUp

LEMMA DecidedStep ==
  ASSUME SoleTopUp, TypeOK, Places, Claims, TopUps, Decided, [Next]_vars
  PROVE  Decided'
  <1> SUFFICES ASSUME seen' \cap {"requeue", "requeue_features"} = {},
                      NEW p \in Proc, mon'[p] = "finish"
               PROVE  Finished'
    BY DEF Decided
  <1>1. CASE mon[p] = "finish"
    <2>1. Finished
      BY <1>1, SeenGrows DEF Decided
    <2> QED
      BY <1>1, <2>1, NoTopUpElsewhere, FinishedStays
  <1>2. CASE mon[p] # "finish"
    <2>1. ASSUME NEW q \in Proc, Setup(q) \/ MonitorError(q) \/ Shutdown(q) PROVE FALSE
      <3>1. mon' = [mon EXCEPT ![q] = FirstMon(q)]
        BY <2>1 DEF Setup, MonitorError, Shutdown
      <3> QED
        BY <1>2, <3>1, FirstMonIsNoInsert DEF TypeOK
    <2>2. ASSUME NEW q \in Proc, ReadTip(q) \/ TopUp(q) PROVE FALSE
      BY <1>2, <2>2 DEF ReadTip, TopUp, TypeOK
    <2>3. ASSUME NEW q \in Proc, ReadProgress(q) PROVE Finished'
      <3>1. p = q
        BY <1>2, <2>3 DEF ReadProgress, TypeOK
      <3>2. PhaseFinished(status, Ready)
        BY <2>3, <3>1, FirstMonIsNoInsert DEF ReadProgress, TypeOK
      <3>3. status' = status
        BY <2>3 DEF ReadProgress, table
      <3> QED
        BY <3>2, <3>3 DEF PhaseFinished, Finished
    <2>4. mon' = mon \/ \E q \in Proc : \/ Setup(q) \/ MonitorError(q) \/ Shutdown(q)
                                       \/ ReadTip(q) \/ TopUp(q) \/ ReadProgress(q)
      BY DEF Next, vars, WorkerStep, ProcessStep, MonitorStep, LockClaim, CommitClaim, BeginJob,
        CommitJob, MarkFailed, Leave, ClaimError, CommitUnseen, FailJob, MarkFailedLost, Exit,
        Terminate, Start, SetupFails, Signal, Crash, GrowOld, NewBlock, Requeue, monitors
    <2> QED
      BY <1>2, <2>1, <2>2, <2>3, <2>4
  <1> QED
    BY <1>1, <1>2

\* The steps of a behaviour nothing has disturbed.
Regular ==
  \/ \E w \in Worker : WorkerStep(w) \/ FailJob(w)
  \/ \E p \in Proc : ProcessStep(p) \/ Start(p)
  \/ (\E h \in Height : GrowOld(h)) /\ UNCHANGED disturbances
  \/ NewBlock
  \/ UNCHANGED vars

LEMMA RegularSteps ==
  ASSUME TypeOK, [Next]_vars, faults' = 0
  PROVE  faults = 0 /\ Regular /\ seen' = seen
  <1>1. \A k \in FaultKinds : ~Disturb(k)
    BY DEF Disturb, TypeOK
  <1>2. /\ \A w \in Worker : ~ClaimError(w) /\ ~CommitUnseen(w) /\ ~MarkFailedLost(w)
        /\ \A p \in Proc : ~SetupFails(p) /\ ~MonitorError(p) /\ ~Signal(p) /\ ~Crash(p)
        /\ \A h \in Height : GrowOld(h) => UNCHANGED disturbances
        /\ ~Requeue
    BY <1>1 DEF FaultKinds, ClaimError, CommitUnseen, MarkFailedLost, SetupFails, MonitorError,
      Signal, Crash, GrowOld, Requeue
  <1>3. Regular
    BY <1>2 DEF Next, Regular
  <1>4. UNCHANGED disturbances
    BY <1>3 DEF Regular, vars, WorkerStep, ProcessStep, MonitorStep, LockClaim, CommitClaim, BeginJob,
      CommitJob, MarkFailed, Leave, FailJob, Setup, ReadTip, TopUp, ReadProgress, Shutdown, Exit,
      Terminate, Start, NewBlock
  <1> QED
    BY <1>3, <1>4 DEF disturbances

LEMMA StopStep ==
  ASSUME SoleTopUp, TypeOK, Places, Claims, QuietInv, [Next]_vars, faults' = 0,
         NEW p \in Proc, stop'[p]
  PROVE  Finished'
  <1>1. faults = 0 /\ Regular /\ seen' = {}
    BY RegularSteps DEF QuietInv, Undisturbed
  <1>2. CASE stop[p]
    <2>1. Finished
      BY <1>1, <1>2 DEF QuietInv, Undisturbed
    <2>2. \A q \in Proc : ~TopUp(q)
      BY <1>2, NoTopUpElsewhere DEF QuietInv, Monitoring
    <2> QED
      BY <1>1, <2>1, <2>2, FinishedStays
  <1>3. CASE ~stop[p]
    <2>1. Shutdown(p) \/ Terminate(p)
      <3>1. \/ stop' = stop
            \/ \E q \in Proc : (Setup(q) \/ Shutdown(q) \/ Terminate(q))
        BY <1>1 DEF Regular, vars, procs, WorkerStep, ProcessStep, MonitorStep, LockClaim, CommitClaim,
          BeginJob, CommitJob, MarkFailed, Leave, FailJob, ReadTip, TopUp, ReadProgress, Exit,
          Start, GrowOld, NewBlock
      <3>2. ASSUME NEW q \in Proc, Setup(q) PROVE ~stop'[p]
        BY <1>3, <3>2 DEF Setup, TypeOK
      <3>3. ASSUME NEW q \in Proc, Shutdown(q) \/ Terminate(q) PROVE p = q
        BY <1>3, <3>3 DEF Shutdown, Terminate, TypeOK
      <3> QED
        BY <1>3, <3>1, <3>2, <3>3
    <2>2. Finished
      BY <1>1, <2>1 DEF Shutdown, Terminate, QuietInv, Decided, Undisturbed
    <2>3. status' = status
      BY <2>1 DEF Shutdown, Terminate, table
    <2> QED
      BY <2>2, <2>3 DEF Finished
  <1> QED
    BY <1>2, <1>3

LEMMA OrphanStep ==
  ASSUME SoleTopUp, TypeOK, Places, Claims, QuietInv, [Next]_vars, faults' = 0,
         NEW p \in Proc, run'[p] \in {"starting", "up"}, run'[CommandOf[p]] = "off"
  PROVE  Finished'
  <1> DEFINE c == CommandOf[p]
  <1>0. c \in Proc /\ CommandOf[c] = c /\ CommandOf[p] = c
    BY RunnerAssumption
  <1>1. faults = 0 /\ Regular /\ seen' = {}
    BY RegularSteps DEF QuietInv, Undisturbed
  <1>2. CASE run[p] \in {"starting", "up"} /\ run[c] = "off"
    <2>1. Finished
      BY <1>1, <1>2 DEF QuietInv, Undisturbed
    <2>2. \A q \in Proc : ~TopUp(q)
      <3>1. ~Monitoring(c)
        BY <1>2 DEF Monitoring
      <3> QED
        BY <1>0, <3>1, NoTopUpElsewhere DEF QuietInv
    <2> QED
      BY <1>1, <2>1, <2>2, FinishedStays
  <1> HIDE DEF c
  <1>3. CASE ~(run[p] \in {"starting", "up"} /\ run[c] = "off")
    <2>1. \/ run' = run
          \/ \E q \in Proc : Setup(q) \/ Start(q) \/ Exit(q)
      BY <1>1 DEF Regular, vars, procs, WorkerStep, ProcessStep, MonitorStep, LockClaim, CommitClaim,
        BeginJob, CommitJob, MarkFailed, Leave, FailJob, ReadTip, TopUp, ReadProgress, Shutdown,
        Terminate, GrowOld, NewBlock
    <2>2. run' # run
      BY <1>0, <1>3
    <2>3. ASSUME NEW q \in Proc, Setup(q) PROVE FALSE
      <3>1. run[q] = "starting" /\ run' = [run EXCEPT ![q] = "up"]
        BY <2>3 DEF Setup
      <3> QED
        BY <1>0, <1>3, <3>1 DEF TypeOK
    <2>4. ASSUME NEW q \in Proc, Start(q) PROVE FALSE
      <3>1. run' = [r \in Proc |-> IF CommandOf[r] = q THEN "starting" ELSE run[r]]
        BY <2>4 DEF Start
      <3> QED
        BY <1>0, <1>3, <3>1
    <2>5. ASSUME NEW q \in Proc, Exit(q) PROVE Finished'
      <3>1. stop[q] /\ status' = status
        BY <2>5 DEF Exit, table
      <3> QED
        BY <1>1, <3>1 DEF QuietInv, Undisturbed, Finished
    <2> QED
      BY <2>1, <2>2, <2>3, <2>4, <2>5
  <1> QED
    BY <1>2, <1>3

\* A row in progress keeps its worker: what a worker lets go of is no longer in
\* progress, and nothing is when it leaves.
LEMMA HeldStep ==
  ASSUME IInv, QuietInv, [Next]_vars, faults' = 0, NEW h \in WithStatus(status', "in_progress")
  PROVE  \E w \in Alive' : h \in Holds(w)'
  <1>0. TypeOK /\ Places /\ Claims
    BY DEF IInv
  <1>1. faults = 0 /\ Regular
    BY <1>0, RegularSteps
  <1>2. WithStatus(status, "in_progress") = {k \in Height : status[k] = "in_progress"}
    BY <1>0 DEF TypeOK, WithStatus
  <1>3. \A k \in Height : status[k] = "in_progress" =>
          \E w \in Worker : at[w] \notin {"off", "dead"} /\ k \in Holds(w)
    BY <1>1, <1>2 DEF QuietInv, Undisturbed, Alive
  <1>4. h \in Height /\ status'[h] = "in_progress"
    BY NextIInv DEF IInv, TypeOK, WithStatus
  <1> SUFFICES \E w \in Worker : at'[w] \notin {"off", "dead"} /\ h \in Holds(w)'
    BY DEF Alive
  \* The worker of h, if h was in progress and its worker does not move.
  <1>5. ASSUME status[h] = "in_progress",
               \A w \in Worker : h \in Holds(w) => at'[w] = at[w] /\ batch'[w] = batch[w] /\ job'[w] = job[w]
        PROVE  \E w \in Worker : at'[w] \notin {"off", "dead"} /\ h \in Holds(w)'
    BY <1>3, <1>4, <1>5 DEF Holds
  <1>6. ASSUME NEW w \in Worker, CommitClaim(w)
        PROVE  \E v \in Worker : at'[v] \notin {"off", "dead"} /\ h \in Holds(v)'
    <2>1. /\ at[w] = "locking" /\ at' = [at EXCEPT ![w] = "holding"]
          /\ UNCHANGED <<batch, job>>
          /\ status' = Mark(status, batch[w], "in_progress")
      BY <1>6 DEF CommitClaim
    <2>2. CASE h \in batch[w]
      <3>1. h \in Holds(w)' /\ at'[w] = "holding"
        BY <1>0, <2>1, <2>2 DEF Holds, TypeOK
      <3> QED
        BY <3>1
    <2>3. CASE h \notin batch[w]
      <3>1. status[h] = "in_progress"
        BY <1>0, <1>4, <2>1, <2>3, MarkStatus, Marks
      <3>2. \A v \in Worker : h \in Holds(v) => v # w
        BY <1>0, <2>1, HoldsType
      <3> QED
        BY <1>0, <1>5, <2>1, <3>1, <3>2 DEF TypeOK
    <2> QED
      BY <2>2, <2>3
  <1>7. ASSUME NEW w \in Worker, CommitJob(w) \/ MarkFailed(w)
        PROVE  \E v \in Worker : at'[v] \notin {"off", "dead"} /\ h \in Holds(v)'
    <2>1. PICK s \in {"done", "failed"} : status' = Mark(status, {job[w]}, s)
      BY <1>7 DEF CommitJob, MarkFailed, Finish
    <2>2. status[h] = "in_progress" /\ h # job[w]
      BY <1>0, <1>4, <2>1, MarkStatus, Marks
    <2>3. /\ at[w] \in {"busy", "erred"} /\ batch' = batch
          /\ at' = [at EXCEPT ![w] = IF batch[w] = {} THEN "idle" ELSE "holding"]
          /\ job' = [job EXCEPT ![w] = NoJob]
      BY <1>7 DEF CommitJob, MarkFailed, NextJob
    <2>4. CASE h \in Holds(w)
      <3>1. h \in batch[w]
        BY <2>2, <2>4 DEF Holds
      <3>2. at'[w] = "holding" /\ h \in Holds(w)'
        BY <1>0, <2>3, <3>1 DEF Holds, TypeOK
      <3> QED
        BY <3>2
    <2>5. CASE h \notin Holds(w)
      BY <1>0, <1>5, <2>2, <2>3, <2>5 DEF TypeOK
    <2> QED
      BY <2>4, <2>5
  <1>8. ASSUME NEW w \in Worker, BeginJob(w) \/ FailJob(w) \/ LockClaim(w)
        PROVE  \E v \in Worker : at'[v] \notin {"off", "dead"} /\ h \in Holds(v)'
    <2>1. status[h] = "in_progress"
      BY <1>4, <1>8 DEF BeginJob, FailJob, LockClaim, table
    <2>2. \A v \in Worker \ {w} : at'[v] = at[v] /\ batch'[v] = batch[v] /\ job'[v] = job[v]
      BY <1>0, <1>8 DEF BeginJob, FailJob, LockClaim, TypeOK
    <2>3. CASE h \notin Holds(w)
      BY <1>5, <2>1, <2>2, <2>3
    <2>4. CASE h \in Holds(w)
      <3>1. BeginJob(w) \/ FailJob(w)
        BY <1>0, <1>8, <2>4, HoldsType DEF LockClaim
      <3>2. Holds(w)' = Holds(w) /\ at'[w] \in {"busy", "erred"}
        <4>1. CASE BeginJob(w)
          <5>1. PICK k \in batch[w] : /\ job' = [job EXCEPT ![w] = k]
                                      /\ batch' = [batch EXCEPT ![w] = @ \ {k}]
            BY <4>1 DEF BeginJob
          <5>2. at[w] = "holding" /\ at' = [at EXCEPT ![w] = "busy"] /\ job[w] = NoJob
            BY <1>0, <4>1, HoldsType DEF BeginJob
          <5> QED
            BY <1>0, <5>1, <5>2, HoldsType, HeightType DEF Holds, TypeOK
        <4>2. CASE FailJob(w)
          BY <1>0, <4>2 DEF FailJob, Holds, TypeOK
        <4> QED
          BY <3>1, <4>1, <4>2
      <3> QED
        BY <2>4, <3>2
    <2> QED
      BY <2>3, <2>4
  <1>9. ASSUME NEW w \in Worker, Leave(w) PROVE FALSE
    <2>1. stop[ProcOf[w]] /\ status' = status
      BY <1>9 DEF Leave, table
    <2>2. Finished
      BY <1>1, <2>1, RunnerAssumption DEF QuietInv, Undisturbed
    <2> QED
      BY <1>0, <1>2, <1>4, <2>1, <2>2 DEF Claims, Finished
  <1>10. ASSUME NEW p \in Proc, Setup(p)
         PROVE  \E v \in Worker : at'[v] \notin {"off", "dead"} /\ h \in Holds(v)'
    <2>1. status[h] = "in_progress"
      BY <1>0, <1>4, <1>10, ResetStatus DEF Setup, table
    <2>2. \A w \in Worker : h \in Holds(w) => ProcOf[w] # p
      BY <1>0, <1>10, HoldsType DEF Setup, Places
    <2> QED
      BY <1>5, <1>10, <2>1, <2>2 DEF Setup
  <1>11. ASSUME UNCHANGED workers,
                status' = status \/ \E p \in Proc : status' = InsertJobs(status, latest[p], cachedTip[p])
         PROVE  \E v \in Worker : at'[v] \notin {"off", "dead"} /\ h \in Holds(v)'
    <2>1. status[h] = "in_progress"
      BY <1>0, <1>4, <1>11, InsertStatus
    <2> QED
      BY <1>5, <1>11, <2>1 DEF workers
  <1>12. \/ \E w \in Worker : \/ CommitClaim(w) \/ CommitJob(w) \/ MarkFailed(w) \/ BeginJob(w)
                              \/ FailJob(w) \/ LockClaim(w) \/ Leave(w)
         \/ \E p \in Proc : Setup(p)
         \/ /\ UNCHANGED workers
            /\ status' = status \/ \E p \in Proc : status' = InsertJobs(status, latest[p], cachedTip[p])
    BY <1>1 DEF Regular, vars, WorkerStep, ProcessStep, MonitorStep, ReadTip, TopUp, ReadProgress,
      Shutdown, Exit, Terminate, Start, GrowOld, NewBlock, table
  <1> QED
    BY <1>6, <1>7, <1>8, <1>9, <1>10, <1>11, <1>12

LEMMA QuietStep ==
  ASSUME SoleTopUp, IInv, QuietInv, [Next]_vars
  PROVE  QuietInv'
  <1>1. TypeOK /\ Places /\ Claims
    BY DEF IInv
  <1>2. TopUps' /\ Decided'
    BY <1>1, TopUpsStep, DecidedStep DEF QuietInv
  <1>3. Undisturbed'
    <2> SUFFICES ASSUME faults' = 0 PROVE /\ seen' = {}
                                          /\ \A p \in Proc : stop'[p] => Finished'
                                          /\ \A p \in Proc : run'[p] \in {"starting", "up"}
                                               /\ run'[CommandOf[p]] = "off" => Finished'
                                          /\ \A h \in WithStatus(status', "in_progress") :
                                               \E w \in Alive' : h \in Holds(w)'
      BY DEF Undisturbed
    <2>1. seen' = {}
      BY <1>1, RegularSteps DEF QuietInv, Undisturbed
    <2> QED
      BY <1>1, <2>1, StopStep, OrphanStep, HeldStep
  <1> QED
    BY <1>2, <1>3 DEF QuietInv

\* With one monitor that tops up, or none, a row left in progress without a
\* worker is the work of a fault: no stop of a process strands a job
\* (runner.py:45-66, 86-115; jobs.py:144-163 is for the faults).
THEOREM StrandsNoJob ==
  ASSUME SoleTopUp
  PROVE  Spec => []NoStrandedJob
  <1>1. Init => IInv /\ QuietInv
    BY InitIInv, InitQuiet
  <1>2. IInv /\ QuietInv /\ [Next]_vars => (IInv /\ QuietInv)'
    BY NextIInv, QuietStep
  <1>3. QuietInv => NoStrandedJob
    BY DEF QuietInv, Undisturbed, NoStrandedJob
  <1> QED
    BY <1>1, <1>2, <1>3, PTL DEF Spec

\* A monitor that read a finished phase and then, awaits later, sets the
\* shutdown event still stops a finished phase (runner.py:64-65, 91-94), when
\* no other monitor inserts rows meanwhile and the operator does not requeue.
THEOREM StopsWhenFinished ==
  ASSUME SoleTopUp, Faults \cap {"requeue", "requeue_features"} = {}
  PROVE  Spec => NoPrematureShutdown
  <1>1. Init => IInv /\ QuietInv
    BY InitIInv, InitQuiet
  <1>2. IInv /\ QuietInv /\ [Next]_vars => (IInv /\ QuietInv)'
    BY NextIInv, QuietStep
  <1>3. ASSUME IInv, QuietInv, NEW p \in Proc, Shutdown(p) PROVE Finished
    BY <1>3 DEF IInv, TypeOK, QuietInv, Decided, Shutdown
  <1>4. IInv /\ QuietInv /\ [Next]_vars =>
          [\A p \in Proc : Shutdown(p) =>
             \A h \in Ready : status[h] \notin {"pending", "in_progress"}]_vars
    BY <1>3 DEF Finished
  <1> QED
    BY <1>1, <1>2, <1>4, PTL DEF Spec, NoPrematureShutdown
=============================================================================
