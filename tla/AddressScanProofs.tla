------------------------- MODULE AddressScanProofs -------------------------
(***************************************************************************)
(* Proofs about AddressScan for every chain, every number of workers and   *)
(* of faults.  Deltas go in once and with their status, whatever they sum; *)
(* and where they go in in height order, what they sum is exact.           *)
(***************************************************************************)
EXTENDS AddressScan, BlockJobsProofs

\* The types of what decides over the deltas, and the place of a worker fits
\* what it holds.
Fields ==
  /\ stored \subseteq Height /\ half \subseteq Height
  /\ addr \in [Height -> JobStatus]
  /\ at \in [Worker -> {"idle", "holding", "busy", "writing", "erred"}]
  /\ todo \in [Worker -> SUBSET Height]
  /\ job \in [Worker -> Height \cup {NoJob}]
  /\ view \in [Worker -> SUBSET Height]
  /\ applied \in [Height -> Nat]
  /\ \A h \in Height : addr[h] # "absent"
  /\ \A w \in Worker : /\ job[w] # NoJob <=> at[w] \in {"busy", "writing", "erred"}
                       /\ at[w] = "idle" => todo[w] = {}

\* The queue says done only of blocks whose delta is in.
DoneApplied == \A h \in Height : addr[h] = "done" => applied[h] >= 1

Quiet == seen \cap Reprocessing = {}

\* A block with a worker is in progress and has that worker only.
Exclusive ==
  /\ \A w \in Worker : \A h \in Holds(w) : addr[h] = "in_progress"
  /\ \A w, v \in Worker : w # v => Holds(w) \cap Holds(v) = {}
  /\ \A w \in Worker : job[w] \notin todo[w]

\* A delta is in once if its block is done, and not at all otherwise.
Once == \A h \in Height : applied[h] = IF addr[h] = "done" THEN 1 ELSE 0

IInv == Fields /\ DoneApplied /\ (Quiet => Exclusive /\ Once)

\* No step forgets a disturbance.
LEMMA SeenGrows == [Next]_vars => seen \subseteq seen'
  BY DEF Next, vars, disturbances, history, workers, ExtractOutputs, Extract, WorkerStep, Claim, Begin,
         BeginDelta, Scan, ScanUnseen, Fail, MarkFailed, MarkFailedLost, Die, Reset, Requeue,
         BeginRecompute, EndRecompute, LoseRecompute, Disturb

LEMMA NoJobIsNoHeight == NoJob \notin Height
  BY ScanAssumption DEF NoJob

LEMMA InitIInv == Init => IInv
  BY NoJobIsNoHeight DEF Init, IInv, Fields, DoneApplied, Quiet, Exclusive, Once, Holds, JobStatus

-----------------------------------------------------------------------------
\* What the steps do to the status column.

LEMMA MarkAddr ==
  ASSUME Fields, NEW H, NEW s \in {"in_progress", "done", "failed"}
  PROVE  /\ Mark(addr, H, s) \in [Height -> JobStatus]
         /\ \A h \in Height : Mark(addr, H, s)[h] = IF h \in H THEN s ELSE addr[h]
  BY MarkColumn, s \in JobStatus DEF Fields, Columns, JobStatus

LEMMA ResetAddr ==
  ASSUME Fields, NEW H
  PROVE  /\ ResetAbandoned(addr, H) \in [Height -> JobStatus]
         /\ \A h \in Height : ResetAbandoned(addr, H)[h] =
              IF h \in H /\ addr[h] = "in_progress" THEN "pending" ELSE addr[h]
  BY ResetColumn DEF Fields, Columns

LEMMA RequeueAddr ==
  ASSUME Fields, NEW H
  PROVE  /\ RequeueRange(addr, H) \in [Height -> JobStatus]
         /\ \A h \in Height : RequeueRange(addr, H)[h] =
              IF h \in H /\ addr[h] \in Terminal THEN "pending" ELSE addr[h]
  BY RequeueRangeColumn DEF Fields, Columns

\* A claim takes pending rows.
LEMMA ClaimTakes ==
  ASSUME Fields, NEW w \in Worker, Claim(w)
  PROVE  \E H \in SUBSET Height :
           /\ \A h \in H : addr[h] = "pending"
           /\ H # {}
           /\ addr' = Mark(addr, H, "in_progress")
           /\ todo' = [todo EXCEPT ![w] = H]
  <1> DEFINE C == Claimable(addr, stored)
  <1>1. C \subseteq Height /\ \A h \in C : addr[h] = "pending"
    BY DEF Claimable, WithStatus, Fields
  <1>2. PICK H \in IF Cardinality(Worker) = 1 THEN {Lowest(C, Batch)} ELSE SUBSET C :
          /\ H # {}
          /\ addr' = Mark(addr, H, "in_progress")
          /\ todo' = [todo EXCEPT ![w] = H]
    BY DEF Claim
  <1>3. Lowest(C, Batch) \subseteq C
    BY DEF Lowest
  <1>4. H \subseteq C
    BY <1>2, <1>3
  <1> QED
    BY <1>1, <1>2, <1>4

-----------------------------------------------------------------------------
LEMMA FieldsStep ==
  ASSUME Fields, [Next]_vars
  PROVE  Fields'
  <1> USE NoJobIsNoHeight
  <1>1. ASSUME NEW w \in Worker, Claim(w) PROVE Fields'
    <2>1. PICK H \in SUBSET Height :
            /\ \A h \in H : addr[h] = "pending"
            /\ H # {}
            /\ addr' = Mark(addr, H, "in_progress")
            /\ todo' = [todo EXCEPT ![w] = H]
      BY <1>1, ClaimTakes
    <2> QED
      BY <1>1, <2>1, MarkAddr DEF Claim, blocks, history, Fields
  <1>2. ASSUME NEW w \in Worker, Begin(w) PROVE Fields'
    BY <1>2 DEF Begin, blocks, history, Fields
  <1>14. ASSUME NEW w \in Worker, BeginDelta(w) PROVE Fields'
    BY <1>14 DEF BeginDelta, blocks, history, Fields
  <1>3. ASSUME NEW w \in Worker, Scan(w) PROVE Fields'
    BY <1>3, MarkAddr DEF Scan, ApplyDelta, Count, NextJob, Leave, blocks, Fields
  <1>4. ASSUME NEW w \in Worker, ScanUnseen(w) PROVE Fields'
    BY <1>4, MarkAddr DEF ScanUnseen, ApplyDelta, Count, Leave, blocks, Fields
  <1>5. ASSUME NEW w \in Worker, Fail(w) PROVE Fields'
    BY <1>5 DEF Fail, Leave, blocks, history, Fields
  <1>6. ASSUME NEW w \in Worker, MarkFailed(w) PROVE Fields'
    BY <1>6, MarkAddr DEF MarkFailed, NextJob, Leave, blocks, history, Fields
  <1>7. ASSUME NEW w \in Worker, MarkFailedLost(w) PROVE Fields'
    BY <1>7 DEF MarkFailedLost, NextJob, Leave, blocks, history, Fields
  <1>8. ASSUME NEW w \in Worker, Die(w) PROVE Fields'
    BY <1>8 DEF Die, Leave, blocks, history, Fields
  <1>9. ASSUME NEW h \in Height, ExtractOutputs(h) \/ Extract(h) PROVE Fields'
    BY <1>9 DEF ExtractOutputs, Extract, workers, history, Fields
  <1>10. CASE Reset
    BY <1>10, ResetAddr DEF Reset, blocks, workers, history, Fields
  <1>11. CASE Requeue
    BY <1>11, RequeueAddr DEF Requeue, blocks, workers, history, Fields
  <1>12. CASE BeginRecompute \/ EndRecompute \/ LoseRecompute
    BY <1>12 DEF BeginRecompute, EndRecompute, LoseRecompute, blocks, workers, history, Fields
  <1>13. CASE UNCHANGED vars
    BY <1>13 DEF vars, blocks, workers, history, Fields
  <1> QED
    BY <1>1, <1>2, <1>3, <1>4, <1>5, <1>6, <1>7, <1>8, <1>9, <1>10, <1>11, <1>12, <1>13, <1>14
    DEF Next, WorkerStep

\* Done is only ever written together with a delta.
LEMMA DoneAppliedStep ==
  ASSUME Fields, DoneApplied, [Next]_vars
  PROVE  DoneApplied'
  <1> USE DEF DoneApplied
  <1>1. ASSUME NEW w \in Worker, Claim(w) PROVE DoneApplied'
    <2>1. PICK H \in SUBSET Height : addr' = Mark(addr, H, "in_progress")
      BY <1>1, ClaimTakes
    <2> QED
      BY <1>1, <2>1, MarkAddr DEF Claim, history
  <1>2. ASSUME NEW w \in Worker, ApplyDelta(w), at[w] = "writing" PROVE DoneApplied'
    BY <1>2, MarkAddr DEF ApplyDelta, Count, Fields
  <1>3. ASSUME NEW w \in Worker, MarkFailed(w) PROVE DoneApplied'
    BY <1>3, MarkAddr DEF MarkFailed, history
  <1>4. CASE Reset
    BY <1>4, ResetAddr DEF Reset, history
  <1>5. CASE Requeue
    BY <1>5, RequeueAddr DEF Requeue, history
  <1>6. CASE UNCHANGED <<addr, applied>>
    BY <1>6
  <1> QED
    BY <1>1, <1>2, <1>3, <1>4, <1>5, <1>6
    DEF Next, WorkerStep, vars, history, Begin, BeginDelta, Scan, ScanUnseen, Fail, MarkFailedLost, Die,
        ExtractOutputs, Extract, BeginRecompute, EndRecompute, LoseRecompute

-----------------------------------------------------------------------------
\* While nothing is reprocessed, one worker answers for a block in progress.
LEMMA ExclusiveStep ==
  ASSUME Fields, Exclusive, Once, [Next]_vars, Quiet'
  PROVE  Exclusive' /\ Once'
  <1> USE NoJobIsNoHeight DEF Exclusive, Once, Holds
  <1>1. ASSUME NEW w \in Worker, Claim(w) PROVE Exclusive' /\ Once'
    <2>1. PICK H \in SUBSET Height :
            /\ \A h \in H : addr[h] = "pending"
            /\ addr' = Mark(addr, H, "in_progress")
            /\ todo' = [todo EXCEPT ![w] = H]
      BY <1>1, ClaimTakes
    <2>2. UNCHANGED <<job, applied>> /\ job[w] = NoJob
      BY <1>1 DEF Claim, history, Fields
    <2>3. \A h \in Height : addr'[h] = IF h \in H THEN "in_progress" ELSE addr[h]
      BY <2>1, MarkAddr
    <2>4. \A v \in Worker : Holds(v)' = IF v = w THEN H ELSE Holds(v)
      BY <2>1, <2>2 DEF Fields
    <2>5. \A v \in Worker : Holds(v) \cap H = {}
      BY <2>1
    <2>6. \A v, u \in Worker : v # u => Holds(v)' \cap Holds(u)' = {}
      BY <2>4, <2>5
    <2>7. \A v \in Worker : \A h \in Holds(v)' : addr'[h] = "in_progress"
      BY <2>1, <2>3, <2>4 DEF Fields
    <2>8. \A v \in Worker : job'[v] \notin todo'[v]
      BY <2>1, <2>2 DEF Fields
    <2> QED
      BY <2>1, <2>2, <2>3, <2>6, <2>7, <2>8
  <1>2. ASSUME NEW w \in Worker, Begin(w) PROVE Exclusive' /\ Once'
    <2>1. PICK h \in todo[w] : /\ todo' = [todo EXCEPT ![w] = @ \ {h}]
                               /\ job' = [job EXCEPT ![w] = h]
      BY <1>2 DEF Begin
    <2>2. UNCHANGED <<addr, applied>> /\ job[w] = NoJob
      BY <1>2 DEF Begin, history, Fields
    <2>3. \A v \in Worker : Holds(v)' = Holds(v)
      BY <2>1, <2>2 DEF Fields
    <2> QED
      BY <2>1, <2>2, <2>3 DEF Fields
  <1>13. ASSUME NEW w \in Worker, BeginDelta(w) PROVE Exclusive' /\ Once'
    BY <1>13 DEF BeginDelta, history
  <1>3. ASSUME NEW w \in Worker, Scan(w) PROVE Exclusive' /\ Once'
    <2>1. job[w] \in Height /\ addr[job[w]] = "in_progress"
      BY <1>3 DEF Scan, Fields
    <2>2. \A h \in Height : addr'[h] = IF h = job[w] THEN "done" ELSE addr[h]
      BY <1>3, MarkAddr DEF Scan, ApplyDelta
    <2>3. applied' = [applied EXCEPT ![job[w]] = @ + 1] /\ UNCHANGED todo
      BY <1>3 DEF Scan, ApplyDelta, Count
    <2>4. \A v \in Worker : Holds(v)' = IF v = w THEN Holds(v) \ {job[w]} ELSE Holds(v)
      BY <1>3, <2>3 DEF Scan, NextJob, Fields
    <2>5. \A v \in Worker : job'[v] \notin todo'[v]
      BY <1>3, <2>3 DEF Scan, NextJob, Fields
    <2>6. \A v \in Worker : \A h \in Holds(v)' : h \in Height /\ h # job[w]
      BY <2>1, <2>4 DEF Fields
    <2>7. \A v \in Worker : \A h \in Holds(v)' : addr'[h] = "in_progress"
      BY <2>2, <2>4, <2>6
    <2>8. Once'
      BY <2>1, <2>2, <2>3 DEF Fields
    <2> QED
      BY <2>4, <2>5, <2>7, <2>8
  <1>4. ASSUME NEW w \in Worker, ScanUnseen(w) PROVE FALSE
    BY <1>4 DEF ScanUnseen, Disturb, Quiet, Reprocessing
  <1>5. ASSUME NEW w \in Worker, Fail(w) PROVE Exclusive' /\ Once'
    BY <1>5 DEF Fail, history
  <1>6. ASSUME NEW w \in Worker, MarkFailed(w) PROVE Exclusive' /\ Once'
    <2>1. job[w] \in Height /\ addr[job[w]] = "in_progress"
      BY <1>6 DEF MarkFailed, Fields
    <2>2. \A h \in Height : addr'[h] = IF h = job[w] THEN "failed" ELSE addr[h]
      BY <1>6, MarkAddr DEF MarkFailed
    <2>3. UNCHANGED <<todo, applied>>
      BY <1>6 DEF MarkFailed, history
    <2>4. \A v \in Worker : Holds(v)' = IF v = w THEN Holds(v) \ {job[w]} ELSE Holds(v)
      BY <1>6, <2>3 DEF MarkFailed, NextJob, history, Fields
    <2>5. \A v \in Worker : job'[v] \notin todo'[v]
      BY <1>6, <2>3 DEF MarkFailed, NextJob, history, Fields
    <2>6. \A v \in Worker : \A h \in Holds(v)' : h \in Height /\ h # job[w]
      BY <2>1, <2>4 DEF Fields
    <2>7. \A v \in Worker : \A h \in Holds(v)' : addr'[h] = "in_progress"
      BY <2>2, <2>4, <2>6
    <2> QED
      BY <2>1, <2>2, <2>3, <2>4, <2>5, <2>7
  <1>7. ASSUME NEW w \in Worker, MarkFailedLost(w) \/ Die(w) PROVE Exclusive' /\ Once'
    <2>1. UNCHANGED <<addr, applied>>
      BY <1>7 DEF MarkFailedLost, Die, history
    <2>2. \A v \in Worker : /\ Holds(v)' \subseteq Holds(v)
                            /\ job'[v] \notin todo'[v]
      BY <1>7 DEF MarkFailedLost, Die, NextJob, Fields
    <2> QED
      BY <2>1, <2>2
  <1>8. CASE Reset
    <2>1. PICK H \in SUBSET Height : H \cap Held = {} /\ addr' = ResetAbandoned(addr, H)
      BY <1>8 DEF Reset, Disturb, Quiet, Reprocessing
    <2>2. UNCHANGED <<todo, job, applied>>
      BY <1>8 DEF Reset, workers, history
    <2>3. \A w \in Worker : Holds(w) \cap H = {}
      BY <2>1 DEF Held
    <2>4. \A h \in Height : addr'[h] = IF h \in H /\ addr[h] = "in_progress" THEN "pending"
                                     ELSE addr[h]
      BY <2>1, ResetAddr
    <2> QED
      BY <2>2, <2>3, <2>4 DEF Fields
  <1>9. CASE Requeue
    BY <1>9 DEF Requeue, Disturb, Quiet, Reprocessing
  <1>10. ASSUME NEW h \in Height, ExtractOutputs(h) \/ Extract(h) PROVE Exclusive' /\ Once'
    BY <1>10 DEF ExtractOutputs, Extract, workers, history
  <1>11. CASE BeginRecompute \/ EndRecompute \/ LoseRecompute
    BY <1>11 DEF BeginRecompute, EndRecompute, LoseRecompute, workers, history
  <1>12. CASE UNCHANGED vars
    BY <1>12 DEF vars, workers, history
  <1> QED
    BY <1>1, <1>2, <1>3, <1>4, <1>5, <1>6, <1>7, <1>8, <1>9, <1>10, <1>11, <1>12, <1>13
    DEF Next, WorkerStep

LEMMA NextIInv == IInv /\ [Next]_vars => IInv'
  <1> SUFFICES ASSUME IInv, [Next]_vars PROVE IInv'
    OBVIOUS
  <1>1. Quiet' => Quiet
    BY SeenGrows DEF Quiet
  <1> QED
    BY <1>1, FieldsStep, DoneAppliedStep, ExclusiveStep DEF IInv

\* The inductive invariant of AddressScan: what process and reset keep.
THEOREM Invariance == Spec => []IInv
  BY InitIInv, NextIInv, PTL DEF Spec

\* No delta is added twice, unless a job is taken from a live worker, requeued,
\* or marked failed after its commit (address_scans.py:144-154).
THEOREM DeltasOnce == Spec => []AppliedOnce
  <1>1. IInv => AppliedOnce
    BY DEF IInv, Once, Quiet, AppliedOnce
  <1> QED
    BY <1>1, Invariance, PTL

\* A block that is done has its delta in, whatever happens, and with the same
\* exceptions a delta that is in is reported done.
THEOREM StatusMatchesDelta == Spec => []DoneIffApplied
  <1>1. IInv => DoneIffApplied
    BY DEF IInv, DoneApplied, Once, Quiet, DoneIffApplied
  <1> QED
    BY <1>1, Invariance, PTL

-----------------------------------------------------------------------------
(* Sums of values.  Sats is a fold, that is a recursive function on the    *)
(* subsets of a set; what it sums does not depend on the order.            *)

First(s) == CHOOSE o \in s : TRUE
Adds(g, S) == g = [s \in SUBSET S |-> IF s = {} THEN 0 ELSE Amount[First(s)] + g[s \ {First(s)}]]

LEMMA AddsIs ==
  ASSUME NEW S, NEW g, Adds(g, S), NEW s \in SUBSET S
  PROVE  g[s] = IF s = {} THEN 0 ELSE Amount[First(s)] + g[s \ {First(s)}]
  BY DEF Adds

LEMMA FirstIn == ASSUME NEW s, s # {} PROVE First(s) \in s
  BY DEF First

LEMMA AddsAgree ==
  ASSUME NEW S, NEW T, NEW g, NEW h, Adds(g, S), Adds(h, T),
         NEW u, u \in SUBSET S, u \in SUBSET T, IsFiniteSet(u)
  PROVE  g[u] = h[u]
  <1> DEFINE Apart == {v \in SUBSET u : g[v] # h[v]}
  <1>1. Apart = {}
    <2> SUFFICES ASSUME Apart # {} PROVE FALSE
      OBVIOUS
    <2>1. PICK v \in Apart : \A w \in Apart : w \subseteq v => w = v
      <3>1. Apart \in SUBSET (SUBSET u)
        OBVIOUS
      <3> HIDE DEF Apart
      <3> QED
        BY <3>1, SmallestSubset
    <2>2. v \in SUBSET S /\ v \in SUBSET T /\ v \in SUBSET u /\ g[v] # h[v]
      BY <2>1
    <2> HIDE DEF Apart
    <2>3. Adds(g, S) /\ v \in SUBSET S
      BY <2>2
    <2>4. g[v] = (IF v = {} THEN 0 ELSE Amount[First(v)] + g[v \ {First(v)}])
      BY <2>3, AddsIs
    <2>5. h[v] = (IF v = {} THEN 0 ELSE Amount[First(v)] + h[v \ {First(v)}])
      BY <2>2, AddsIs
    <2>6. v # {}
      BY <2>2, <2>4, <2>5
    <2>7. First(v) \in v
      BY <2>6, FirstIn
    <2> DEFINE w == v \ {First(v)}
    <2>8. w \in SUBSET u /\ w \subseteq v /\ w # v
      BY <2>2, <2>7
    <2> HIDE DEF w
    <2>9. w \notin Apart
      BY <2>1, <2>8
    <2>10. g[w] = h[w]
      BY <2>8, <2>9 DEF Apart
    <2> QED
      BY <2>2, <2>4, <2>5, <2>6, <2>10 DEF w
  <1> QED
    BY <1>1

LEMMA AddsExists ==
  ASSUME NEW S, IsFiniteSet(S)
  PROVE  \E g : Adds(g, S)
  <1> DEFINE None == {T \in SUBSET S : ~\E g : Adds(g, T)}
  <1>1. None = {}
    <2> SUFFICES ASSUME None # {} PROVE FALSE
      OBVIOUS
    <2>1. PICK T \in None : \A U \in None : U \subseteq T => U = T
      <3>1. None \in SUBSET (SUBSET S)
        OBVIOUS
      <3> HIDE DEF None
      <3> QED
        BY <3>1, SmallestSubset
    <2> DEFINE G(U) == CHOOSE g : Adds(g, U)
               Rest(s) == s \ {First(s)}
               g == [s \in SUBSET T |-> IF s = {} THEN 0 ELSE Amount[First(s)] + G(Rest(s))[Rest(s)]]
    <2>2. \A U \in SUBSET T : U # T => Adds(G(U), U)
      BY <2>1
    <2>3. \A U \in SUBSET T : IsFiniteSet(U)
      BY <2>1, FS_Subset
    <2>4. \A s \in SUBSET T : s # {} => Rest(s) \in SUBSET s /\ Rest(s) # s
      BY FirstIn
    <2>5. \A s \in SUBSET T : g[s] = IF s = {} THEN 0 ELSE Amount[First(s)] + G(Rest(s))[Rest(s)]
      OBVIOUS
    <2> HIDE DEF G, Rest, g
    <2>6. ASSUME NEW u \in SUBSET T, u # T PROVE g[u] = G(u)[u]
      <3>1. Adds(G(u), u)
        BY <2>2, <2>6
      <3>2. G(u)[u] = IF u = {} THEN 0 ELSE Amount[First(u)] + G(u)[Rest(u)]
        BY <3>1, AddsIs DEF Rest
      <3>3. ASSUME u # {} PROVE G(u)[Rest(u)] = G(Rest(u))[Rest(u)]
        <4>1. Rest(u) \in SUBSET u /\ Rest(u) \in SUBSET T /\ Rest(u) # T
          BY <2>4, <2>6, <3>3
        <4>2. Adds(G(Rest(u)), Rest(u)) /\ IsFiniteSet(Rest(u))
          BY <2>2, <2>3, <4>1
        <4> QED
          BY <3>1, <4>1, <4>2, AddsAgree
      <3> QED
        BY <2>5, <3>2, <3>3
    <2>7. ASSUME NEW s \in SUBSET T
          PROVE  g[s] = IF s = {} THEN 0 ELSE Amount[First(s)] + g[s \ {First(s)}]
      <3>1. CASE s = {}
        BY <2>5, <3>1
      <3>2. CASE s # {}
        <4>1. Rest(s) \in SUBSET T /\ Rest(s) # T
          BY <2>4, <3>2
        <4>2. g[Rest(s)] = G(Rest(s))[Rest(s)]
          BY <2>6, <4>1
        <4> QED
          BY <2>5, <3>2, <4>2 DEF Rest
      <3> QED
        BY <3>1, <3>2
    <2>8. g = [s \in SUBSET T |-> IF s = {} THEN 0 ELSE Amount[First(s)] + g[s \ {First(s)}]]
      <3>1. g = [s \in SUBSET T |-> g[s]]
        BY DEF g
      <3> QED
        BY <2>7, <3>1
    <2>9. Adds(g, T)
      BY <2>8 DEF Adds
    <2> QED
      BY <2>1, <2>9
  <1> QED
    BY <1>1

\* The sum by its recursion.
LEMMA SatsIs ==
  ASSUME NEW S, IsFiniteSet(S)
  PROVE  Sats(S) = IF S = {} THEN 0 ELSE Amount[First(S)] + Sats(S \ {First(S)})
  <1> DEFINE G(U) == CHOOSE g : Adds(g, U)
             r == S \ {First(S)}
  <1>1. \A U : Sats(U) = G(U)[U]
    BY DEF Sats, MapThenSumSet, MapThenFoldSet, Adds, First
  <1>2. r \in SUBSET S /\ IsFiniteSet(r)
    BY FS_Subset
  <1> HIDE DEF r
  <1>3. Adds(G(S), S) /\ Adds(G(r), r)
    BY <1>2, AddsExists
  <1> HIDE DEF G
  <1>4. G(S)[S] = IF S = {} THEN 0 ELSE Amount[First(S)] + G(S)[r]
    BY <1>3, AddsIs DEF r
  <1>5. G(S)[r] = G(r)[r]
    BY <1>2, <1>3, AddsAgree
  <1> QED
    BY <1>1, <1>4, <1>5 DEF r

LEMMA SatsType ==
  ASSUME NEW S \in SUBSET Out
  PROVE  Sats(S) \in Nat /\ (S = {} => Sats(S) = 0) /\ IsFiniteSet(S)
  <1> DEFINE Bad == {T \in SUBSET S : Sats(T) \notin Nat}
  <1>1. IsFiniteSet(S) /\ \A T \in SUBSET S : IsFiniteSet(T)
    BY ScanAssumption, FS_Subset
  <1>2. Bad = {}
    <2> SUFFICES ASSUME Bad # {} PROVE FALSE
      OBVIOUS
    <2>1. PICK T \in Bad : \A U \in Bad : U \subseteq T => U = T
      <3>1. Bad \in SUBSET (SUBSET S)
        OBVIOUS
      <3> HIDE DEF Bad
      <3> QED
        BY <1>1, <3>1, SmallestSubset
    <2>2. Sats(T) = IF T = {} THEN 0 ELSE Amount[First(T)] + Sats(T \ {First(T)})
      BY <1>1, <2>1, SatsIs
    <2>3. T # {}
      BY <2>1, <2>2
    <2>4. First(T) \in T /\ Amount[First(T)] \in Nat
      BY <2>1, <2>3, FirstIn, ScanAssumption
    <2>5. T \ {First(T)} \notin Bad /\ T \ {First(T)} \in SUBSET S
      BY <2>1, <2>4
    <2> QED
      BY <2>1, <2>2, <2>3, <2>4, <2>5
  <1>3. S = {} => Sats(S) = 0
    BY <1>1, SatsIs
  <1> QED
    BY <1>1, <1>2, <1>3

\* Any element may be taken out first.
LEMMA SatsRemove ==
  ASSUME NEW S \in SUBSET Out, NEW x \in S
  PROVE  Sats(S) = Amount[x] + Sats(S \ {x})
  <1> DEFINE Bad == {T \in SUBSET S : \E y \in T : Sats(T) # Amount[y] + Sats(T \ {y})}
  <1>1. IsFiniteSet(S) /\ \A T \in SUBSET S : IsFiniteSet(T) /\ T \in SUBSET Out /\ Sats(T) \in Nat
    BY SatsType
  <1>2. Bad = {}
    <2> SUFFICES ASSUME Bad # {} PROVE FALSE
      OBVIOUS
    <2>1. PICK T \in Bad : \A U \in Bad : U \subseteq T => U = T
      <3>1. Bad \in SUBSET (SUBSET S)
        OBVIOUS
      <3> HIDE DEF Bad
      <3> QED
        BY <1>1, <3>1, SmallestSubset
    <2>2. PICK y \in T : Sats(T) # Amount[y] + Sats(T \ {y})
      BY <2>1
    <2> DEFINE c == First(T)
    <2>3. c \in T /\ Sats(T) = Amount[c] + Sats(T \ {c})
      BY <1>1, <2>1, <2>2, SatsIs, FirstIn
    <2> HIDE DEF c
    <2>4. c # y
      BY <2>2, <2>3
    <2>5. T \ {c} \in SUBSET S /\ T \ {y} \in SUBSET S /\ T \ {c} \notin Bad /\ T \ {y} \notin Bad
      BY <2>1, <2>2, <2>3
    <2>6. Sats(T \ {c}) = Amount[y] + Sats((T \ {c}) \ {y})
      BY <2>2, <2>4, <2>5
    <2>7. Sats(T \ {y}) = Amount[c] + Sats((T \ {y}) \ {c})
      BY <2>3, <2>4, <2>5
    <2>8. (T \ {c}) \ {y} = (T \ {y}) \ {c} /\ (T \ {y}) \ {c} \in SUBSET S
      BY <2>5
    <2>9. Amount[c] \in Nat /\ Amount[y] \in Nat /\ Sats((T \ {y}) \ {c}) \in Nat
      BY <1>1, <2>1, <2>2, <2>3, <2>8, ScanAssumption
    <2>10. Sats(T) = Amount[c] + (Amount[y] + Sats((T \ {y}) \ {c}))
      BY <2>3, <2>6, <2>8
    <2>11. Amount[y] + Sats(T \ {y}) = Amount[y] + (Amount[c] + Sats((T \ {y}) \ {c}))
      BY <2>7
    <2> QED
      BY <2>2, <2>9, <2>10, <2>11
  <1> QED
    BY <1>2

LEMMA SatsUnion ==
  ASSUME NEW S \in SUBSET Out, NEW T \in SUBSET Out, S \cap T = {}
  PROVE  Sats(S \cup T) = Sats(S) + Sats(T)
  <1> DEFINE Bad == {U \in SUBSET T : Sats(S \cup U) # Sats(S) + Sats(U)}
  <1>1. /\ Sats(S) \in Nat /\ IsFiniteSet(T) /\ Sats({}) = 0
        /\ \A U \in SUBSET T : Sats(U) \in Nat /\ U \in SUBSET Out
    BY SatsType
  <1>2. Bad = {}
    <2> SUFFICES ASSUME Bad # {} PROVE FALSE
      OBVIOUS
    <2>1. PICK U \in Bad : \A V \in Bad : V \subseteq U => V = U
      <3>1. Bad \in SUBSET (SUBSET T)
        OBVIOUS
      <3> HIDE DEF Bad
      <3> QED
        BY <1>1, <3>1, SmallestSubset
    <2>2. U # {}
      <3>1. S \cup {} = S /\ Sats(S) + 0 = Sats(S)
        BY <1>1
      <3>2. {} \notin Bad
        BY <1>1, <3>1
      <3> HIDE DEF Bad
      <3> QED
        BY <2>1, <3>2
    <2>3. PICK x : x \in U
      BY <2>2
    <2> DEFINE r == U \ {x}
    <2>4. r \in SUBSET T /\ r \notin Bad /\ x \notin S
      BY <2>1, <2>3
    <2>5. (S \cup U) \ {x} = S \cup r /\ S \cup U \in SUBSET Out /\ x \in S \cup U
      BY <2>1, <2>3, <2>4
    <2>6. Sats(U) = Amount[x] + Sats(r)
      BY <1>1, <2>1, <2>3, SatsRemove
    <2>7. Sats(S \cup U) = Amount[x] + Sats(S \cup r)
      BY <2>5, SatsRemove
    <2> HIDE DEF r
    <2>8. Sats(S \cup r) = Sats(S) + Sats(r)
      BY <2>4
    <2>9. Amount[x] \in Nat /\ Sats(r) \in Nat
      BY <1>1, <2>1, <2>3, <2>4, ScanAssumption
    <2> QED
      BY <1>1, <2>1, <2>6, <2>7, <2>8, <2>9
  <1> QED
    BY <1>2

\* What remains of a set without a part of it.
LEMMA SatsWithout ==
  ASSUME NEW S \in SUBSET Out, NEW T \in SUBSET S
  PROVE  Sats(S \ T) = Sats(S) - Sats(T) /\ Sats(S \ T) \in Nat
  <1>1. S = T \cup (S \ T) /\ T \cap (S \ T) = {} /\ T \in SUBSET Out /\ S \ T \in SUBSET Out
    OBVIOUS
  <1>2. Sats(S) = Sats(T) + Sats(S \ T)
    BY <1>1, SatsUnion
  <1>3. Sats(T) \in Nat /\ Sats(S \ T) \in Nat
    BY <1>1, SatsType
  <1> QED
    BY <1>2, <1>3

-----------------------------------------------------------------------------
(* What a delta adds, in height order, is what the recomputation of the    *)
(* blocks with that block has more than the one without.                   *)

Spent(a, H) == SpentOf(a, H, H)
Live(a, H) == OutsOf(a, H) \ Spent(a, H)
TxsAt(a, H) == {TxOf[o] : o \in OutsOf(a, H)} \cup {SpentBy[o] : o \in Spent(a, H)}

LEMMA ExactIs ==
  ASSUME NEW a, NEW H
  PROVE  Exact(a, H) = [balance |-> Sats(Live(a, H)), utxos |-> Cardinality(Live(a, H)),
                        txs |-> Cardinality(TxsAt(a, H))]
  BY DEF Exact, Aggregate, Spent, Live, TxsAt

\* An output is in a block, and spent in none or in one not before that.
LEMMA BlocksOfOutput ==
  ASSUME NEW o \in Out
  PROVE  /\ TxOf[o] \in Tx /\ BlockOf[TxOf[o]] \in Height /\ BlockOf[TxOf[o]] \in Nat
         /\ SpentBy[o] # Unspent => /\ SpentBy[o] \in Tx /\ BlockOf[SpentBy[o]] \in Height
                                    /\ BlockOf[SpentBy[o]] \in Nat
                                    /\ BlockOf[TxOf[o]] <= BlockOf[SpentBy[o]]
  BY ScanAssumption

LEMMA NextBlock ==
  ASSUME NEW a \in Addr, NEW h \in Height, NEW P, P = Below(h),
         NEW Q, Q = P \cup {h}, NEW V, Q \subseteq V
  PROVE  /\ Live(a, P) \cap Credits(a, h) = {}
         /\ Debits(a, h, V) \subseteq Live(a, P) \cup Credits(a, h)
         /\ Live(a, Q) = (Live(a, P) \cup Credits(a, h)) \ Debits(a, h, V)
         /\ TxsAt(a, P) \cap DeltaTxs(a, h, V) = {}
         /\ TxsAt(a, Q) = TxsAt(a, P) \cup DeltaTxs(a, h, V)
  <1>1. h \in Nat /\ h \notin P /\ \A k \in Height : k \in Nat /\ (k \in P <=> k < h) /\ (k \in Q <=> k <= h)
    BY ScanAssumption DEF Below
  <1>2. ASSUME NEW o \in Out
        PROVE  /\ o \in OutsOf(a, P) <=> AddrOf[o] = a /\ BlockOf[TxOf[o]] < h
               /\ o \in OutsOf(a, Q) <=> AddrOf[o] = a /\ BlockOf[TxOf[o]] <= h
               /\ o \in Credits(a, h) <=> AddrOf[o] = a /\ BlockOf[TxOf[o]] = h
    BY <1>1, BlocksOfOutput DEF OutsOf, Credits
  <1>3. ASSUME NEW o \in Out
        PROVE  /\ o \in Spent(a, P) <=> AddrOf[o] = a /\ SpentBy[o] # Unspent /\ BlockOf[SpentBy[o]] < h
               /\ o \in Spent(a, Q) <=> AddrOf[o] = a /\ SpentBy[o] # Unspent /\ BlockOf[SpentBy[o]] <= h
               /\ o \in Debits(a, h, V) <=> AddrOf[o] = a /\ SpentBy[o] # Unspent /\ BlockOf[SpentBy[o]] = h
    <2>1. /\ o \in Spent(a, P) <=> o \in OutsOf(a, P) /\ SpentBy[o] # Unspent /\ BlockOf[SpentBy[o]] \in P
          /\ o \in Spent(a, Q) <=> o \in OutsOf(a, Q) /\ SpentBy[o] # Unspent /\ BlockOf[SpentBy[o]] \in Q
          /\ o \in Debits(a, h, V) <=> /\ AddrOf[o] = a /\ SpentBy[o] # Unspent /\ BlockOf[SpentBy[o]] = h
                                    /\ BlockOf[TxOf[o]] \in V
      BY DEF Spent, SpentOf, Debits
    <2>2. BlockOf[TxOf[o]] <= h => BlockOf[TxOf[o]] \in V
      BY <1>1, BlocksOfOutput
    <2>3. CASE SpentBy[o] = Unspent
      BY <2>1, <2>3
    <2>4. CASE SpentBy[o] # Unspent
      <3>1. /\ BlockOf[TxOf[o]] \in Nat /\ BlockOf[SpentBy[o]] \in Nat /\ h \in Nat
            /\ BlockOf[TxOf[o]] <= BlockOf[SpentBy[o]]
        BY <1>1, <2>4, BlocksOfOutput
      <3>2. /\ BlockOf[SpentBy[o]] \in P <=> BlockOf[SpentBy[o]] < h
            /\ BlockOf[SpentBy[o]] \in Q <=> BlockOf[SpentBy[o]] <= h
        BY <1>1, <2>4, BlocksOfOutput
      <3>3. /\ o \in OutsOf(a, P) <=> AddrOf[o] = a /\ BlockOf[TxOf[o]] < h
            /\ o \in OutsOf(a, Q) <=> AddrOf[o] = a /\ BlockOf[TxOf[o]] <= h
        BY <1>2
      <3> QED
        BY ONLY <2>1, <2>2, <2>4, <3>1, <3>2, <3>3
    <2> QED
      BY <2>3, <2>4
  <1>4. /\ OutsOf(a, P) \subseteq Out /\ OutsOf(a, Q) \subseteq Out /\ Credits(a, h) \subseteq Out
        /\ Spent(a, P) \subseteq Out /\ Spent(a, Q) \subseteq Out /\ Debits(a, h, V) \subseteq Out
    BY DEF OutsOf, Spent, SpentOf, Credits, Debits
  <1>5. Live(a, P) \cap Credits(a, h) = {}
    BY <1>1, <1>2, <1>4, BlocksOfOutput DEF Live
  <1>6. Debits(a, h, V) \subseteq Live(a, P) \cup Credits(a, h)
    <2>1. ASSUME NEW o \in Debits(a, h, V) PROVE o \in Live(a, P) \cup Credits(a, h)
      <3>1. o \in Out /\ BlockOf[TxOf[o]] <= h /\ BlockOf[TxOf[o]] \in Nat
        BY <1>3, <1>4, <2>1, BlocksOfOutput
      <3>2. o \notin Spent(a, P)
        BY <1>1, <1>3, <2>1, <3>1
      <3> QED
        BY <1>1, <1>2, <1>3, <2>1, <3>1, <3>2 DEF Live
    <2> QED
      BY <2>1
  <1>7. Live(a, Q) = (Live(a, P) \cup Credits(a, h)) \ Debits(a, h, V)
    <2>1. ASSUME NEW o \in Out
          PROVE  o \in Live(a, Q) <=> o \in (Live(a, P) \cup Credits(a, h)) \ Debits(a, h, V)
      <3>1. \A H : o \in Live(a, H) <=> o \in OutsOf(a, H) /\ o \notin Spent(a, H)
        BY DEF Live
      <3>2. CASE SpentBy[o] = Unspent
        <4>1. BlockOf[TxOf[o]] \in Nat /\ h \in Nat
          BY <1>1, BlocksOfOutput
        <4>2. o \notin Spent(a, P) /\ o \notin Spent(a, Q) /\ o \notin Debits(a, h, V)
          BY <1>3, <3>2
        <4>3. /\ o \in OutsOf(a, P) <=> AddrOf[o] = a /\ BlockOf[TxOf[o]] < h
              /\ o \in OutsOf(a, Q) <=> AddrOf[o] = a /\ BlockOf[TxOf[o]] <= h
              /\ o \in Credits(a, h) <=> AddrOf[o] = a /\ BlockOf[TxOf[o]] = h
          BY <1>2
        <4> QED
          BY <3>1, <4>1, <4>2, <4>3
      <3>3. CASE SpentBy[o] # Unspent
        <4>1. /\ BlockOf[TxOf[o]] \in Nat /\ BlockOf[SpentBy[o]] \in Nat /\ h \in Nat
              /\ BlockOf[TxOf[o]] <= BlockOf[SpentBy[o]]
          BY <1>1, <3>3, BlocksOfOutput
        <4>2. /\ o \in OutsOf(a, P) <=> AddrOf[o] = a /\ BlockOf[TxOf[o]] < h
              /\ o \in OutsOf(a, Q) <=> AddrOf[o] = a /\ BlockOf[TxOf[o]] <= h
              /\ o \in Credits(a, h) <=> AddrOf[o] = a /\ BlockOf[TxOf[o]] = h
          BY <1>2
        <4>3. /\ o \in Spent(a, P) <=> AddrOf[o] = a /\ BlockOf[SpentBy[o]] < h
              /\ o \in Spent(a, Q) <=> AddrOf[o] = a /\ BlockOf[SpentBy[o]] <= h
              /\ o \in Debits(a, h, V) <=> AddrOf[o] = a /\ BlockOf[SpentBy[o]] = h
          BY <1>3, <3>3
        <4> QED
          BY <3>1, <4>1, <4>2, <4>3
      <3> QED
        BY <3>2, <3>3
    <2> QED
      BY <1>4, <2>1 DEF Live
  <1>8. TxsAt(a, P) \cap DeltaTxs(a, h, V) = {}
    <2>1. \A t \in TxsAt(a, P) : BlockOf[t] \in Nat /\ BlockOf[t] < h
      BY <1>2, <1>3, <1>4, BlocksOfOutput DEF TxsAt
    <2>2. \A t \in DeltaTxs(a, h, V) : BlockOf[t] = h
      BY <1>2, <1>3, <1>4 DEF DeltaTxs
    <2> QED
      BY <1>1, <2>1, <2>2
  <1>9. OutsOf(a, Q) = OutsOf(a, P) \cup Credits(a, h)
    BY <1>1, <1>2, <1>4, BlocksOfOutput
  <1>10. Spent(a, Q) = Spent(a, P) \cup Debits(a, h, V)
    <2>1. ASSUME NEW o \in Out PROVE o \in Spent(a, Q) <=> o \in Spent(a, P) \/ o \in Debits(a, h, V)
      BY <1>1, <1>3, BlocksOfOutput
    <2> QED
      BY <1>4, <2>1
  <1>11. TxsAt(a, Q) = TxsAt(a, P) \cup DeltaTxs(a, h, V)
    BY <1>9, <1>10 DEF TxsAt, DeltaTxs
  <1> QED
    BY <1>5, <1>6, <1>7, <1>8, <1>11

LEMMA ImageFinite ==
  ASSUME NEW f, NEW S, IsFiniteSet(S)
  PROVE  IsFiniteSet({f[x] : x \in S})
  <1> DEFINE Im(T) == {f[x] : x \in T}
             Bad == {T \in SUBSET S : ~IsFiniteSet(Im(T))}
  <1>1. Bad = {}
    <2> SUFFICES ASSUME Bad # {} PROVE FALSE
      OBVIOUS
    <2>1. PICK T \in Bad : \A U \in Bad : U \subseteq T => U = T
      <3>1. Bad \in SUBSET (SUBSET S)
        OBVIOUS
      <3> HIDE DEF Bad
      <3> QED
        BY <3>1, SmallestSubset
    <2>2. Im({}) = {} /\ IsFiniteSet({})
      BY FS_EmptySet
    <2>3. T # {}
      BY <2>1, <2>2
    <2>4. PICK x : x \in T
      BY <2>3
    <2>5. T \ {x} \in SUBSET S /\ T \ {x} \notin Bad
      BY <2>1, <2>4
    <2>6. IsFiniteSet(Im(T \ {x}))
      BY <2>5
    <2>7. Im(T) = Im(T \ {x}) \cup {f[x]}
      BY <2>4
    <2>8. ~IsFiniteSet(Im(T))
      BY <2>1
    <2> HIDE DEF Im, Bad
    <2> QED
      BY <2>6, <2>7, <2>8, FS_AddElement
  <1> QED
    BY <1>1

LEMMA FiniteParts ==
  ASSUME NEW a, NEW H, NEW h, NEW V
  PROVE  /\ Live(a, H) \in SUBSET Out /\ Credits(a, h) \in SUBSET Out /\ Debits(a, h, V) \in SUBSET Out
         /\ IsFiniteSet(Live(a, H)) /\ IsFiniteSet(Credits(a, h)) /\ IsFiniteSet(Debits(a, h, V))
         /\ IsFiniteSet(TxsAt(a, H)) /\ IsFiniteSet(DeltaTxs(a, h, V))
  <1>1. /\ OutsOf(a, H) \in SUBSET Out /\ Spent(a, H) \in SUBSET Out /\ Live(a, H) \in SUBSET Out
        /\ Credits(a, h) \in SUBSET Out /\ Debits(a, h, V) \in SUBSET Out
    BY DEF OutsOf, Spent, SpentOf, Live, Credits, Debits
  <1>2. \A S \in SUBSET Out : IsFiniteSet(S)
    BY ScanAssumption, FS_Subset
  <1>3. \A S \in SUBSET Out : IsFiniteSet({TxOf[o] : o \in S}) /\ IsFiniteSet({SpentBy[o] : o \in S})
    <2>1. ASSUME NEW S \in SUBSET Out
          PROVE  IsFiniteSet({TxOf[o] : o \in S}) /\ IsFiniteSet({SpentBy[o] : o \in S})
      <3>1. IsFiniteSet(S)
        BY <1>2
      <3>2. IsFiniteSet({TxOf[o] : o \in S})
        BY <3>1, ImageFinite
      <3>3. IsFiniteSet({SpentBy[o] : o \in S})
        BY <3>1, ImageFinite
      <3> QED
        BY <3>2, <3>3
    <2> QED
      BY <2>1
  <1>4. IsFiniteSet(TxsAt(a, H))
    BY <1>1, <1>3, FS_Union DEF TxsAt
  <1>5. IsFiniteSet(DeltaTxs(a, h, V))
    BY <1>1, <1>3, FS_Union DEF DeltaTxs
  <1> QED
    BY <1>1, <1>2, <1>4, <1>5

\* The delta of the next height makes the balances those of one block more:
\* nothing it takes away is missing, so the clamp at 0 does nothing.
LEMMA DeltaIsExact ==
  ASSUME NEW a \in Addr, NEW h \in Height, NEW P, P = Below(h),
         NEW Q, Q = P \cup {h}, NEW V, Q \subseteq V, watch[a] = Exact(a, P)
  PROVE  ScanDelta(h, V)[a] = Exact(a, Q)
  <1> DEFINE L == Live(a, P)
             C == Credits(a, h)
             D == Debits(a, h, V)
             T == TxsAt(a, P)
             N == DeltaTxs(a, h, V)
  <1>1. /\ L \cap C = {} /\ D \subseteq L \cup C /\ Live(a, Q) = (L \cup C) \ D
        /\ T \cap N = {} /\ TxsAt(a, Q) = T \cup N
    BY NextBlock
  <1>2. /\ L \in SUBSET Out /\ C \in SUBSET Out /\ D \in SUBSET Out
        /\ IsFiniteSet(L) /\ IsFiniteSet(C) /\ IsFiniteSet(D) /\ IsFiniteSet(T) /\ IsFiniteSet(N)
    BY FiniteParts
  <1>3. watch[a] = [balance |-> Sats(L), utxos |-> Cardinality(L), txs |-> Cardinality(T)]
    BY ExactIs
  <1>4. Exact(a, Q) = [balance |-> Sats((L \cup C) \ D), utxos |-> Cardinality((L \cup C) \ D),
                       txs |-> Cardinality(T \cup N)]
    BY <1>1, ExactIs
  <1>5. ScanDelta(h, V)[a] =
          [balance |-> Greatest0(watch[a].balance + Sats(C) - Sats(D)),
           utxos |-> Greatest0(watch[a].utxos + Cardinality(C) - Cardinality(D)),
           txs |-> watch[a].txs + Cardinality(N)]
    BY DEF ScanDelta
  <1> HIDE DEF L, C, D, T, N
  <1>6. Sats((L \cup C) \ D) = Sats(L) + Sats(C) - Sats(D) /\ Sats((L \cup C) \ D) \in Nat
    <2>1. Sats(L \cup C) = Sats(L) + Sats(C)
      BY <1>1, <1>2, SatsUnion
    <2>2. L \cup C \in SUBSET Out /\ D \in SUBSET (L \cup C)
      BY <1>1, <1>2
    <2>3. Sats((L \cup C) \ D) = Sats(L \cup C) - Sats(D) /\ Sats((L \cup C) \ D) \in Nat
      BY <2>2, SatsWithout
    <2> DEFINE LC == L \cup C
               E == LC \ D
    <2>4. Sats(LC) = Sats(L) + Sats(C) /\ Sats(E) = Sats(LC) - Sats(D) /\ Sats(E) \in Nat
      BY <2>1, <2>3
    <2>5. Sats(L) \in Nat /\ Sats(C) \in Nat /\ Sats(D) \in Nat
      BY <1>2, SatsType
    <2> HIDE DEF LC, E
    <2>6. Sats(E) = Sats(L) + Sats(C) - Sats(D) /\ Sats(E) \in Nat
      BY <2>4, <2>5
    <2> QED
      BY <2>6 DEF LC, E
  <1>7. /\ Cardinality((L \cup C) \ D) = Cardinality(L) + Cardinality(C) - Cardinality(D)
        /\ Cardinality((L \cup C) \ D) \in Nat
    <2>1. /\ Cardinality(L \cup C) = Cardinality(L) + Cardinality(C) - Cardinality(L \cap C)
          /\ IsFiniteSet(L \cup C)
      BY <1>2, FS_Union
    <2>2. Cardinality(L \cap C) = 0
      BY <1>1, FS_EmptySet
    <2>3. /\ IsFiniteSet((L \cup C) \ D)
          /\ Cardinality((L \cup C) \ D) = Cardinality(L \cup C) - Cardinality((L \cup C) \cap D)
      BY <2>1, FS_Difference
    <2>4. (L \cup C) \cap D = D
      BY <1>1
    <2>5. Cardinality(L) \in Nat /\ Cardinality(C) \in Nat /\ Cardinality(D) \in Nat
          /\ Cardinality((L \cup C) \ D) \in Nat
      BY <1>2, <2>3, FS_CardinalityType
    <2>6. Cardinality((L \cup C) \cap D) = Cardinality(D)
      BY <2>4
    <2> DEFINE LC == L \cup C
               E == LC \ D
               none == L \cap C
               both == LC \cap D
    <2>7. /\ Cardinality(LC) = Cardinality(L) + Cardinality(C) - Cardinality(none)
          /\ Cardinality(none) = 0 /\ Cardinality(E) = Cardinality(LC) - Cardinality(both)
          /\ Cardinality(both) = Cardinality(D) /\ Cardinality(E) \in Nat
      BY <2>1, <2>2, <2>3, <2>5, <2>6
    <2> HIDE DEF LC, E, none, both
    <2>8. /\ Cardinality(E) = Cardinality(L) + Cardinality(C) - Cardinality(D)
          /\ Cardinality(E) \in Nat
      BY <2>5, <2>7
    <2> QED
      BY <2>8 DEF LC, E
  <1>8. Cardinality(T \cup N) = Cardinality(T) + Cardinality(N)
    <2>1. Cardinality(T \cup N) = Cardinality(T) + Cardinality(N) - Cardinality(T \cap N)
      BY <1>2, FS_Union
    <2>2. Cardinality(T \cap N) = 0
      BY <1>1, FS_EmptySet
    <2>3. Cardinality(T) \in Nat /\ Cardinality(N) \in Nat
      BY <1>2, FS_CardinalityType
    <2> QED
      BY <2>1, <2>2, <2>3
  <1>9. \A n \in Nat : Greatest0(n) = n
    BY DEF Greatest0
  <1>10. /\ watch[a].balance + Sats(C) - Sats(D) = Sats((L \cup C) \ D)
         /\ watch[a].utxos + Cardinality(C) - Cardinality(D) = Cardinality((L \cup C) \ D)
         /\ watch[a].txs + Cardinality(N) = Cardinality(T \cup N)
    BY <1>3, <1>6, <1>7, <1>8
  <1> QED
    BY <1>4, <1>5, <1>6, <1>7, <1>9, <1>10

-----------------------------------------------------------------------------
(* The balances while deltas go in in height order.                        *)

Nothing == [balance |-> 0, utxos |-> 0, txs |-> 0]

\* The blocks whose outputs are in.
WithOutputs == stored \cup half

\* Only extracted blocks are scanned or on their way.
OfStored ==
  /\ Scanned \subseteq stored
  /\ \A w \in Worker : Holds(w) \subseteq stored

\* An address without outputs, which recompute-balances leaves alone, has nothing.
AbsentHasNothing == \A a \in Addr : OutsOf(a, WithOutputs) = {} => watch[a] = Nothing

\* A statement under way has seen what was there, and no rows are ever taken away.
SeenByDelta ==
  \A w \in Worker : /\ view[w] \subseteq WithOutputs
                    /\ at[w] = "writing" => job[w] \in view[w]
SeenByRecompute ==
  \A r \in recomputes :
    /\ r.outs \subseteq WithOutputs
    /\ \A a \in Addr : OutsOf(a, r.outs) = {} => r.before[a] = Nothing

BalanceInv == OfStored /\ SeenByDelta /\ SeenByRecompute /\ AbsentHasNothing /\ OrderlyIsExact

LEMMA ExactOfNone ==
  ASSUME NEW a, NEW H, OutsOf(a, H) = {}
  PROVE  Exact(a, H) = Nothing
  <1>1. Live(a, H) = {} /\ TxsAt(a, H) = {}
    BY DEF Live, TxsAt, Spent, SpentOf
  <1>2. Sats({}) = 0 /\ Cardinality({}) = 0
    BY SatsType, FS_EmptySet
  <1> QED
    BY <1>1, <1>2, ExactIs DEF Nothing

LEMMA DeltaOfNone ==
  ASSUME NEW a \in Addr, NEW h \in WithOutputs, OutsOf(a, WithOutputs) = {}, watch[a] = Nothing,
         NEW V, V \subseteq WithOutputs
  PROVE  ScanDelta(h, V)[a] = Nothing
  <1>1. Credits(a, h) = {} /\ Debits(a, h, V) = {} /\ DeltaTxs(a, h, V) = {}
    BY DEF Credits, Debits, DeltaTxs, OutsOf
  <1>2. Sats({}) = 0 /\ Cardinality({}) = 0
    BY SatsType, FS_EmptySet
  <1>3. ScanDelta(h, V)[a] = [balance |-> Greatest0(0 + 0 - 0), utxos |-> Greatest0(0 + 0 - 0),
                              txs |-> 0 + 0]
    BY <1>1, <1>2 DEF ScanDelta, Nothing
  <1> QED
    BY <1>3 DEF Greatest0, Nothing

\* A claim takes rows whose block is extracted (_READY_WHERE).
LEMMA ClaimTakesStored ==
  ASSUME NEW w \in Worker, Claim(w)
  PROVE  \E H \in SUBSET stored : todo' = [todo EXCEPT ![w] = H]
  <1> DEFINE C == Claimable(addr, stored)
  <1>1. C \subseteq stored /\ Lowest(C, Batch) \subseteq C
    BY DEF Claimable, WithStatus, Lowest
  <1>2. PICK H \in IF Cardinality(Worker) = 1 THEN {Lowest(C, Batch)} ELSE SUBSET C :
          todo' = [todo EXCEPT ![w] = H]
    BY DEF Claim
  <1> QED
    BY <1>1, <1>2

\* One delta goes in.
LEMMA DeltaKeeps ==
  ASSUME Fields, BalanceInv, NEW w \in Worker, at[w] = "writing",
         watch' = ScanDelta(job[w], view[w]), Count(w, job[w]), UNCHANGED <<stored, half>>
  PROVE  Scanned' \subseteq stored' /\ AbsentHasNothing' /\ OrderlyIsExact'
  <1> DEFINE h == job[w]
             V == view[w]
  <1>1. /\ h \in Height /\ applied' = [applied EXCEPT ![h] = @ + 1] /\ applied \in [Height -> Nat]
        /\ h \in V /\ V \subseteq WithOutputs /\ h \in stored
    BY NoJobIsNoHeight DEF Count, Fields, BalanceInv, SeenByDelta, OfStored, Holds
  <1>2. watch' = ScanDelta(h, V) /\ (orderly' => orderly /\ Scanned = Below(h) /\ Below(h) \subseteq V)
    BY DEF Count
  <1> HIDE DEF h, V
  <1>3. Scanned' = Scanned \cup {h}
    BY <1>1 DEF Scanned
  <1>4. Scanned' \subseteq stored'
    BY <1>1, <1>3 DEF BalanceInv, OfStored
  <1>5. AbsentHasNothing'
    <2>1. ASSUME NEW a \in Addr, OutsOf(a, WithOutputs) = {} PROVE ScanDelta(h, V)[a] = Nothing
      BY <1>1, <2>1, DeltaOfNone DEF BalanceInv, AbsentHasNothing, WithOutputs
    <2>2. \A a \in Addr : OutsOf(a, WithOutputs)' = OutsOf(a, WithOutputs)
      BY DEF OutsOf, WithOutputs
    <2>3. Nothing' = Nothing
      BY DEF Nothing
    <2> QED
      BY <1>2, <2>1, <2>2, <2>3 DEF AbsentHasNothing
  <1>6. ASSUME orderly', NEW a \in Addr PROVE watch'[a] = Exact(a, Scanned')
    <2>1. orderly /\ Scanned = Below(h) /\ Below(h) \subseteq V
      BY <1>2, <1>6
    <2>2. watch[a] = Exact(a, Below(h))
      BY <2>1 DEF BalanceInv, OrderlyIsExact
    <2>3. Below(h) \cup {h} \subseteq V /\ Scanned' = Below(h) \cup {h}
      BY <1>1, <1>3, <2>1
    <2>4. ScanDelta(h, V)[a] = Exact(a, Below(h) \cup {h})
      BY <1>1, <2>2, <2>3, DeltaIsExact
    <2> QED
      BY <1>2, <2>3, <2>4
  <1>7. OrderlyIsExact'
    BY <1>6 DEF OrderlyIsExact, Exact, Aggregate, OutsOf, SpentOf
  <1> QED
    BY <1>4, <1>5, <1>7

LEMMA InitBalance == Init => BalanceInv
  <1> SUFFICES ASSUME Init PROVE BalanceInv
    OBVIOUS
  <1>1. Scanned = {} /\ OfStored /\ AbsentHasNothing /\ SeenByDelta /\ SeenByRecompute
    BY NoJobIsNoHeight DEF Init, Scanned, OfStored, AbsentHasNothing, SeenByDelta, SeenByRecompute, Nothing, Holds
  <1>2. \A a \in Addr : OutsOf(a, {}) = {} /\ watch[a] = Nothing
    BY DEF Init, OutsOf, Nothing
  <1>3. \A a \in Addr : watch[a] = Exact(a, {})
    BY <1>2, ExactOfNone
  <1> QED
    BY <1>1, <1>3 DEF BalanceInv, OrderlyIsExact

\* More rows, and the balances as they were.
LEMMA RowsGrow ==
  ASSUME BalanceInv, UNCHANGED <<watch, applied, orderly>>, stored \subseteq stored',
         WithOutputs \subseteq WithOutputs', \A w \in Worker : Holds(w)' \subseteq stored'
  PROVE  OfStored' /\ AbsentHasNothing' /\ OrderlyIsExact'
  <1>1. OfStored'
    BY DEF BalanceInv, OfStored, Scanned
  <1>2. \A a \in Addr : OutsOf(a, WithOutputs)' = {} => OutsOf(a, WithOutputs) = {}
    BY DEF OutsOf
  <1>3. AbsentHasNothing'
    BY <1>2 DEF BalanceInv, AbsentHasNothing, Nothing
  <1>4. OrderlyIsExact'
    BY DEF BalanceInv, OrderlyIsExact, Scanned, Exact, Aggregate, OutsOf, SpentOf
  <1> QED
    BY <1>1, <1>3, <1>4

\* Rows are never taken away.
LEMMA OutputsGrow ==
  ASSUME [Next]_vars
  PROVE  stored \subseteq stored' /\ WithOutputs \subseteq WithOutputs'
  BY DEF WithOutputs, Next, vars, blocks, ExtractOutputs, Extract, WorkerStep, Claim, Begin,
         BeginDelta, Scan, ScanUnseen, Fail, MarkFailed, MarkFailedLost, Die, Reset, Requeue,
         BeginRecompute, EndRecompute, LoseRecompute

LEMMA SeenByDeltaStep ==
  ASSUME Fields, BalanceInv, [Next]_vars
  PROVE  SeenByDelta'
  <1>1. WithOutputs \subseteq WithOutputs'
    BY OutputsGrow
  <1>2. ASSUME UNCHANGED <<at, job, view>> PROVE SeenByDelta'
    BY <1>1, <1>2 DEF BalanceInv, SeenByDelta
  <1>3. ASSUME NEW w \in Worker, Claim(w) \/ Begin(w) PROVE SeenByDelta'
    BY <1>1, <1>3 DEF Claim, Begin, BalanceInv, SeenByDelta, Fields
  <1>4. ASSUME NEW w \in Worker, BeginDelta(w) PROVE SeenByDelta'
    <2>1. job[w] \in WithOutputs
      BY <1>4, NoJobIsNoHeight DEF BeginDelta, BalanceInv, OfStored, Holds, Fields, WithOutputs
    <2>2. UNCHANGED <<job, WithOutputs>> /\ view' = [view EXCEPT ![w] = WithOutputs]
          /\ at' = [at EXCEPT ![w] = "writing"]
      BY <1>4 DEF BeginDelta, blocks, WithOutputs
    <2> QED
      BY <2>1, <2>2 DEF BalanceInv, SeenByDelta, Fields
  <1>5. ASSUME NEW w \in Worker, NEW place \in {"idle", "holding", "erred"}, Leave(w, place),
               \A v \in Worker : v # w => job'[v] = job[v]
        PROVE  SeenByDelta'
    BY <1>1, <1>5 DEF Leave, BalanceInv, SeenByDelta, Fields
  <1>6. ASSUME NEW w \in Worker, Scan(w) \/ MarkFailed(w) \/ MarkFailedLost(w) PROVE SeenByDelta'
    <2> DEFINE place == IF todo[w] = {} THEN "idle" ELSE "holding"
    <2>1. Leave(w, place) /\ job' = [job EXCEPT ![w] = NoJob] /\ place \in {"idle", "holding", "erred"}
      BY <1>6 DEF Scan, MarkFailed, MarkFailedLost, NextJob
    <2> HIDE DEF place
    <2> QED
      BY <1>5, <2>1 DEF Fields
  <1>7. ASSUME NEW w \in Worker, ScanUnseen(w) \/ Fail(w) PROVE SeenByDelta'
    <2>1. Leave(w, "erred") /\ job' = job
      BY <1>7 DEF ScanUnseen, Fail
    <2> QED
      BY <1>5, <2>1
  <1>8. ASSUME NEW w \in Worker, Die(w) PROVE SeenByDelta'
    <2>1. Leave(w, "idle") /\ job' = [job EXCEPT ![w] = NoJob]
      BY <1>8 DEF Die
    <2> QED
      BY <1>5, <2>1 DEF Fields
  <1> QED
    BY <1>2, <1>3, <1>4, <1>6, <1>7, <1>8
    DEF Next, WorkerStep, vars, workers, ExtractOutputs, Extract, Reset, Requeue, BeginRecompute,
        EndRecompute, LoseRecompute

LEMMA SeenByRecomputeStep ==
  ASSUME BalanceInv, [Next]_vars
  PROVE  SeenByRecompute'
  <1>1. WithOutputs \subseteq WithOutputs'
    BY OutputsGrow
  <1>2. ASSUME recomputes' \subseteq recomputes PROVE SeenByRecompute'
    <2>1. \A r \in recomputes' : \A a \in Addr : OutsOf(a, r.outs)' = OutsOf(a, r.outs)
      BY DEF OutsOf
    <2> QED
      BY <1>1, <1>2 DEF BalanceInv, SeenByRecompute, OutsOf, Nothing
  <1>3. CASE BeginRecompute
    <2> DEFINE r == [no |-> faults, spends |-> stored, outs |-> stored \cup half, before |-> watch]
    <2>1. recomputes' = recomputes \cup {r}
      BY <1>3 DEF BeginRecompute
    <2>2. r.outs \subseteq WithOutputs /\ \A a \in Addr : OutsOf(a, r.outs) = {} => r.before[a] = Nothing
      BY DEF BalanceInv, AbsentHasNothing, WithOutputs
    <2> HIDE DEF r
    <2> QED
      BY <1>1, <2>1, <2>2 DEF BalanceInv, SeenByRecompute, OutsOf, Nothing
  <1> QED
    BY <1>2, <1>3
    DEF Next, WorkerStep, vars, ExtractOutputs, Extract, Claim, Begin, BeginDelta, Scan, ScanUnseen,
        Fail, MarkFailed, MarkFailedLost, Die, Reset, Requeue, EndRecompute, LoseRecompute

\* A recomputation commits.
LEMMA RecomputeKeeps ==
  ASSUME Fields, BalanceInv, EndRecompute
  PROVE  OfStored' /\ AbsentHasNothing' /\ OrderlyIsExact'
  <1>1. PICK r \in recomputes :
          /\ watch' = Recomputed(r)
          /\ orderly' = (r.outs = r.spends /\ Scanned = r.spends /\ watch = r.before)
    BY DEF EndRecompute
  <1>2. UNCHANGED <<stored, half, applied, todo, job>>
    BY DEF EndRecompute, blocks, workers
  <1>3. OfStored' /\ Scanned' = Scanned
    BY <1>2 DEF BalanceInv, OfStored, Scanned, Holds
  <1>4. \A a \in Addr : watch'[a] = IF OutsOf(a, r.outs) = {} THEN watch[a]
                                    ELSE Aggregate(a, r.outs, r.spends)
    BY <1>1 DEF Recomputed
  <1>5. r.outs \subseteq WithOutputs /\ \A a \in Addr : OutsOf(a, r.outs) = {} => r.before[a] = Nothing
    BY DEF BalanceInv, SeenByRecompute
  <1>6. AbsentHasNothing'
    <2>1. \A a \in Addr : /\ OutsOf(a, WithOutputs)' = OutsOf(a, WithOutputs)
                          /\ OutsOf(a, WithOutputs) = {} => OutsOf(a, r.outs) = {}
      BY <1>2, <1>5 DEF OutsOf, WithOutputs
    <2> QED
      BY <1>4, <2>1 DEF BalanceInv, AbsentHasNothing, Nothing
  <1>7. ASSUME orderly', NEW a \in Addr PROVE watch'[a] = Exact(a, Scanned')
    <2>1. r.outs = Scanned /\ r.spends = Scanned /\ watch = r.before
      BY <1>1, <1>7
    <2>2. CASE OutsOf(a, Scanned) = {}
      BY <1>3, <1>4, <1>5, <2>1, <2>2, ExactOfNone
    <2>3. CASE OutsOf(a, Scanned) # {}
      BY <1>3, <1>4, <2>1, <2>3 DEF Exact
    <2> QED
      BY <2>2, <2>3
  <1>8. OrderlyIsExact'
    BY <1>7 DEF OrderlyIsExact, Exact, Aggregate, OutsOf, SpentOf
  <1> QED
    BY <1>3, <1>6, <1>8

LEMMA BalanceStep ==
  ASSUME Fields, BalanceInv, [Next]_vars
  PROVE  OfStored' /\ AbsentHasNothing' /\ OrderlyIsExact'
  <1> USE NoJobIsNoHeight
  <1> DEFINE Goal == OfStored' /\ AbsentHasNothing' /\ OrderlyIsExact'
  <1>0. stored \subseteq stored' /\ WithOutputs \subseteq WithOutputs'
    BY OutputsGrow
  <1>1. ASSUME UNCHANGED <<watch, applied, orderly>>,
               \A w \in Worker : Holds(w)' \subseteq Holds(w) \cup stored
        PROVE  Goal
    BY <1>0, <1>1, RowsGrow DEF BalanceInv, OfStored
  <1>2. ASSUME NEW w \in Worker, Claim(w) PROVE Goal
    <2>1. PICK H \in SUBSET stored : todo' = [todo EXCEPT ![w] = H]
      BY <1>2, ClaimTakesStored
    <2>2. UNCHANGED <<job, watch, applied, orderly>>
      BY <1>2 DEF Claim, history
    <2>3. \A v \in Worker : Holds(v)' \subseteq Holds(v) \cup stored
      BY <2>1, <2>2 DEF Holds, Fields
    <2> QED
      BY <1>1, <2>2, <2>3
  <1>3. ASSUME NEW w \in Worker, Begin(w) PROVE Goal
    <2>1. PICK h \in todo[w] : /\ todo' = [todo EXCEPT ![w] = @ \ {h}]
                               /\ job' = [job EXCEPT ![w] = h]
      BY <1>3 DEF Begin
    <2>2. UNCHANGED <<watch, applied, orderly>>
      BY <1>3 DEF Begin, history
    <2>3. \A v \in Worker : Holds(v)' \subseteq Holds(v)
      BY <2>1 DEF Holds, Fields
    <2> QED
      BY <1>1, <2>2, <2>3
  <1>4. ASSUME NEW w \in Worker, Scan(w) \/ ScanUnseen(w) PROVE Goal
    <2>1. at[w] = "writing" /\ watch' = ScanDelta(job[w], view[w]) /\ Count(w, job[w])
          /\ UNCHANGED <<stored, half>>
      BY <1>4 DEF Scan, ScanUnseen, ApplyDelta, blocks
    <2>2. Scanned' \subseteq stored' /\ AbsentHasNothing' /\ OrderlyIsExact'
      BY <2>1, DeltaKeeps
    <2>3. \A v \in Worker : Holds(v)' \subseteq Holds(v)
      BY <1>4 DEF Scan, ScanUnseen, NextJob, Holds, Fields
    <2> QED
      BY <2>1, <2>2, <2>3 DEF BalanceInv, OfStored
  <1>5. ASSUME NEW w \in Worker, Fail(w) \/ MarkFailed(w) \/ MarkFailedLost(w) \/ Die(w)
        PROVE  Goal
    <2>1. UNCHANGED <<watch, applied, orderly>>
      BY <1>5 DEF Fail, MarkFailed, MarkFailedLost, Die, history
    <2>2. \A v \in Worker : Holds(v)' \subseteq Holds(v)
      BY <1>5 DEF Fail, MarkFailed, MarkFailedLost, Die, NextJob, Holds, Fields
    <2> QED
      BY <1>1, <2>1, <2>2
  <1>6. ASSUME UNCHANGED <<watch, applied, orderly, todo, job>> PROVE Goal
    <2>1. \A v \in Worker : Holds(v)' \subseteq Holds(v) \cup stored
      BY <1>6 DEF Holds
    <2>2. UNCHANGED <<watch, applied, orderly>>
      BY <1>6
    <2> QED
      BY <1>1, <2>1, <2>2
  <1>7. ASSUME EndRecompute PROVE Goal
    BY <1>7, RecomputeKeeps
  <1> HIDE DEF Goal
  <1>8. Goal
    BY <1>2, <1>3, <1>4, <1>5, <1>6, <1>7
    DEF Next, WorkerStep, vars, workers, history, BeginDelta, ExtractOutputs, Extract, Reset, Requeue,
        BeginRecompute, LoseRecompute
  <1> QED
    BY <1>8 DEF Goal

\* Where deltas go in in height order, each begun when the blocks below are in,
\* and again from a recomputation that saw the scanned blocks and no others and had
\* the balances for itself, the balances are those of the blocks scanned, not a
\* satoshi, an output or a transaction more or less, and GREATEST(0, ...) never
\* cuts (README:149-150, cli.py:313).
THEOREM OrderlyBalancesExact == Spec => []OrderlyIsExact
  <1>1. IInv /\ BalanceInv /\ [Next]_vars => BalanceInv'
    BY BalanceStep, SeenByDeltaStep, SeenByRecomputeStep DEF IInv, BalanceInv
  <1>2. BalanceInv => OrderlyIsExact
    BY DEF BalanceInv
  <1> QED
    BY <1>1, <1>2, InitBalance, Invariance, PTL DEF Spec
=============================================================================
