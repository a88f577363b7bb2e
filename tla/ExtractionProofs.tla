-------------------------- MODULE ExtractionProofs --------------------------
(***************************************************************************)
(* Proofs about Extraction for every chain, every number of workers and    *)
(* every number of faults.                                                 *)
(*                                                                         *)
(* The invariant Good speaks of one state of the tables.  It holds of the  *)
(* committed tables and of what a server crash leaves, since it is kept by *)
(* each of the four things a transaction can do to the tables: store a     *)
(* block, complete its inputs, mark a block skipped, or take statuses away *)
(* from done (a claim, a failure, a reset, a requeue).                     *)
(***************************************************************************)
EXTENDS Extraction, BlockJobsProofs

\* The totals of transactions, each the sum of inputs that are there as rows.
TotalsGood(d) ==
  \A t \in Tx : /\ d.tin[t] \subseteq Prevouts[t] \cap d.in
                /\ d.tin[t] # {} => t \in d.tx

\* Top_up made a row for every height, no row goes.
HasRows(d) == \A h \in Height : d.vout[h] # "absent"

Good(d) ==
  /\ HasRows(d)
  /\ \A h \in Height : TxsOf[h] \cap d.tx # {} => Stored(d, h)
  /\ \A h \in Height : d.vout[h] = "done" => Stored(d, h)
  /\ \A h \in Height : d.vin[h] = "done" => Spends[h] \subseteq d.spend
  /\ TotalsGood(d)

\* A worker that has marked a block skipped knows that it has no inputs.
SkipsRightly ==
  \A w \in Worker : at[w] = "skipping" => Features(job[w]) = "none"

IInv == TypeOK /\ Good(db) /\ Good(disk) /\ SkipsRightly

-----------------------------------------------------------------------------
\* The four kinds of change to the tables.

\* e has the rows of d, and reports no block done that d does not.
Weaker(d, e) ==
  /\ e \in Tables
  /\ e.tx = d.tx /\ e.tin = d.tin /\ e.out = d.out /\ e.in = d.in /\ e.spend = d.spend
  /\ \A h \in Height : e.vout[h] = "absent" => d.vout[h] = "absent"
  /\ \A h \in Height : e.vout[h] = "done" => d.vout[h] = "done"
  /\ \A h \in Height : e.vin[h] = "done" => d.vin[h] = "done"

\* The block data of the chain: what parse_block finds consists of rows.
LEMMA ChainTypes ==
  /\ TxsOf \in [Height -> SUBSET Tx]
  /\ OutRows \in [Height -> SUBSET Out]
  /\ Spends \in [Height -> SUBSET Out]
  /\ Prevouts \in [Tx -> SUBSET Out]
  /\ InRows \in [Height -> SUBSET Out]
  BY ExtractionAssumption DEF TxsOf, OutRows, Spends, Prevouts, InRows

\* The inputs of a transaction are inputs of its block; a transaction is in
\* one block only.
LEMMA ChainFacts ==
  /\ \A t \in Tx : BlockOf[t] \in Height /\ Prevouts[t] \subseteq InRows[BlockOf[t]]
  /\ \A h \in Height, t \in Tx : t \in TxsOf[h] <=> BlockOf[t] = h
  BY ExtractionAssumption DEF TxsOf, Prevouts, InRows

\* Taking statuses away from done keeps the tables good (jobs.py, cli.py).
LEMMA GoodWeaker ==
  ASSUME NEW d \in Tables, NEW e, Weaker(d, e), Good(d)
  PROVE  Good(e)
  BY DEF Good, HasRows, Weaker, Stored, TotalsGood

\* e is d with block h stored, v saying whether with its prevouts.
IsExtracted(d, e, h, v) ==
  /\ e \in Tables
  /\ e.tx = d.tx \cup TxsOf[h]
  /\ e.tin = UpsertTotals(d.tin, h, v)
  /\ e.out = d.out \cup OutRows[h]
  /\ v => e.in = d.in \cup InRows[h]
  /\ ~v => e.in = d.in
  /\ e.spend = d.spend \cup Spends[h]
  /\ \A k \in Height : e.vout[k] = IF k = h /\ d.vout[k] # "absent" THEN "done" ELSE d.vout[k]
  /\ \A k \in Height : e.vin[k] = "done" => k = h \/ d.vin[k] = "done"

\* That is what the transaction of extract makes of d.
LEMMA ExtractedType ==
  ASSUME NEW d \in Tables, NEW h \in Height, NEW v \in BOOLEAN
  PROVE  IsExtracted(d, Extracted(d, h, v), h, v)
  <1>1. /\ d.vout \in Columns(Height) /\ d.vin \in Columns(Height)
        /\ "done" \in JobStatus
    BY DEF Tables, Columns, JobStatus
  <1>2. /\ Mark(d.vout, {h}, "done") \in [Height -> JobStatus]
        /\ \A k \in Height : Mark(d.vout, {h}, "done")[k] =
                                IF k = h /\ d.vout[k] # "absent" THEN "done" ELSE d.vout[k]
    BY <1>1, MarkColumn DEF Columns
  <1>3. /\ Mark(d.vin, {h}, "done") \in [Height -> JobStatus]
        /\ \A k \in Height : Mark(d.vin, {h}, "done")[k] = "done" => k = h \/ d.vin[k] = "done"
    BY <1>1, MarkColumn DEF Columns
  <1>4. UpsertTotals(d.tin, h, v) \in [Tx -> SUBSET Out]
    BY ChainTypes DEF UpsertTotals, Tables
  <1> QED  BY <1>2, <1>3, <1>4, ChainTypes DEF Extracted, Tables, IsExtracted

\* Storing a block keeps the tables good, whatever was there before.
LEMMA GoodExtracted ==
  ASSUME NEW d \in Tables, NEW h \in Height, NEW v \in BOOLEAN, Good(d)
  PROVE  Extracted(d, h, v) \in Tables /\ Good(Extracted(d, h, v)) /\ Stored(Extracted(d, h, v), h)
  <1> DEFINE e == Extracted(d, h, v)
  <1>1. IsExtracted(d, e, h, v)
    BY ExtractedType
  <1> HIDE DEF e
  <1>2. Stored(e, h)
    BY <1>1 DEF Stored, IsExtracted
  <1>3. ASSUME NEW k \in Height, Stored(d, k)  PROVE Stored(e, k)
    BY <1>1, <1>3 DEF Stored, IsExtracted
  <1>4. \A k \in Height : TxsOf[k] \cap e.tx # {} => Stored(e, k)
    <2> SUFFICES ASSUME NEW k \in Height, NEW t \in Tx, t \in TxsOf[k], t \in e.tx
                 PROVE  Stored(e, k)
      BY ChainTypes
    <2>1. CASE t \in d.tx
      BY <2>1, <1>3 DEF Good
    <2>2. CASE t \in TxsOf[h]
      BY <2>2, <1>2, ChainFacts
    <2> QED  BY <2>1, <2>2, <1>1 DEF IsExtracted
  <1>5. \A k \in Height : e.vout[k] = "done" => Stored(e, k)
    BY <1>1, <1>2, <1>3 DEF Good, IsExtracted
  <1>6. \A k \in Height : e.vin[k] = "done" => Spends[k] \subseteq e.spend
    BY <1>1 DEF Good, IsExtracted
  <1>7. TotalsGood(e)
    <2> SUFFICES ASSUME NEW t \in Tx
                 PROVE  /\ e.tin[t] \subseteq Prevouts[t] \cap e.in
                        /\ e.tin[t] # {} => t \in e.tx
      BY DEF TotalsGood
    <2>1. CASE v /\ BlockOf[t] = h /\ Prevouts[t] # {}
      <3>1. e.tin[t] = Prevouts[t]
        BY <2>1, <1>1 DEF UpsertTotals, IsExtracted
      <3>2. t \in TxsOf[h] /\ Prevouts[t] \subseteq InRows[h]
        BY <2>1, ChainFacts
      <3> QED  BY <3>1, <3>2, <2>1, <1>1 DEF IsExtracted
    <2>2. CASE ~(v /\ BlockOf[t] = h /\ Prevouts[t] # {})
      <3>1. e.tin[t] = d.tin[t]
        BY <2>2, <1>1 DEF UpsertTotals, IsExtracted
      <3> QED  BY <3>1, <1>1 DEF Good, TotalsGood, IsExtracted
    <2> QED  BY <2>1, <2>2
  <1> QED  BY <1>1, <1>2, <1>4, <1>5, <1>6, <1>7 DEF Good, HasRows, IsExtracted, e

\* The transaction of backfill-vins has tables as its result.
LEMMA BackfilledType ==
  ASSUME NEW d \in Tables, NEW h \in Height, NEW S \in SUBSET Out
  PROVE  LET e == Backfilled(d, h, S)
         IN  /\ e \in Tables
             /\ e.tx = d.tx /\ e.out = d.out /\ e.vout = d.vout
             /\ e.tin = FillTotals(d, h, S)
             /\ e.in = d.in \cup S
             /\ e.spend = d.spend \cup Spends[h]
             /\ \A k \in Height : e.vin[k] = "done" => k = h \/ d.vin[k] = "done"
  <1>1. d.vin \in Columns(Height) /\ "done" \in JobStatus
    BY DEF Tables, Columns, JobStatus
  <1>2. /\ Mark(d.vin, {h}, "done") \in [Height -> JobStatus]
        /\ \A k \in Height : Mark(d.vin, {h}, "done")[k] = "done" => k = h \/ d.vin[k] = "done"
    BY <1>1, MarkColumn DEF Columns
  <1>3. FillTotals(d, h, S) \in [Tx -> SUBSET Out]
    BY ChainTypes DEF FillTotals, Tables
  <1> QED  BY <1>2, <1>3, ChainTypes DEF Backfilled, Tables

\* Completing the inputs of a block keeps the tables good.
LEMMA GoodBackfilled ==
  ASSUME NEW d \in Tables, NEW h \in Height, NEW S \in SUBSET Out, Good(d)
  PROVE  Backfilled(d, h, S) \in Tables /\ Good(Backfilled(d, h, S))
  <1> DEFINE e == Backfilled(d, h, S)
  <1>1. /\ e \in Tables
        /\ e.tx = d.tx /\ e.out = d.out /\ e.vout = d.vout
        /\ e.tin = FillTotals(d, h, S)
        /\ e.in = d.in \cup S
        /\ e.spend = d.spend \cup Spends[h]
        /\ \A k \in Height : e.vin[k] = "done" => k = h \/ d.vin[k] = "done"
    BY BackfilledType
  <1> HIDE DEF e
  <1>2. ASSUME NEW k \in Height, Stored(d, k)  PROVE Stored(e, k)
    BY <1>1, <1>2 DEF Stored
  <1>3. /\ \A k \in Height : TxsOf[k] \cap e.tx # {} => Stored(e, k)
        /\ \A k \in Height : e.vout[k] = "done" => Stored(e, k)
    BY <1>1, <1>2 DEF Good
  <1>4. \A k \in Height : e.vin[k] = "done" => Spends[k] \subseteq e.spend
    BY <1>1 DEF Good
  <1>5. TotalsGood(e)
    BY <1>1 DEF Good, TotalsGood, FillTotals
  <1> QED  BY <1>1, <1>3, <1>4, <1>5 DEF Good, HasRows, e

\* A change of one status column only, or of both, that reports nothing more
\* done, weakens the tables.
LEMMA WeakerVout ==
  ASSUME NEW d \in Tables, NEW x \in Columns(Height),
         \A h \in Height : x[h] = "absent" => d.vout[h] = "absent",
         \A h \in Height : x[h] = "done" => d.vout[h] = "done"
  PROVE  Weaker(d, [d EXCEPT !.vout = x])
  BY DEF Weaker, Columns, Tables

LEMMA WeakerVin ==
  ASSUME NEW d \in Tables, NEW y \in Columns(Height),
         \A h \in Height : y[h] = "done" => d.vin[h] = "done"
  PROVE  Weaker(d, [d EXCEPT !.vin = y])
  BY DEF Weaker, Columns, Tables

LEMMA WeakerBoth ==
  ASSUME NEW d \in Tables, NEW x \in Columns(Height), NEW y \in Columns(Height),
         \A h \in Height : x[h] = "absent" => d.vout[h] = "absent",
         \A h \in Height : x[h] = "done" => d.vout[h] = "done",
         \A h \in Height : y[h] = "done" => d.vin[h] = "done"
  PROVE  Weaker(d, [d EXCEPT !.vout = x, !.vin = y])
  BY DEF Weaker, Columns, Tables

\* Marking rows with anything but done weakens the tables.
LEMMA MarkWeakens ==
  ASSUME NEW d \in Tables, NEW H, NEW s \in JobStatus \ {"done", "absent"}
  PROVE  /\ Weaker(d, [d EXCEPT !.vout = Mark(@, H, s)])
         /\ Weaker(d, [d EXCEPT !.vin = Mark(@, H, s)])
  <1>1. d.vout \in Columns(Height) /\ d.vin \in Columns(Height)
    BY DEF Tables, Columns
  <1>2. /\ Mark(d.vout, H, s) \in Columns(Height)
        /\ \A h \in Height : Mark(d.vout, H, s)[h] = "done" => d.vout[h] = "done"
        /\ \A h \in Height : Mark(d.vout, H, s)[h] = "absent" => d.vout[h] = "absent"
    BY <1>1, MarkColumn
  <1>3. /\ Mark(d.vin, H, s) \in Columns(Height)
        /\ \A h \in Height : Mark(d.vin, H, s)[h] = "done" => d.vin[h] = "done"
    BY <1>1, MarkColumn
  <1>4. Weaker(d, [d EXCEPT !.vout = Mark(d.vout, H, s)])
    BY <1>2, WeakerVout
  <1>5. Weaker(d, [d EXCEPT !.vin = Mark(d.vin, H, s)])
    BY <1>3, WeakerVin
  <1> QED  BY <1>4, <1>5

\* So does a reset of either column.
LEMMA ResetWeakens ==
  ASSUME NEW d \in Tables, NEW H
  PROVE  /\ Weaker(d, [d EXCEPT !.vout = ResetAbandoned(@, H)])
         /\ Weaker(d, [d EXCEPT !.vin = ResetAbandoned(@, H)])
  <1>1. d.vout \in Columns(Height) /\ d.vin \in Columns(Height)
    BY DEF Tables, Columns
  <1>2. /\ ResetAbandoned(d.vout, H) \in Columns(Height)
        /\ \A h \in Height : ResetAbandoned(d.vout, H)[h] = "done" => d.vout[h] = "done"
        /\ \A h \in Height : ResetAbandoned(d.vout, H)[h] = "absent" => d.vout[h] = "absent"
    BY <1>1, ResetColumn
  <1>3. /\ ResetAbandoned(d.vin, H) \in Columns(Height)
        /\ \A h \in Height : ResetAbandoned(d.vin, H)[h] = "done" => d.vin[h] = "done"
    BY <1>1, ResetColumn
  <1>4. Weaker(d, [d EXCEPT !.vout = ResetAbandoned(d.vout, H)])
    BY <1>2, WeakerVout
  <1>5. Weaker(d, [d EXCEPT !.vin = ResetAbandoned(d.vin, H)])
    BY <1>3, WeakerVin
  <1> QED  BY <1>4, <1>5

\* And so does a requeue of either or both.
LEMMA RequeueWeakens ==
  ASSUME NEW d \in Tables, NEW H, NEW cols, NEW features \in BOOLEAN
  PROVE  Weaker(d, Requeued(d, H, cols, features))
  <1> DEFINE x == IF "vout" \in cols THEN RequeuedColumn(d.vout, H, features) ELSE d.vout
             y == IF "vin" \in cols THEN RequeuedColumn(d.vin, H, features) ELSE d.vin
  <1>1. d.vout \in Columns(Height) /\ d.vin \in Columns(Height)
    BY DEF Tables, Columns
  <1>2. ASSUME NEW col \in Columns(Height)
        PROVE  /\ RequeuedColumn(col, H, features) \in Columns(Height)
               /\ \A h \in Height : RequeuedColumn(col, H, features)[h] = "done" => col[h] = "done"
               /\ \A h \in Height : RequeuedColumn(col, H, features)[h] = "absent" => col[h] = "absent"
    <2>1. /\ RequeueFeatures(col, H) \in Columns(Height)
          /\ \A h \in Height : RequeueFeatures(col, H)[h] = "done" => col[h] = "done"
          /\ \A h \in Height : RequeueFeatures(col, H)[h] = "absent" => col[h] = "absent"
      BY RequeueFeaturesColumn
    <2>2. /\ RequeueRange(col, H) \in Columns(Height)
          /\ \A h \in Height : RequeueRange(col, H)[h] = "done" => col[h] = "done"
          /\ \A h \in Height : RequeueRange(col, H)[h] = "absent" => col[h] = "absent"
      BY RequeueRangeColumn
    <2> QED  BY <2>1, <2>2 DEF RequeuedColumn
  <1>3. /\ x \in Columns(Height) /\ y \in Columns(Height)
        /\ \A h \in Height : x[h] = "absent" => d.vout[h] = "absent"
        /\ \A h \in Height : x[h] = "done" => d.vout[h] = "done"
        /\ \A h \in Height : y[h] = "done" => d.vin[h] = "done"
    BY <1>1, <1>2
  <1>4. Weaker(d, [d EXCEPT !.vout = x, !.vin = y])
    <2> HIDE DEF x, y
    <2> QED  BY <1>3, WeakerBoth
  <1> QED  BY <1>4 DEF Requeued

\* A block that has nothing to store has no inputs, so vin done holds of it.
LEMMA GoodSkipVin ==
  ASSUME NEW d \in Tables, NEW h \in Height, Features(h) = "none", Good(d)
  PROVE  LET e == [d EXCEPT !.vin = Mark(@, {h}, "done")] IN e \in Tables /\ Good(e)
  <1> DEFINE y == Mark(d.vin, {h}, "done")
             e == [d EXCEPT !.vin = y]
  <1>1. Spends[h] = {}
    BY DEF Features
  <1>2. d.vin \in Columns(Height) /\ "done" \in JobStatus
    BY DEF Tables, Columns, JobStatus
  <1>3. y \in Columns(Height) /\ \A k \in Height : y[k] = "done" => k = h \/ d.vin[k] = "done"
    BY <1>2, MarkColumn
  <1> HIDE DEF y
  <1>4. /\ e \in Tables /\ e.vin = y /\ e.vout = d.vout
        /\ e.tx = d.tx /\ e.tin = d.tin /\ e.out = d.out /\ e.in = d.in /\ e.spend = d.spend
    BY <1>3 DEF Tables, Columns
  <1> HIDE DEF e
  <1>5. Good(e)
    BY <1>1, <1>3, <1>4 DEF Good, HasRows, Stored, TotalsGood
  <1> QED  BY <1>4, <1>5 DEF e, y

-----------------------------------------------------------------------------
\* Workers: their fields have their types.
WorkersOK ==
  /\ at \in [Worker -> {"idle", "holding", "fetched", "resolved", "skipping", "erred"}]
  /\ todo \in [Worker -> SUBSET Height]
  /\ job \in [Worker -> Height \cup {NoJob}]
  /\ \A w \in Worker : at[w] \in {"fetched", "resolved", "skipping", "erred"} => job[w] \in Height
  /\ v3 \in [Worker -> BOOLEAN]
  /\ found \in [Worker -> SUBSET Out]
  /\ faults \in Nat /\ seen \subseteq Faults

\* The five ways in which a step other than a flush changes the tables.
Stores(d, e) == \E h \in Height, v \in BOOLEAN : e = Extracted(d, h, v)

Completes(d, e) == \E h \in Height, S \in SUBSET Out : e = Backfilled(d, h, S)

Skips(d, e) ==
  \E h \in Height : Features(h) = "none" /\ e = [d EXCEPT !.vin = Mark(@, {h}, "done")]

Changes(d, e) == Weaker(d, e) \/ Stores(d, e) \/ Completes(d, e) \/ Skips(d, e)

\* Each of them keeps tables good.
LEMMA ChangesGood ==
  ASSUME NEW d \in Tables, NEW e, Good(d), Changes(d, e)
  PROVE  e \in Tables /\ Good(e)
  <1>1. CASE Weaker(d, e)
    BY <1>1, GoodWeaker DEF Weaker
  <1>2. CASE Stores(d, e)
    BY <1>2, GoodExtracted DEF Stores
  <1>3. CASE Completes(d, e)
    BY <1>3, GoodBackfilled DEF Completes
  <1>4. CASE Skips(d, e)
    BY <1>4, GoodSkipVin DEF Skips
  <1> QED  BY <1>1, <1>2, <1>3, <1>4 DEF Changes

\* A step of a worker is one of them (extract.py:183-227,
\* backfill_vins.py:70-173).
LEMMA WorkerChanges ==
  ASSUME IInv, NEW w \in Worker, WorkerStep(w)
  PROVE  Changes(db, db') /\ disk' = disk
  <1> USE DEF IInv
  <1>0. db \in Tables /\ {"in_progress", "failed", "skipped"} \subseteq JobStatus \ {"done", "absent"}
    BY DEF TypeOK, JobStatus
  <1>1. Weaker(db, db)
    BY <1>0 DEF Weaker
  <1>2. CASE ClaimVout(w)
    <2>1. PICK H : db' = [db EXCEPT !.vout = Mark(@, H, "in_progress")] /\ disk' = disk
      BY <1>2 DEF ClaimVout, Take
    <2> QED  BY <2>1, <1>0, MarkWeakens DEF Changes
  <1>3. CASE ClaimVin(w)
    <2>1. PICK H : db' = [db EXCEPT !.vin = Mark(@, H, "in_progress")] /\ disk' = disk
      BY <1>3 DEF ClaimVin, Take
    <2> QED  BY <2>1, <1>0, MarkWeakens DEF Changes
  <1>4. CASE Write(w) \/ WriteUnseen(w)
    <2>1. /\ db' = Written(w) /\ disk' = disk
          /\ job[w] \in Height /\ v3[w] \in BOOLEAN /\ found[w] \in SUBSET Out
      BY <1>4 DEF Write, WriteUnseen, ToWrite, TypeOK
    <2>2. Stores(db, db') \/ Completes(db, db')
      BY <2>1 DEF Written, Stores, Completes
    <2> QED  BY <2>1, <2>2 DEF Changes
  <1>5. CASE SkipVout(w)
    <2>1. db' = [db EXCEPT !.vout = Mark(@, {job[w]}, "skipped")] /\ disk' = disk
      BY <1>5 DEF SkipVout
    <2> QED  BY <2>1, <1>0, MarkWeakens DEF Changes
  <1>6. CASE SkipVin(w)
    <2>1. /\ db' = [db EXCEPT !.vin = Mark(@, {job[w]}, "done")] /\ disk' = disk
          /\ job[w] \in Height /\ Features(job[w]) = "none"
      BY <1>6 DEF SkipVin, TypeOK, SkipsRightly
    <2> QED  BY <2>1 DEF Changes, Skips
  <1>7. CASE MarkFailed(w)
    <2>1. /\ disk' = disk
          /\ \/ db' = [db EXCEPT !.vout = Mark(@, {job[w]}, "failed")]
             \/ db' = [db EXCEPT !.vin = Mark(@, {job[w]}, "failed")]
      BY <1>7 DEF MarkFailed
    <2>2. /\ Weaker(db, [db EXCEPT !.vout = Mark(@, {job[w]}, "failed")])
          /\ Weaker(db, [db EXCEPT !.vin = Mark(@, {job[w]}, "failed")])
      BY <1>0, MarkWeakens
    <2>3. Weaker(db, db')
      BY <2>1, <2>2
    <2> QED  BY <2>1, <2>3 DEF Changes
  <1>8. CASE Fetch(w) \/ FetchError(w) \/ Resolve(w) \/ Abort(w) \/ MarkFailedLost(w) \/ Die(w)
    <2>1. db' = db /\ disk' = disk
      BY <1>8 DEF Fetch, FetchError, Resolve, Abort, MarkFailedLost, Die
    <2> QED  BY <2>1, <1>1 DEF Changes
  <1> QED  BY <1>2, <1>3, <1>4, <1>5, <1>6, <1>7, <1>8 DEF WorkerStep

\* Every step of the system changes the tables so, flushes them, or crashes.
LEMMA StepChanges ==
  ASSUME IInv, [Next]_vars
  PROVE  \/ Changes(db, db') /\ disk' = disk
         \/ db' = db /\ disk' = db
         \/ DbCrash
  <1> USE DEF IInv
  <1>0. db \in Tables /\ Weaker(db, db)
    BY DEF TypeOK, Weaker
  <1>1. CASE \E w \in Worker : WorkerStep(w)
    BY <1>1, WorkerChanges
  <1>2. CASE Reset
    <2>1. PICK H : /\ disk' = disk
                   /\ \/ db' = [db EXCEPT !.vout = ResetAbandoned(@, H)]
                      \/ db' = [db EXCEPT !.vin = ResetAbandoned(@, H)]
      BY <1>2 DEF Reset
    <2> QED  BY <2>1, <1>0, ResetWeakens DEF Changes
  <1>3. CASE Requeue
    <2>1. PICK H \in SUBSET Height, cols \in {{"vout"}, {"vin"}, {"vout", "vin"}}, features \in BOOLEAN :
            disk' = disk /\ db' = Requeued(db, H, cols, features)
      BY <1>3 DEF Requeue
    <2>2. Weaker(db, db')
      BY <2>1, <1>0, RequeueWeakens
    <2> QED  BY <2>1, <2>2 DEF Changes
  <1>4. CASE Flush
    BY <1>4 DEF Flush
  <1>5. CASE UNCHANGED vars
    BY <1>5, <1>0 DEF vars, Changes
  <1> QED  BY <1>1, <1>2, <1>3, <1>4, <1>5 DEF Next

\* So no step spoils the tables, or what a crash would leave of them.
LEMMA TablesStep ==
  ASSUME IInv, [Next]_vars
  PROVE  db' \in Tables /\ disk' \in Tables /\ Good(db') /\ Good(disk')
  <1>1. db \in Tables /\ disk \in Tables /\ Good(db) /\ Good(disk)
    BY DEF IInv, TypeOK
  <1>2. CASE Changes(db, db') /\ disk' = disk
    BY <1>1, <1>2, ChangesGood
  <1>3. CASE db' = db /\ disk' = db
    BY <1>1, <1>3
  <1>4. CASE DbCrash
    BY <1>1, <1>4 DEF DbCrash
  <1> QED  BY <1>2, <1>3, <1>4, StepChanges

\* No step of a worker spoils its fields, or makes it skip a block that has
\* inputs.
LEMMA WorkerFields ==
  ASSUME IInv, NEW w \in Worker, WorkerStep(w)
  PROVE  WorkersOK' /\ SkipsRightly'
  <1>0. WorkersOK /\ SkipsRightly /\ db \in Tables
    BY DEF IInv, TypeOK, WorkersOK
  <1>1. CASE ClaimVout(w) \/ ClaimVin(w)
    <2>1. PICK H \in SUBSET Height : Take(w, H)
      BY <1>1 DEF ClaimVout, ClaimVin, Claimable, VinReady
    <2> QED  BY <2>1, <1>0 DEF Take, WorkersOK, SkipsRightly, disturbances
  <1>2. CASE Fetch(w)
    BY <1>2, <1>0 DEF Fetch, Begin, WorkersOK, SkipsRightly, disturbances
  <1>3. CASE FetchError(w)
    BY <1>3, <1>0 DEF FetchError, Begin, Disturb, WorkersOK, SkipsRightly
  <1>4. CASE Resolve(w)
    <2>1. Resolved(db, job[w], v3[w]) \in SUBSET Out
      BY <1>0, <1>4, ChainTypes DEF Resolved, Resolve, WorkersOK
    <2> QED  BY <2>1, <1>4, <1>0 DEF Resolve, WorkersOK, SkipsRightly, disturbances
  <1>5. CASE Write(w)
    BY <1>5, <1>0 DEF Write, NextJob, WorkersOK, SkipsRightly, disturbances
  <1>6. CASE WriteUnseen(w)
    BY <1>6, <1>0 DEF WriteUnseen, ToWrite, Disturb, WorkersOK, SkipsRightly
  <1>7. CASE Abort(w)
    BY <1>7, <1>0 DEF Abort, Disturb, WorkersOK, SkipsRightly
  <1>8. CASE SkipVout(w)
    BY <1>8, <1>0 DEF SkipVout, NextJob, WorkersOK, SkipsRightly, disturbances
  <1>9. CASE SkipVin(w)
    BY <1>9, <1>0 DEF SkipVin, NextJob, WorkersOK, SkipsRightly, disturbances
  <1>10. CASE MarkFailed(w)
    BY <1>10, <1>0 DEF MarkFailed, NextJob, WorkersOK, SkipsRightly, disturbances
  <1>11. CASE MarkFailedLost(w)
    BY <1>11, <1>0 DEF MarkFailedLost, NextJob, Disturb, WorkersOK, SkipsRightly
  <1>12. CASE Die(w)
    BY <1>12, <1>0 DEF Die, Disturb, WorkersOK, SkipsRightly
  <1> QED
    BY <1>1, <1>2, <1>3, <1>4, <1>5, <1>6, <1>7, <1>8, <1>9, <1>10, <1>11, <1>12 DEF WorkerStep

\* The other steps leave workers alone, or break their transactions.
LEMMA FieldsStep ==
  ASSUME IInv, [Next]_vars
  PROVE  WorkersOK' /\ SkipsRightly'
  <1>0. WorkersOK /\ SkipsRightly
    BY DEF IInv, TypeOK, WorkersOK
  <1>1. CASE \E w \in Worker : WorkerStep(w)
    BY <1>1, WorkerFields
  <1>2. CASE Reset \/ Requeue
    BY <1>2, <1>0 DEF Reset, Requeue, Disturb, workers, WorkersOK, SkipsRightly
  <1>3. CASE Flush \/ UNCHANGED vars
    BY <1>3, <1>0 DEF Flush, vars, workers, disturbances, WorkersOK, SkipsRightly
  <1>4. CASE DbCrash
    BY <1>4, <1>0 DEF DbCrash, BreakTransactions, Disturb, WorkersOK, SkipsRightly
  <1> QED  BY <1>1, <1>2, <1>3, <1>4 DEF Next

\* IInv is inductive.
LEMMA InitIInv == Init => IInv
  <1> SUFFICES ASSUME Init PROVE IInv
    OBVIOUS
  <1>1. db \in Tables /\ disk \in Tables
    BY DEF Init, Tables, JobStatus
  <1>2. Good(db) /\ Good(disk)
    BY ChainTypes DEF Init, Good, HasRows, TotalsGood, Stored
  <1>3. WorkersOK /\ SkipsRightly
    BY DEF Init, WorkersOK, SkipsRightly, NoJob
  <1> QED  BY <1>1, <1>2, <1>3 DEF IInv, TypeOK, WorkersOK

LEMMA NextIInv == IInv /\ [Next]_vars => IInv'
  <1> SUFFICES ASSUME IInv, [Next]_vars PROVE IInv'
    OBVIOUS
  <1>1. db' \in Tables /\ disk' \in Tables /\ Good(db') /\ Good(disk')
    BY TablesStep
  <1>2. WorkersOK' /\ SkipsRightly'
    BY FieldsStep
  <1> QED  BY <1>1, <1>2 DEF IInv, TypeOK, WorkersOK

THEOREM Invariance == Spec => []IInv
  BY InitIInv, NextIInv, PTL DEF Spec

\* Types (schema.sql:46-95).
THEOREM TypeCorrect == Spec => []TypeOK
  <1>1. IInv => TypeOK
    BY DEF IInv
  <1> QED  BY <1>1, Invariance, PTL

\* A block reported done is stored, in the tables and in what a crash leaves.
THEOREM DoneIsStored == Spec => []VoutDoneStored
  <1>1. IInv => VoutDoneStored
    BY DEF IInv, Good, VoutDoneStored
  <1> QED  BY <1>1, Invariance, PTL

\* A block whose vin_status is done has the spends row of every input.
THEOREM DoneHasSpends == Spec => []VinDoneSpends
  <1>1. IInv => VinDoneSpends
    BY DEF IInv, Good, VinDoneSpends
  <1> QED  BY <1>1, Invariance, PTL

\* A block is there with all its rows or with none of its transactions.
THEOREM BlocksAreAtomic == Spec => []BlockAtomic
  <1>1. IInv => BlockAtomic
    BY DEF IInv, Good, BlockAtomic
  <1> QED  BY <1>1, Invariance, PTL

\* A total counts no input without an 'in' row.
THEOREM TotalsAreBacked == Spec => []TotalsBacked
  <1>1. IInv => TotalsBacked
    BY DEF IInv, Good, TotalsGood, TotalsBacked
  <1> QED  BY <1>1, Invariance, PTL

-----------------------------------------------------------------------------
\* A run-all in which nothing but restarts happens.

\* Of d: a total is that of all inputs or none yet, and where vin is done the
\* transactions, their inputs and their totals are all there.
InputsComplete(d) ==
  /\ \A t \in Tx : d.tin[t] \in {{}, Prevouts[t]}
  /\ \A h \in Height : d.vin[h] = "done" =>
       /\ TxsOf[h] \subseteq d.tx /\ InRows[h] \subseteq d.in
       /\ \A t \in TxsOf[h] : d.tin[t] = Prevouts[t]

\* No block has failed, and the skipped ones have nothing to store.
NoneFailed(d) ==
  \A h \in Height : /\ d.vout[h] # "failed"
                    /\ d.vout[h] = "skipped" => Features(h) = "none"

ExtractOver(d) == \A h \in Height : d.vout[h] \in {"done", "skipped"}

\* No worker fails; a backfiller works after extract and finds all inputs.
Orderly ==
  /\ \A w \in Worker : at[w] # "erred"
  /\ \A w \in Backfiller : at[w] # "idle" => ExtractOver(db)
  /\ \A w \in Backfiller : at[w] = "resolved" => found[w] = InRows[job[w]]

Undisturbed == Phased /\ seen \subseteq Restarts

RunInv == Undisturbed => NoneFailed(db) /\ InputsComplete(db) /\ Orderly

\* Where extract is over, every output and every transaction is there.
LEMMA OverStored ==
  ASSUME NEW d \in Tables, Good(d), NoneFailed(d), ExtractOver(d)
  PROVE  /\ Addressed \subseteq d.out
         /\ \A h \in Height : TxsOf[h] \subseteq d.tx
  <1>1. \A h \in Height : TxsOf[h] \subseteq d.tx /\ OutRows[h] \subseteq d.out
    <2> SUFFICES ASSUME NEW h \in Height
                 PROVE  TxsOf[h] \subseteq d.tx /\ OutRows[h] \subseteq d.out
      OBVIOUS
    <2>1. CASE d.vout[h] = "done"
      BY <2>1 DEF Good, Stored
    <2>2. CASE d.vout[h] = "skipped"
      <3>1. Features(h) = "none"
        BY <2>2 DEF NoneFailed
      <3> QED  BY <3>1 DEF Features
    <2> QED  BY <2>1, <2>2 DEF ExtractOver
  <1>2. \A o \in Addressed : \E h \in Height : o \in OutRows[h]
    BY ExtractionAssumption DEF OutRows
  <1> QED  BY <1>1, <1>2

\* What a claim, a skip or a reset does to the statuses loses no input.
LEMMA CompleteWeaker ==
  ASSUME NEW d \in Tables, NEW e, Weaker(d, e), InputsComplete(d)
  PROVE  InputsComplete(e)
  BY DEF Weaker, InputsComplete

\* Nor does storing a block, at either verbosity.
LEMMA CompleteExtracted ==
  ASSUME NEW d \in Tables, NEW h \in Height, NEW v \in BOOLEAN, InputsComplete(d)
  PROVE  InputsComplete(Extracted(d, h, v))
  <1> DEFINE e == Extracted(d, h, v)
  <1>1. IsExtracted(d, e, h, v)
    BY ExtractedType
  <1>2. ~v => e.vin = d.vin
    BY DEF Extracted
  <1> HIDE DEF e
  <1>3. \A t \in Tx : e.tin[t] = IF v /\ BlockOf[t] = h /\ Prevouts[t] # {} THEN Prevouts[t] ELSE d.tin[t]
    BY <1>1 DEF IsExtracted, UpsertTotals
  <1>4. \A t \in Tx : e.tin[t] \in {{}, Prevouts[t]}
    BY <1>3 DEF InputsComplete
  <1>5. ASSUME NEW k \in Height, e.vin[k] = "done"
        PROVE  /\ TxsOf[k] \subseteq e.tx /\ InRows[k] \subseteq e.in
               /\ \A t \in TxsOf[k] : e.tin[t] = Prevouts[t]
    <2>1. CASE d.vin[k] = "done"
      <3>1. d.tx \subseteq e.tx /\ d.in \subseteq e.in
        BY <1>1 DEF IsExtracted
      <3> QED  BY <2>1, <3>1, <1>3, ChainTypes DEF InputsComplete
    <2>2. CASE v /\ k = h
      <3>1. TxsOf[k] \subseteq e.tx /\ InRows[k] \subseteq e.in
        BY <1>1, <2>2 DEF IsExtracted
      <3>2. \A t \in TxsOf[k] : e.tin[t] = Prevouts[t]
        <4> SUFFICES ASSUME NEW t \in TxsOf[k] PROVE e.tin[t] = Prevouts[t]
          OBVIOUS
        <4>1. t \in Tx /\ BlockOf[t] = h
          BY <2>2, ChainTypes, ChainFacts
        <4> QED  BY <1>3, <1>4, <2>2, <4>1
      <3> QED  BY <3>1, <3>2
    <2> QED  BY <1>1, <1>2, <1>5, <2>1, <2>2 DEF IsExtracted
  <1> QED  BY <1>4, <1>5 DEF InputsComplete, e

\* Backfill completes a block whose transactions are there.
LEMMA CompleteBackfilled ==
  ASSUME NEW d \in Tables, NEW h \in Height, InputsComplete(d), TxsOf[h] \subseteq d.tx
  PROVE  InputsComplete(Backfilled(d, h, InRows[h]))
  <1> DEFINE e == Backfilled(d, h, InRows[h])
  <1>1. /\ e.tx = d.tx
        /\ e.tin = FillTotals(d, h, InRows[h])
        /\ e.in = d.in \cup InRows[h]
        /\ \A k \in Height : e.vin[k] = "done" => k = h \/ d.vin[k] = "done"
    BY BackfilledType, ChainTypes
  <1> HIDE DEF e
  <1>2. \A t \in Tx : e.tin[t] = IF BlockOf[t] = h /\ t \in d.tx /\ d.tin[t] = {}
                                 THEN Prevouts[t] \cap InRows[h] ELSE d.tin[t]
    BY <1>1 DEF FillTotals
  <1>3. \A t \in Tx : BlockOf[t] = h => Prevouts[t] \cap InRows[h] = Prevouts[t]
    BY ChainFacts
  <1>4. \A t \in Tx : e.tin[t] \in {{}, Prevouts[t]}
    BY <1>2, <1>3 DEF InputsComplete
  <1>5. ASSUME NEW k \in Height, e.vin[k] = "done"
        PROVE  /\ TxsOf[k] \subseteq e.tx /\ InRows[k] \subseteq e.in
               /\ \A t \in TxsOf[k] : e.tin[t] = Prevouts[t]
    <2>1. CASE k = h
      <3>1. \A t \in TxsOf[h] : t \in Tx /\ BlockOf[t] = h /\ t \in d.tx
        BY ChainTypes, ChainFacts
      <3> QED  BY <2>1, <3>1, <1>1, <1>2, <1>3 DEF InputsComplete
    <2>2. CASE d.vin[k] = "done"
      BY <2>2, <1>1, <1>2, <1>3, ChainTypes DEF InputsComplete
    <2> QED  BY <1>1, <1>5, <2>1, <2>2
  <1> QED  BY <1>4, <1>5 DEF InputsComplete, e

\* A block that has nothing to store has no inputs to complete.
LEMMA CompleteSkipVin ==
  ASSUME NEW d \in Tables, NEW h \in Height, Features(h) = "none", InputsComplete(d)
  PROVE  InputsComplete([d EXCEPT !.vin = Mark(@, {h}, "done")])
  <1> DEFINE y == Mark(d.vin, {h}, "done")
             e == [d EXCEPT !.vin = y]
  <1>1. TxsOf[h] = {} /\ Spends[h] = {}
    BY DEF Features
  <1>2. InRows[h] = {}
    BY <1>1, ExtractionAssumption DEF InRows
  <1>3. d.vin \in Columns(Height) /\ "done" \in JobStatus
    BY DEF Tables, Columns, JobStatus
  <1>4. \A k \in Height : y[k] = "done" => k = h \/ d.vin[k] = "done"
    BY <1>3, MarkColumn
  <1> HIDE DEF y
  <1>5. e.vin = y /\ e.tx = d.tx /\ e.tin = d.tin /\ e.in = d.in
    BY DEF Tables
  <1> HIDE DEF e
  <1>6. InputsComplete(e)
    BY <1>1, <1>2, <1>4, <1>5 DEF InputsComplete
  <1> QED  BY <1>6 DEF e, y

-----------------------------------------------------------------------------
\* Steps of an undisturbed run.

\* No status is marked failed, none is taken from done or skipped: what a
\* worker's step does to the column of extract.
Advances(d, e) ==
  /\ NoneFailed(d) => NoneFailed(e)
  /\ ExtractOver(d) => ExtractOver(e)

LEMMA AdvancesMark ==
  ASSUME NEW d \in Tables, NEW e, NEW H, NEW s \in JobStatus,
         e.vout = Mark(d.vout, H, s),
         \/ s = "done"
         \/ s = "skipped" /\ \A h \in H : Features(h) = "none"
         \/ s \in {"in_progress", "pending"} /\ \A h \in H : d.vout[h] \notin {"done", "skipped"}
  PROVE  Advances(d, e)
  <1>1. d.vout \in Columns(Height)
    BY DEF Tables, Columns
  <1>2. \A h \in Height : e.vout[h] = IF h \in H /\ d.vout[h] # "absent" THEN s ELSE d.vout[h]
    BY <1>1, MarkColumn
  <1> QED  BY <1>2 DEF Advances, NoneFailed, ExtractOver

\* A claim of extract takes a pending row, so extract is not over.
LEMMA RunClaimVout ==
  ASSUME IInv, NoneFailed(db), InputsComplete(db), Orderly, NEW w \in Worker, ClaimVout(w)
  PROVE  NoneFailed(db') /\ InputsComplete(db') /\ Orderly'
  <1>1. db \in Tables /\ {"in_progress"} \subseteq JobStatus \ {"done", "absent"}
    BY DEF IInv, TypeOK, JobStatus
  <1>2. PICK H \in SUBSET Claimable(db.vout, Height) :
          Take(w, H) /\ db' = [db EXCEPT !.vout = Mark(@, H, "in_progress")]
    BY DEF ClaimVout
  <1>3. H # {} /\ H \subseteq Height /\ \A h \in H : db.vout[h] = "pending"
    BY <1>2 DEF Take, Claimable, WithStatus
  <1>4. InputsComplete(db')
    BY <1>1, <1>2, MarkWeakens, CompleteWeaker
  <1>5. db'.vout = Mark(db.vout, H, "in_progress")
    BY <1>1, <1>2 DEF Tables
  <1>6. NoneFailed(db')
    BY <1>1, <1>3, <1>5, AdvancesMark DEF Advances
  <1>7. ~ExtractOver(db) /\ w \notin Backfiller
    BY <1>3, ExtractionAssumption DEF ExtractOver, ClaimVout
  <1>8. Orderly'
    BY <1>2, <1>7 DEF Orderly, Take, Worker, IInv, TypeOK
  <1> QED  BY <1>4, <1>6, <1>8

\* backfill-vins claims when extract is over, and takes no status of extract.
LEMMA RunClaimVin ==
  ASSUME IInv, Phased, NoneFailed(db), InputsComplete(db), Orderly, NEW w \in Worker, ClaimVin(w)
  PROVE  NoneFailed(db') /\ InputsComplete(db') /\ Orderly'
  <1>1. db \in Tables /\ {"in_progress"} \subseteq JobStatus \ {"done", "absent"}
    BY DEF IInv, TypeOK, JobStatus
  <1>2. PICK H \in SUBSET Claimable(db.vin, VinReady) :
          Take(w, H) /\ db' = [db EXCEPT !.vin = Mark(@, H, "in_progress")]
    BY DEF ClaimVin
  <1>3. InputsComplete(db')
    BY <1>1, <1>2, MarkWeakens, CompleteWeaker
  <1>4. db'.vout = db.vout
    BY <1>1, <1>2 DEF Tables
  <1>5. ExtractOver(db)
    BY DEF ClaimVin, NoneFailed, ExtractOver, Terminal
  <1>6. NoneFailed(db') /\ ExtractOver(db')
    BY <1>4, <1>5 DEF NoneFailed, ExtractOver
  <1>7. Orderly'
    BY <1>2, <1>6 DEF Orderly, Take, Worker, IInv, TypeOK
  <1> QED  BY <1>3, <1>6, <1>7

\* What is written is complete, whichever phase writes it.
LEMMA RunWrite ==
  ASSUME IInv, NoneFailed(db), InputsComplete(db), Orderly, NEW w \in Worker, Write(w)
  PROVE  NoneFailed(db') /\ InputsComplete(db') /\ Orderly'
  <1>1. db \in Tables /\ job[w] \in Height /\ v3[w] \in BOOLEAN /\ "done" \in JobStatus
    BY DEF IInv, TypeOK, JobStatus, Write, ToWrite
  <1>2. InputsComplete(db') /\ Advances(db, db')
    <2>1. CASE w \in Extractor
      <3>1. db' = Extracted(db, job[w], v3[w])
        BY <2>1 DEF Write, Written
      <3>2. db'.vout = Mark(db.vout, {job[w]}, "done")
        BY <1>1, <3>1 DEF Extracted, Tables
      <3> QED  BY <1>1, <3>1, <3>2, CompleteExtracted, AdvancesMark
    <2>2. CASE w \in Backfiller /\ w \notin Extractor
      <3>1. at[w] = "resolved" /\ db' = Backfilled(db, job[w], InRows[job[w]])
        BY <2>2 DEF Write, ToWrite, Written, Orderly
      <3>2. TxsOf[job[w]] \subseteq db.tx
        BY <1>1, <2>2, <3>1, OverStored DEF Orderly, IInv
      <3>3. db'.vout = db.vout
        BY <1>1, <3>1, ChainTypes, BackfilledType
      <3> QED
        BY <1>1, <3>1, <3>2, <3>3, CompleteBackfilled DEF Advances, NoneFailed, ExtractOver
    <2> QED  BY <2>1, <2>2 DEF Worker
  <1>3. /\ at[w] \notin {"idle", "erred"} /\ at'[w] \in {"idle", "holding"}
        /\ \A u \in Worker \ {w} : at'[u] = at[u] /\ found'[u] = found[u] /\ job'[u] = job[u]
    BY DEF Write, ToWrite, NextJob, IInv, TypeOK
  <1>4. Orderly'
    BY <1>2, <1>3 DEF Orderly, Advances, Worker
  <1> QED  BY <1>2, <1>4 DEF Advances

\* A block is skipped because there is nothing to store of it.
LEMMA RunSkip ==
  ASSUME IInv, NoneFailed(db), InputsComplete(db), Orderly, NEW w \in Worker,
         SkipVout(w) \/ SkipVin(w)
  PROVE  NoneFailed(db') /\ InputsComplete(db') /\ Orderly'
  <1>1. db \in Tables /\ job[w] \in Height /\ {"skipped"} \subseteq JobStatus \ {"done", "absent"}
    BY DEF IInv, TypeOK, JobStatus, SkipVout, SkipVin
  <1>2. Features(job[w]) = "none"
    BY DEF SkipVout, SkipVin, IInv, SkipsRightly
  <1>3. InputsComplete(db') /\ Advances(db, db')
    <2>1. CASE SkipVout(w)
      <3>1. db' = [db EXCEPT !.vout = Mark(@, {job[w]}, "skipped")]
        BY <2>1 DEF SkipVout
      <3>2. db'.vout = Mark(db.vout, {job[w]}, "skipped")
        BY <1>1, <3>1 DEF Tables
      <3> QED  BY <1>1, <1>2, <3>1, <3>2, MarkWeakens, CompleteWeaker, AdvancesMark
    <2>2. CASE SkipVin(w)
      <3>1. db' = [db EXCEPT !.vin = Mark(@, {job[w]}, "done")]
        BY <2>2 DEF SkipVin
      <3>2. db'.vout = db.vout
        BY <1>1, <3>1 DEF Tables
      <3> QED  BY <1>1, <1>2, <3>1, <3>2, CompleteSkipVin DEF Advances, NoneFailed, ExtractOver
    <2> QED  BY <2>1, <2>2
  <1>4. Orderly'
    BY <1>3 DEF SkipVout, SkipVin, NextJob, Orderly, Advances, Worker, IInv, TypeOK
  <1> QED  BY <1>3, <1>4 DEF Advances

\* Every input has its output stored when backfill-vins looks for it.
LEMMA RunResolve ==
  ASSUME IInv, NoneFailed(db), InputsComplete(db), Orderly, NEW w \in Worker, Resolve(w)
  PROVE  NoneFailed(db') /\ InputsComplete(db') /\ Orderly'
  <1>1. db \in Tables /\ job[w] \in Height /\ w \in Backfiller
    BY DEF IInv, TypeOK, Resolve
  <1>2. Addressed \subseteq db.out
    BY <1>1, OverStored DEF Orderly, Resolve, IInv
  <1>3. Resolved(db, job[w], v3[w]) = InRows[job[w]]
    BY <1>1, <1>2 DEF Resolved, InRows
  <1>4. Orderly'
    BY <1>3 DEF Resolve, Orderly, Worker, IInv, TypeOK
  <1> QED  BY <1>4 DEF Resolve

\* A reset of either column takes rows in progress only.
LEMMA RunReset ==
  ASSUME IInv, NoneFailed(db), InputsComplete(db), Orderly, Reset
  PROVE  NoneFailed(db') /\ InputsComplete(db') /\ Orderly'
  <1>1. db \in Tables /\ "pending" \in JobStatus
    BY DEF IInv, TypeOK, JobStatus
  <1>2. PICK H : \/ db' = [db EXCEPT !.vout = ResetAbandoned(@, H)]
                 \/ db' = [db EXCEPT !.vin = ResetAbandoned(@, H)]
    BY DEF Reset
  <1>3. InputsComplete(db')
    <2>1. Weaker(db, db')
      BY <1>1, <1>2, ResetWeakens
    <2> QED  BY <1>1, <2>1, CompleteWeaker
  <1>4. Advances(db, db')
    <2>1. CASE db' = [db EXCEPT !.vout = ResetAbandoned(@, H)]
      <3>1. db'.vout = Mark(db.vout, H \cap WithStatus(db.vout, "in_progress"), "pending")
        BY <1>1, <2>1 DEF Tables, ResetAbandoned
      <3>2. \A h \in H \cap WithStatus(db.vout, "in_progress") : db.vout[h] = "in_progress"
        BY DEF WithStatus
      <3> QED  BY <1>1, <3>1, <3>2, AdvancesMark
    <2>2. CASE db' = [db EXCEPT !.vin = ResetAbandoned(@, H)]
      <3>1. db'.vout = db.vout
        BY <1>1, <2>2 DEF Tables
      <3> QED  BY <3>1 DEF Advances, NoneFailed, ExtractOver
    <2> QED  BY <1>2, <2>1, <2>2
  <1>5. Orderly'
    BY <1>4 DEF Reset, workers, Orderly, Advances
  <1> QED  BY <1>3, <1>4, <1>5 DEF Advances

\* Disturbances are never forgotten.
LEMMA SeenGrows == [Next]_vars => seen \subseteq seen'
  BY DEF Next, vars, disturbances, WorkerStep, Disturb, ClaimVout, ClaimVin, Take, Fetch, FetchError,
    Resolve, Write, WriteUnseen, Abort, SkipVout, SkipVin, MarkFailed, MarkFailedLost, Die,
    Reset, Requeue, Flush, DbCrash

LEMMA RunStep ==
  ASSUME IInv, RunInv, [Next]_vars
  PROVE  RunInv'
  <1> SUFFICES ASSUME Undisturbed'
               PROVE  NoneFailed(db') /\ InputsComplete(db') /\ Orderly'
    BY DEF RunInv
  <1>1. Undisturbed /\ NoneFailed(db) /\ InputsComplete(db) /\ Orderly
    BY SeenGrows DEF Undisturbed, RunInv
  <1>2. ASSUME NEW w \in Worker, Fetch(w) \/ Die(w)
        PROVE  NoneFailed(db') /\ InputsComplete(db') /\ Orderly'
    <2>1. db' = db
      BY <1>2 DEF Fetch, Die
    <2>2. Orderly'
      BY <1>1, <1>2, <2>1 DEF Fetch, Begin, Die, Orderly, Worker, IInv, TypeOK
    <2> QED  BY <1>1, <2>1, <2>2
  <1>3. ASSUME NEW w \in Worker,
               FetchError(w) \/ WriteUnseen(w) \/ Abort(w) \/ MarkFailed(w) \/ MarkFailedLost(w)
        PROVE  FALSE
    BY <1>1, <1>3 DEF FetchError, WriteUnseen, Abort, MarkFailed, MarkFailedLost, Disturb, Undisturbed,
      Restarts, Orderly
  <1>4. ~Requeue /\ ~DbCrash
    BY DEF Requeue, DbCrash, Disturb, Undisturbed, Restarts
  <1>5. CASE Flush \/ UNCHANGED vars
    BY <1>1, <1>5 DEF Flush, vars, workers, Orderly
  <1> QED
    BY <1>1, <1>2, <1>3, <1>4, <1>5, RunClaimVout, RunClaimVin, RunWrite, RunSkip, RunResolve, RunReset
    DEF Next, WorkerStep, Undisturbed

LEMMA InitRun == Init => RunInv
  <1> SUFFICES ASSUME Init PROVE RunInv
    OBVIOUS
  <1>1. NoneFailed(db) /\ InputsComplete(db)
    BY DEF Init, NoneFailed, InputsComplete
  <1>2. Orderly
    BY DEF Init, Orderly, Worker
  <1> QED  BY <1>1, <1>2 DEF RunInv

THEOREM RunInvariance == Spec => []RunInv
  BY InitRun, RunStep, Invariance, PTL DEF Spec

\* In a run-all without a failed block, vin_status done says that every input
\* is there and in its total, at either verbosity (backfill_vins.py:8-12).
THEOREM RunAllIsComplete == Spec => []RunAllComplete
  <1>1. RunInv => RunAllComplete
    BY ChainTypes DEF RunInv, Undisturbed, RunAllComplete, VinDoneComplete, InputsComplete
  <1> QED  BY <1>1, RunInvariance, PTL

-----------------------------------------------------------------------------
(* Extraction implements Archive, and its tables only grow: both follow    *)
(* from the ways in which a step changes the tables.                       *)

\* In good tables a block is there with all its rows exactly when one of its
\* transactions is, or when it has none.
LEMMA StoredByTx ==
  ASSUME NEW d \in Tables, Good(d), NEW h \in Height
  PROVE  Stored(d, h) <=> (TxsOf[h] = {} \/ TxsOf[h] \cap d.tx # {})
  <1>1. CASE TxsOf[h] = {}
    <2>1. OutRows[h] = {} /\ Spends[h] = {}
      BY <1>1, ExtractionAssumption DEF TxsOf, OutRows, Spends
    <2> QED  BY <1>1, <2>1 DEF Stored
  <1>2. CASE TxsOf[h] # {}
    BY <1>2 DEF Stored, Good
  <1> QED  BY <1>1, <1>2

\* Changes that keep the transactions keep the contents of the archive.
LEMMA SameContents ==
  ASSUME NEW d \in Tables, NEW e \in Tables, Good(d), Good(e), e.tx = d.tx
  PROVE  Contents(e) = Contents(d)
  BY StoredByTx DEF Contents

\* Storing a block adds it to the contents, and no other block.
LEMMA StoredContents ==
  ASSUME NEW d \in Tables, NEW h \in Height, NEW v \in BOOLEAN, Good(d)
  PROVE  LET e == Extracted(d, h, v)
         IN  Contents(e) = Contents(d) \cup {h} /\ Reports(e) = Reports(d) \cup {h}
  <1> DEFINE e == Extracted(d, h, v)
  <1>1. IsExtracted(d, e, h, v) /\ e \in Tables /\ Good(e) /\ Stored(e, h)
    BY ExtractedType, GoodExtracted
  <1> HIDE DEF e
  <1>2. ASSUME NEW k \in Height, k # h
        PROVE  Stored(e, k) <=> Stored(d, k)
    <2>1. TxsOf[k] \cap TxsOf[h] = {}
      BY <1>2, ChainFacts, ChainTypes
    <2>2. TxsOf[k] \cap e.tx = TxsOf[k] \cap d.tx
      BY <2>1, <1>1 DEF IsExtracted
    <2> QED  BY <2>2, <1>1, StoredByTx
  <1>3. Contents(e) = Contents(d) \cup {h}
    BY <1>1, <1>2 DEF Contents
  <1>4. Reports(e) = Reports(d) \cup {h}
    BY <1>1 DEF Reports, IsExtracted, Good, HasRows
  <1> QED  BY <1>3, <1>4 DEF e

\* Every change is a publication, a withdrawal or nothing to the archive.
LEMMA ChangesAbstract ==
  ASSUME NEW d \in Tables, NEW e, Good(d), Changes(d, e)
  PROVE  \/ \E h \in Height : /\ Contents(e) = Contents(d) \cup {h}
                              /\ Reports(e) = Reports(d) \cup {h}
         \/ Contents(e) = Contents(d) /\ Reports(e) \subseteq Reports(d)
  <1>0. e \in Tables /\ Good(e)
    BY ChangesGood
  <1>1. CASE Weaker(d, e)
    <2>1. Contents(e) = Contents(d)
      BY <1>0, <1>1, SameContents DEF Weaker
    <2>2. Reports(e) \subseteq Reports(d)
      BY <1>1 DEF Weaker, Reports
    <2> QED  BY <2>1, <2>2
  <1>2. CASE Stores(d, e)
    BY <1>2, StoredContents DEF Stores
  <1>3. CASE Completes(d, e)
    <2>1. e.tx = d.tx /\ e.vout = d.vout
      BY <1>3, BackfilledType DEF Completes
    <2>2. Reports(e) = Reports(d)
      BY <2>1 DEF Reports
    <2> QED  BY <1>0, <2>1, <2>2, SameContents
  <1>4. CASE Skips(d, e)
    <2>1. e.tx = d.tx /\ e.vout = d.vout
      BY <1>4 DEF Skips, Tables
    <2>2. Reports(e) = Reports(d)
      BY <2>1 DEF Reports
    <2> QED  BY <1>0, <2>1, <2>2, SameContents
  <1> QED  BY <1>1, <1>2, <1>3, <1>4 DEF Changes

\* Extraction is an archive that reports only what it stores, before and after
\* a crash of the server (ingest.py:3-5, runner.py:118-119, config.py:162-165).
THEOREM Refinement == Spec => ImplementsArchive
  <1>1. Init => Abstract!Init
    BY DEF Init, Abstract!Init, Contents, Reports
  <1>2. ASSUME IInv, [Next]_vars
        PROVE  [Abstract!Next]_(Abstract!vars)
    <2>1. db \in Tables /\ disk \in Tables /\ Good(db) /\ Good(disk)
      BY <1>2 DEF IInv, TypeOK
    <2>2. CASE Changes(db, db') /\ disk' = disk
      <3>1. \/ \E h \in Height : /\ Contents(db') = Contents(db) \cup {h}
                                 /\ Reports(db') = Reports(db) \cup {h}
            \/ Contents(db') = Contents(db) /\ Reports(db') \subseteq Reports(db)
        BY <2>1, <2>2, ChangesAbstract
      <3>2. Contents(disk') = Contents(disk) /\ Reports(disk') = Reports(disk)
        BY <2>2
      <3> QED  BY <3>1, <3>2 DEF Abstract!Next, Abstract!Publish, Abstract!Withdraw
    <2>3. CASE db' = db /\ disk' = db
      BY <2>3 DEF Abstract!Next, Abstract!Persist
    <2>4. CASE DbCrash
      BY <2>4 DEF DbCrash, Abstract!Next, Abstract!Lose
    <2> QED  BY <1>2, <2>2, <2>3, <2>4, StepChanges
  <1> QED  BY <1>1, <1>2, Invariance, PTL DEF Spec, ImplementsArchive, Abstract!Spec

\* The rows and totals of d are in e.
Grows(d, e) ==
  /\ \A c \in {"tx", "out", "in", "spend"} : d[c] \subseteq e[c]
  /\ \A t \in Tx : d.tin[t] \subseteq e.tin[t]

\* A change takes no row and nothing out of a total: the totals that extract
\* replaces were parts of the new ones (ingest.py:27-29, 50-58).
LEMMA ChangesGrow ==
  ASSUME NEW d \in Tables, NEW e, Good(d), Changes(d, e)
  PROVE  Grows(d, e)
  <1>1. CASE Weaker(d, e)
    BY <1>1 DEF Weaker, Grows
  <1>2. CASE Stores(d, e)
    <2>1. PICK h \in Height, v \in BOOLEAN : e = Extracted(d, h, v)
      BY <1>2 DEF Stores
    <2>2. IsExtracted(d, e, h, v)
      BY <2>1, ExtractedType
    <2>3. ASSUME NEW t \in Tx PROVE d.tin[t] \subseteq e.tin[t]
      BY <2>2 DEF IsExtracted, UpsertTotals, Good, TotalsGood
    <2>4. /\ d.tx \subseteq e.tx /\ d.out \subseteq e.out
          /\ d.in \subseteq e.in /\ d.spend \subseteq e.spend
      BY <2>2 DEF IsExtracted
    <2> QED  BY <2>3, <2>4 DEF Grows
  <1>3. CASE Completes(d, e)
    <2>1. PICK h \in Height, S \in SUBSET Out : e = Backfilled(d, h, S)
      BY <1>3 DEF Completes
    <2>2. /\ e.tx = d.tx /\ e.out = d.out /\ e.tin = FillTotals(d, h, S)
          /\ e.in = d.in \cup S /\ e.spend = d.spend \cup Spends[h]
      BY <2>1, BackfilledType
    <2>3. ASSUME NEW t \in Tx PROVE d.tin[t] \subseteq e.tin[t]
      BY <2>2 DEF FillTotals
    <2> QED  BY <2>2, <2>3 DEF Grows
  <1>4. CASE Skips(d, e)
    BY <1>4 DEF Skips, Tables, Grows
  <1> QED  BY <1>1, <1>2, <1>3, <1>4 DEF Changes

\* Only a crash of the server takes anything from the tables.
THEOREM TablesOnlyGrow == Spec => RowsOnlyGrow
  <1>1. ASSUME IInv, [Next]_vars
        PROVE  DbCrash \/ Grows(db, db')
    <2>1. db \in Tables /\ Good(db)
      BY <1>1 DEF IInv, TypeOK
    <2>2. CASE db' = db
      BY <2>2 DEF Grows
    <2> QED  BY <1>1, <2>1, <2>2, StepChanges, ChangesGrow
  <1>2. IInv /\ [Next]_vars =>
          [DbCrash \/ /\ \A c \in {"tx", "out", "in", "spend"} : db[c] \subseteq db'[c]
                      /\ \A t \in Tx : db.tin[t] \subseteq db'.tin[t]]_vars
    BY <1>1 DEF Grows
  <1> QED  BY <1>2, Invariance, PTL DEF Spec, RowsOnlyGrow
=============================================================================
