---------------------------- MODULE LegacyProofs ----------------------------
(***************************************************************************)
(* Proofs about the scripts that came before crawlbtc and the upgrades of  *)
(* a database they have filled, for any chain, batch size and any failures *)
(* and kills of the scripts.                                               *)
(***************************************************************************)
EXTENDS Legacy, BlockJobsProofs

Feature == {"unset", "both", "vin", "vout", "op_return_only", "coinbase_only", "none"}

LegacyTables ==
  [vout : Columns(Height), vin : Columns(Height), tx : SUBSET Tx, tin : [Tx -> SUBSET Addressed],
   out : SUBSET Addressed, in : SUBSET Addressed, spend : SUBSET Out,
   features : [Height -> Feature]]

LegacyTypes ==
  /\ old \in LegacyTables
  /\ running \subseteq Script /\ claimed \in [Script -> SUBSET Height]
  /\ upgrade \in {"no"} \cup Upgrades /\ ended \in BOOLEAN

\* The scripts write the spends of a block together, and totals of inputs only.
Whole(d) ==
  /\ \A h \in Height : New!Spends[h] \subseteq d.spend \/ New!Spends[h] \cap d.spend = {}
  /\ \A h \in Height : d.vin[h] = "done" => New!Spends[h] \subseteq d.spend
  /\ \A t \in Tx : d.tin[t] \subseteq New!Prevouts[t]

\* Once the upgrade has begun the scripts have nothing more to write.
Stopped == upgrade # "no" => running = {} /\ claimed = [s \in Script |-> {}]

\* The features a script notes are those of the block.
Noted(d) == \A h \in Height : d.vout[h] = "done" => d.features[h] = LegacyFeatures(h)

ToDo(d, h) == d.vout[h] \in {"absent", "pending"}

\* Everything extract stores of a block with its prevouts.
WholeBlock(d, h) ==
  /\ New!Stored(d, h) /\ New!InRows[h] \subseteq d.in
  /\ \A t \in New!TxsOf[h] : d.tin[t] = New!Prevouts[t]

\* How far the upgrades are.
Progress(d) ==
  /\ upgrade = "no" => Noted(d)
  /\ upgrade = "rescan" => \A h \in Height : ToDo(d, h) \/ WholeBlock(d, h)
  /\ upgrade = "features" =>
       \A h \in Height : OldOutRows(h) = {} => ToDo(d, h) \/ New!OutRows[h] \subseteq d.out
  /\ upgrade = "repair" => \A h \in Height : d.vin[h] = "done" => New!InRows[h] \subseteq d.in

Finishes ==
  ended => /\ upgrade \in Upgrades
           /\ upgrade \in Extracting => WithStatus(old.vout, "pending") = {}

LegacyInv == LegacyTypes /\ Whole(old) /\ Stopped /\ Progress(old) /\ Finishes

-----------------------------------------------------------------------------
\* Extraction has a BlockJobs of its own, the same.
LEMMA SameJobs ==
  /\ \A col, H, s : New!Mark(col, H, s) = Mark(col, H, s)
  /\ \A col, H : New!RequeueRange(col, H) = RequeueRange(col, H)
  /\ \A col, H : New!RequeueFeatures(col, H) = RequeueFeatures(col, H)
  BY DEF New!Mark, Mark, New!RequeueRange, RequeueRange, New!RequeueFeatures, RequeueFeatures,
    New!Terminal, Terminal

\* The rows of a block, and no spend is of two blocks.
LEMMA ChainRows ==
  /\ \A h \in Height : /\ New!TxsOf[h] = {t \in Tx : BlockOf[t] = h}
                       /\ New!OutRows[h] = {o \in Addressed : BlockOf[TxOf[o]] = h}
                       /\ New!Spends[h] = {o \in Out : SpentBy[o] \in New!TxsOf[h]}
                       /\ New!InRows[h] = {o \in Addressed : SpentBy[o] \in New!TxsOf[h]}
  /\ \A t \in Tx : New!Prevouts[t] = {o \in Addressed : SpentBy[o] = t}
  BY DEF New!TxsOf, New!OutRows, New!Spends, New!InRows, New!Prevouts

LEMMA ChainTypes ==
  ASSUME NEW h \in Height
  PROVE  /\ New!TxsOf[h] \subseteq Tx /\ New!OutRows[h] \subseteq Addressed
         /\ New!Spends[h] \subseteq Out /\ New!InRows[h] \subseteq Addressed
         /\ OldOutRows(h) \subseteq New!OutRows[h]
         /\ \A k \in Height \ {h} : New!Spends[h] \cap New!Spends[k] = {}
         /\ \A t \in Tx : t \in New!TxsOf[h] <=> BlockOf[t] = h
         /\ \A t \in New!TxsOf[h] : New!Prevouts[t] \subseteq New!InRows[h]
  BY ChainRows DEF OldOutRows

LEMMA OtherBlocks ==
  \A h, k \in Height : k # h => \A t \in New!TxsOf[k] : t \in Tx /\ BlockOf[t] # h
  BY ChainRows

LEMMA PrevoutsType == \A t \in Tx : New!Prevouts[t] \subseteq Addressed
  BY ChainRows

LEMMA FeatureType ==
  \A h \in Height : LegacyFeatures(h) \in Feature /\ New!Features(h) \in Feature
  BY DEF LegacyFeatures, New!Features, Feature

-----------------------------------------------------------------------------
\* Columns whose done rows are done in another.
NoNewDone(col, new) ==
  new \in Columns(Height) /\ \A h \in Height : new[h] = "done" => col[h] = "done"

LEMMA ColumnSteps ==
  ASSUME NEW col \in Columns(Height), NEW H, NEW latest, NEW tip
  PROVE  /\ NoNewDone(col, Mark(col, H, "in_progress"))
         /\ NoNewDone(col, Mark(col, H, "failed"))
         /\ NoNewDone(col, Mark(col, H, "pending"))
         /\ NoNewDone(col, Mark(col, H, "skipped"))
         /\ NoNewDone(col, ResetAbandoned(col, H))
         /\ NoNewDone(col, InsertJobs(col, latest, tip))
         /\ NoNewDone(col, RequeueRange(col, H))
         /\ NoNewDone(col, RequeueFeatures(col, H))
  <1>1. \A s \in {"in_progress", "failed", "pending", "skipped"} :
          s \in JobStatus /\ s # "done"
    BY DEF JobStatus
  <1>2. \A s \in {"in_progress", "failed", "pending", "skipped"} : NoNewDone(col, Mark(col, H, s))
    BY <1>1, MarkColumn DEF NoNewDone
  <1> QED
    BY <1>2, ResetColumn, InsertColumn, RequeueRangeColumn, RequeueFeaturesColumn DEF NoNewDone

\* e is d but for statuses, none of which is done anew.
Fewer(d, e) ==
  /\ e \in LegacyTables
  /\ e.tx = d.tx /\ e.tin = d.tin /\ e.out = d.out /\ e.in = d.in /\ e.spend = d.spend
  /\ e.features = d.features
  /\ NoNewDone(d.vout, e.vout) /\ NoNewDone(d.vin, e.vin)

LEMMA FewerKeeps ==
  ASSUME NEW d, NEW e, Fewer(d, e), Whole(d)
  PROVE  Whole(e) /\ (Noted(d) => Noted(e))
  BY DEF Fewer, NoNewDone, Whole, Noted

\* The column of a script, and writing it back.
LEMMA PutFewer ==
  ASSUME LegacyTypes, NEW s \in Script, NEW col, NoNewDone(Column(s), col)
  PROVE  Column(s) \in Columns(Height) /\ Fewer(old, Put(s, col))
  BY DEF LegacyTypes, LegacyTables, Script, Column, Put, Fewer, NoNewDone

LEMMA ColumnType == ASSUME LegacyTypes, NEW s \in Script PROVE Column(s) \in Columns(Height)
  BY DEF LegacyTypes, LegacyTables, Column, Script

\* e is d with outputs O, inputs I and all spends of h, and no other block done.
Stores(d, e, h, O, I) ==
  /\ e \in LegacyTables
  /\ e.tx \in {d.tx, d.tx \cup New!TxsOf[h]}
  /\ e.out = d.out \cup O /\ e.in = d.in \cup I
  /\ e.spend = d.spend \cup New!Spends[h]
  /\ \A t \in Tx : e.tin[t] \in {d.tin[t], New!Prevouts[t], New!Prevouts[t] \cap I}
  /\ \A k \in Height \ {h} : /\ e.vout[k] = d.vout[k] /\ e.vin[k] = d.vin[k]
                             /\ e.features[k] = d.features[k]
                             /\ \A t \in New!TxsOf[k] : e.tin[t] = d.tin[t]

LEMMA StoresWhole ==
  ASSUME NEW d, NEW e, NEW h \in Height, NEW O, NEW I, Stores(d, e, h, O, I), Whole(d)
  PROVE  Whole(e)
  <1>1. \A k \in Height : New!Spends[k] \subseteq e.spend \/ New!Spends[k] \cap e.spend = {}
    <2>1. \A k \in Height \ {h} : New!Spends[k] \cap e.spend = New!Spends[k] \cap d.spend
      BY ChainTypes DEF Stores
    <2> QED
      BY <2>1 DEF Stores, Whole
  <1>2. \A k \in Height : e.vin[k] = "done" => New!Spends[k] \subseteq e.spend
    BY DEF Stores, Whole
  <1>3. \A t \in Tx : e.tin[t] \subseteq New!Prevouts[t]
    BY DEF Stores, Whole
  <1> QED
    BY <1>1, <1>2, <1>3 DEF Whole

\* The transaction of backfill-vins, old or new.
LEMMA BackfillStores ==
  ASSUME LegacyTypes, NEW h \in Height, NEW S \in SUBSET New!InRows[h]
  PROVE  /\ Stores(old, New!Backfilled(old, h, S), h, {}, S)
         /\ New!Backfilled(old, h, S).vout = old.vout
         /\ New!Backfilled(old, h, S).features = old.features
  <1> DEFINE e == New!Backfilled(old, h, S)
  <1>1. e = [old EXCEPT !.in = @ \cup S, !.tin = New!FillTotals(old, h, S),
                        !.spend = @ \cup New!Spends[h], !.vin = Mark(@, {h}, "done")]
    BY SameJobs DEF New!Backfilled
  <1>2. /\ Mark(old.vin, {h}, "done") \in Columns(Height)
        /\ \A k \in Height \ {h} : Mark(old.vin, {h}, "done")[k] = old.vin[k]
    BY MarkColumn DEF LegacyTypes, LegacyTables, JobStatus
  <1>3. \A t \in Tx : New!FillTotals(old, h, S)[t] =
          IF BlockOf[t] = h /\ t \in old.tx /\ old.tin[t] = {}
          THEN New!Prevouts[t] \cap S ELSE old.tin[t]
    BY DEF New!FillTotals
  <1>4. New!FillTotals(old, h, S) \in [Tx -> SUBSET Addressed]
    <2>1. New!FillTotals(old, h, S) =
            [t \in Tx |-> IF BlockOf[t] = h /\ t \in old.tx /\ old.tin[t] = {}
                          THEN New!Prevouts[t] \cap S ELSE old.tin[t]]
      BY DEF New!FillTotals
    <2> QED
      BY <2>1, PrevoutsType DEF LegacyTypes, LegacyTables
  <1>5. S \subseteq Addressed /\ New!Spends[h] \subseteq Out
    BY ChainTypes
  <1>6. e \in LegacyTables
    BY <1>1, <1>2, <1>4, <1>5 DEF LegacyTypes, LegacyTables
  <1>7. /\ e.tx = old.tx /\ e.out = old.out /\ e.in = old.in \cup S /\ e.vout = old.vout
        /\ e.spend = old.spend \cup New!Spends[h] /\ e.features = old.features
        /\ e.tin = New!FillTotals(old, h, S) /\ e.vin = Mark(old.vin, {h}, "done")
    BY <1>1 DEF LegacyTypes, LegacyTables
  <1> HIDE DEF e
  <1>8. \A k \in Height \ {h} : \A t \in New!TxsOf[k] : e.tin[t] = old.tin[t]
    BY <1>3, <1>7, OtherBlocks
  <1>9. \A t \in Tx : e.tin[t] \in {old.tin[t], New!Prevouts[t], New!Prevouts[t] \cap S}
    BY <1>3, <1>7
  <1>10. Stores(old, e, h, {}, S)
    BY <1>2, <1>6, <1>7, <1>8, <1>9 DEF Stores
  <1> QED
    BY <1>7, <1>10 DEF e

\* The transaction of the new extract phase, with prevouts.
LEMMA ExtractStores ==
  ASSUME LegacyTypes, NEW h \in Height
  PROVE  LET e == [New!Extracted(old, h, TRUE) EXCEPT !.features[h] = New!Features(h)]
         IN  /\ Stores(old, e, h, New!OutRows[h], New!InRows[h])
             /\ e.tx = old.tx \cup New!TxsOf[h]
             /\ \A t \in New!TxsOf[h] : New!Prevouts[t] # {} => e.tin[t] = New!Prevouts[t]
  <1> DEFINE x == New!Extracted(old, h, TRUE)
             e == [x EXCEPT !.features[h] = New!Features(h)]
             tin == New!UpsertTotals(old.tin, h, TRUE)
  <1>1. x = [old EXCEPT !.tx = @ \cup New!TxsOf[h], !.tin = tin,
                        !.out = @ \cup New!OutRows[h], !.in = @ \cup New!InRows[h],
                        !.spend = @ \cup New!Spends[h], !.vout = Mark(@, {h}, "done"),
                        !.vin = Mark(@, {h}, "done")]
    BY SameJobs DEF New!Extracted, LegacyTypes, LegacyTables
  <1>2. \A col \in {old.vout, old.vin} :
          /\ Mark(col, {h}, "done") \in Columns(Height)
          /\ \A k \in Height \ {h} : Mark(col, {h}, "done")[k] = col[k]
    BY MarkColumn DEF LegacyTypes, LegacyTables, JobStatus
  <1>3. /\ tin \in [Tx -> SUBSET Addressed]
        /\ \A t \in Tx : tin[t] = IF BlockOf[t] = h /\ New!Prevouts[t] # {}
                                  THEN New!Prevouts[t] ELSE old.tin[t]
    <2>1. tin = [t \in Tx |-> IF BlockOf[t] = h /\ New!Prevouts[t] # {}
                              THEN New!Prevouts[t] ELSE old.tin[t]]
      BY DEF New!UpsertTotals
    <2> QED
      BY <2>1, PrevoutsType DEF LegacyTypes, LegacyTables
  <1>4. /\ New!TxsOf[h] \subseteq Tx /\ New!OutRows[h] \subseteq Addressed
        /\ New!InRows[h] \subseteq Addressed /\ New!Spends[h] \subseteq Out
    BY ChainTypes
  <1> HIDE DEF x, tin
  <1>5. /\ x \in LegacyTables
        /\ x.tx = old.tx \cup New!TxsOf[h] /\ x.tin = tin /\ x.out = old.out \cup New!OutRows[h]
        /\ x.in = old.in \cup New!InRows[h] /\ x.spend = old.spend \cup New!Spends[h]
        /\ x.vout = Mark(old.vout, {h}, "done") /\ x.vin = Mark(old.vin, {h}, "done")
        /\ x.features = old.features
    BY <1>1, <1>2, <1>3, <1>4 DEF LegacyTypes, LegacyTables
  <1>6. /\ e \in LegacyTables
        /\ e.tx = x.tx /\ e.tin = x.tin /\ e.out = x.out /\ e.in = x.in /\ e.spend = x.spend
        /\ e.vout = x.vout /\ e.vin = x.vin
        /\ \A k \in Height \ {h} : e.features[k] = x.features[k]
    BY <1>5, FeatureType DEF LegacyTables
  <1> HIDE DEF e
  <1>7. \A k \in Height \ {h} : \A t \in New!TxsOf[k] : e.tin[t] = old.tin[t]
    BY <1>3, <1>5, <1>6, ChainTypes
  <1>8. \A t \in Tx : e.tin[t] \in {old.tin[t], New!Prevouts[t], New!Prevouts[t] \cap New!InRows[h]}
    BY <1>3, <1>5, <1>6
  <1>9. \A t \in New!TxsOf[h] : New!Prevouts[t] # {} => e.tin[t] = New!Prevouts[t]
    BY <1>3, <1>5, <1>6, ChainTypes
  <1>10. Stores(old, e, h, New!OutRows[h], New!InRows[h])
    <2>1. \A k \in Height \ {h} : /\ e.vout[k] = old.vout[k] /\ e.vin[k] = old.vin[k]
                                  /\ e.features[k] = old.features[k]
      BY <1>2, <1>5, <1>6
    <2> QED
      BY <1>5, <1>6, <1>7, <1>8, <2>1 DEF Stores
  <1> QED
    BY <1>5, <1>6, <1>9, <1>10 DEF e, x

-----------------------------------------------------------------------------
\* The scripts.

LEMMA ExtractedLegacy ==
  ASSUME LegacyTypes, Whole(old), Noted(old), NEW h \in Height
  PROVE  /\ LegacyExtracted(h) \in LegacyTables
         /\ Whole(LegacyExtracted(h)) /\ Noted(LegacyExtracted(h))
  <1> DEFINE e == LegacyExtracted(h)
  <1>0. old.vout \in Columns(Height)
    BY DEF LegacyTypes, LegacyTables
  <1>1. CASE LegacyFeatures(h) = "none"
    <2>1. e = Put(0, Mark(old.vout, {h}, "skipped"))
      BY <1>1 DEF LegacyExtracted, Put
    <2>2. Fewer(old, e)
      BY <1>0, <2>1, ColumnSteps, PutFewer DEF Script, Column
    <2> QED
      BY <2>2, FewerKeeps DEF Fewer
  <1>2. CASE LegacyFeatures(h) # "none"
    <2>1. e = [old EXCEPT !.tx = @ \cup New!TxsOf[h], !.out = @ \cup OldOutRows(h),
                          !.vout = Mark(@, {h}, "done"),
                          !.features = IF old.vout[h] = "absent" THEN @
                                       ELSE [@ EXCEPT ![h] = LegacyFeatures(h)]]
      BY <1>2 DEF LegacyExtracted
    <2>2. /\ Mark(old.vout, {h}, "done") \in Columns(Height)
          /\ \A k \in Height : Mark(old.vout, {h}, "done")[k] =
               IF k = h /\ old.vout[k] # "absent" THEN "done" ELSE old.vout[k]
      BY <1>0, MarkColumn DEF JobStatus
    <2>3. New!TxsOf[h] \subseteq Tx /\ OldOutRows(h) \subseteq Addressed
      BY ChainTypes
    <2>4. e \in LegacyTables
      <3> DEFINE F == IF old.vout[h] = "absent" THEN old.features
                      ELSE [old.features EXCEPT ![h] = LegacyFeatures(h)]
      <3>1. F \in [Height -> Feature]
        BY FeatureType DEF LegacyTypes, LegacyTables
      <3>2. e = [old EXCEPT !.tx = @ \cup New!TxsOf[h], !.out = @ \cup OldOutRows(h),
                            !.vout = Mark(@, {h}, "done"), !.features = F]
        BY <2>1
      <3> HIDE DEF F, e
      <3> QED
        BY <2>2, <2>3, <3>1, <3>2 DEF LegacyTypes, LegacyTables
    <2>5. /\ e.tin = old.tin /\ e.in = old.in /\ e.spend = old.spend /\ e.vin = old.vin
          /\ e.vout = Mark(old.vout, {h}, "done")
          /\ \A k \in Height : e.features[k] = IF k = h /\ old.vout[h] # "absent"
                                                THEN LegacyFeatures(h) ELSE old.features[k]
      BY <2>1 DEF LegacyTypes, LegacyTables
    <2> HIDE DEF e
    <2>6. Whole(e)
      BY <2>5 DEF Whole
    <2>7. Noted(e)
      BY <2>2, <2>5 DEF Noted
    <2> QED
      BY <2>4, <2>6, <2>7 DEF e
  <1> QED
    BY <1>1, <1>2

\* The quick check passes a block over only if a transaction has written its
\* spends, all of them.
LEMMA BackfilledLegacy ==
  ASSUME LegacyTypes, Whole(old), Noted(old), NEW h \in Height, NEW e \in LegacyBackfills(h)
  PROVE  e \in LegacyTables /\ Whole(e) /\ Noted(e)
  <1>1. CASE LooksComplete(h)
    <2>1. e = [old EXCEPT !.vin = Mark(@, {h}, "done")]
      BY <1>1 DEF LegacyBackfills
    <2>2. /\ Mark(old.vin, {h}, "done") \in Columns(Height)
          /\ \A k \in Height \ {h} : Mark(old.vin, {h}, "done")[k] = old.vin[k]
      BY MarkColumn DEF LegacyTypes, LegacyTables, JobStatus
    <2>3. /\ e \in LegacyTables /\ e.vin = Mark(old.vin, {h}, "done") /\ e.vout = old.vout
          /\ e.tin = old.tin /\ e.spend = old.spend /\ e.features = old.features
      BY <2>1, <2>2 DEF LegacyTypes, LegacyTables
    <2>4. New!Spends[h] \subseteq old.spend
      BY <1>1 DEF LooksComplete, Whole
    <2> QED
      BY <2>2, <2>3, <2>4 DEF Whole, Noted
  <1>2. CASE ~LooksComplete(h)
    <2>1. PICK S \in SUBSET New!InRows[h] : e = New!Backfilled(old, h, S)
      BY <1>2 DEF LegacyBackfills, LegacyBackfilled, LegacyResolved
    <2>2. Stores(old, e, h, {}, S) /\ e.vout = old.vout /\ e.features = old.features
      BY <2>1, BackfillStores
    <2>3. Noted(e)
      BY <2>2 DEF Noted
    <2>4. Whole(e)
      BY <2>2, StoresWhole
    <2> QED
      BY <2>2, <2>3, <2>4 DEF Stores
  <1> QED
    BY <1>1, <1>2

\* A step of the scripts: the tables stay whole, and the features noted.
LEMMA ScriptStep ==
  ASSUME LegacyInv, upgrade = "no", old' \in LegacyTables, Whole(old'), Noted(old'),
         running' \subseteq Script, claimed' \in [Script -> SUBSET Height],
         UNCHANGED <<upgrade, ended>>
  PROVE  LegacyInv'
  BY DEF LegacyInv, LegacyTypes, Stopped, Progress, Finishes, Upgrades, Extracting

LEMMA ScriptFewer ==
  ASSUME LegacyInv, upgrade = "no", Fewer(old, old'),
         running' \subseteq Script, claimed' \in [Script -> SUBSET Height],
         UNCHANGED <<upgrade, ended>>
  PROVE  LegacyInv'
  BY FewerKeeps, ScriptStep DEF LegacyInv, Progress, Fewer

\* They have nothing in hand once the upgrade has begun.
LEMMA ScriptsStopped ==
  ASSUME LegacyInv, NEW s \in Script, s \in running \/ claimed[s] # {}
  PROVE  upgrade = "no"
  BY DEF LegacyInv, Stopped

LEMMA TopUpFewer ==
  ASSUME NEW d \in LegacyTables, NEW latest
  PROVE  /\ Fewer(d, TopUp(d, latest))
         /\ TopUp(d, latest).vout = InsertJobs(d.vout, latest, ChainTip)
  <1>1. /\ NoNewDone(d.vout, InsertJobs(d.vout, latest, ChainTip))
        /\ NoNewDone(d.vin, InsertJobs(d.vin, latest, ChainTip))
    BY ColumnSteps DEF LegacyTables
  <1>2. TopUp(d, latest) = [d EXCEPT !.vout = InsertJobs(@, latest, ChainTip),
                                     !.vin = InsertJobs(@, latest, ChainTip)]
    BY DEF TopUp
  <1>3. TopUp(d, latest) \in LegacyTables
    BY <1>1, <1>2 DEF LegacyTables, NoNewDone
  <1> QED
    BY <1>1, <1>2, <1>3 DEF Fewer, LegacyTables

LEMMA ScriptSteps ==
  ASSUME LegacyInv, NEW s \in Script,
         \/ LegacyStart(s) \/ LegacyClaim(s) \/ LegacyMonitor(s)
         \/ LegacyDies(s) \/ LegacyFails(s) \/ LegacyCommit(s)
  PROVE  LegacyInv'
  <1>0. LegacyTypes /\ Column(s) \in Columns(Height) /\ Fewer(old, old)
    BY ColumnType DEF LegacyInv, LegacyTypes, Fewer, NoNewDone, LegacyTables
  <1>1. CASE LegacyStart(s)
    <2>1. PICK H : old' = Put(s, ResetAbandoned(Column(s), H))
      BY <1>1 DEF LegacyStart
    <2>2. Fewer(old, old')
      BY <1>0, <2>1, ColumnSteps, PutFewer
    <2> QED
      BY <1>0, <1>1, <2>2, ScriptFewer DEF LegacyStart, LegacyTypes
  <1>2. CASE LegacyClaim(s)
    <2>1. upgrade = "no"
      BY <1>2, ScriptsStopped DEF LegacyClaim
    <2>2. Fewer(old, old')
      BY <1>0, <1>2, ColumnSteps, PutFewer DEF LegacyClaim
    <2>3. Claimed(s) \subseteq Height
      BY DEF Claimed, Lowest, Claimable, ReadyFor
    <2> QED
      BY <1>0, <1>2, <2>1, <2>2, <2>3, ScriptFewer DEF LegacyClaim, LegacyTypes
  <1>3. CASE LegacyMonitor(s)
    <2>1. upgrade = "no"
      BY <1>3, ScriptsStopped DEF LegacyMonitor
    <2>2. old' = old \/ \E latest : old' = TopUp(old, latest)
      BY <1>3 DEF LegacyMonitor
    <2>3. Fewer(old, old')
      BY <1>0, <2>2, TopUpFewer DEF LegacyTypes
    <2>4. running' \subseteq running /\ UNCHANGED <<claimed, upgrade, ended>>
      BY <1>3 DEF LegacyMonitor
    <2> QED
      BY <1>0, <2>1, <2>3, <2>4, ScriptFewer DEF LegacyTypes
  <1>4. CASE LegacyDies(s)
    <2>1. upgrade = "no"
      BY <1>4, ScriptsStopped DEF LegacyDies
    <2> QED
      BY <1>0, <1>4, <2>1, ScriptFewer DEF LegacyDies, Stops, LegacyTypes
  <1>5. CASE LegacyFails(s)
    <2>1. PICK h \in claimed[s] :
            /\ old' = Put(s, Mark(Column(s), {h}, "failed"))
            /\ \/ Stops(s)
               \/ claimed' = [claimed EXCEPT ![s] = @ \ {h}] /\ UNCHANGED running
      BY <1>5 DEF LegacyFails
    <2>2. upgrade = "no"
      BY <2>1, ScriptsStopped
    <2>3. Fewer(old, old')
      BY <1>0, <2>1, ColumnSteps, PutFewer
    <2> QED
      BY <1>0, <1>5, <2>1, <2>2, <2>3, ScriptFewer DEF LegacyFails, Stops, LegacyTypes
  <1>6. CASE LegacyCommit(s)
    <2>1. PICK h \in claimed[s] :
            /\ old' \in IF s = 0 THEN {LegacyExtracted(h)} ELSE LegacyBackfills(h)
            /\ claimed' = [claimed EXCEPT ![s] = @ \ {h}]
      BY <1>6 DEF LegacyCommit
    <2>2. upgrade = "no" /\ h \in Height
      BY <1>0, <2>1, ScriptsStopped DEF LegacyTypes
    <2>3. old' \in LegacyTables /\ Whole(old') /\ Noted(old')
      BY <1>0, <2>1, <2>2, ExtractedLegacy, BackfilledLegacy DEF LegacyInv, Progress
    <2> QED
      BY <1>0, <1>6, <2>1, <2>2, <2>3, ScriptStep DEF LegacyCommit, LegacyTypes
  <1> QED
    BY <1>1, <1>2, <1>3, <1>4, <1>5, <1>6

LEMMA GenesisStep == ASSUME LegacyInv, Genesis PROVE LegacyInv'
  <1>1. old' \in LegacyTables /\ Whole(old') /\ Noted(old')
    BY ExtractedLegacy DEF Genesis, LegacyInv, Progress
  <1> QED
    BY <1>1, ScriptStep DEF Genesis, LegacyInv, LegacyTypes

-----------------------------------------------------------------------------
\* The upgrade.

LEMMA FewerTwice == ASSUME NEW d, NEW e, NEW f, Fewer(d, e), Fewer(e, f) PROVE Fewer(d, f)
  BY DEF Fewer, NoNewDone

LEMMA ColumnFewer ==
  ASSUME NEW d \in LegacyTables, NEW col
  PROVE  /\ NoNewDone(d.vout, col) =>
              Fewer(d, [d EXCEPT !.vout = col]) /\ [d EXCEPT !.vout = col].vout = col
         /\ NoNewDone(d.vin, col) =>
              Fewer(d, [d EXCEPT !.vin = col]) /\ [d EXCEPT !.vin = col].vin = col
  BY DEF LegacyTables, Fewer, NoNewDone

\* What diagnose selects: all that is in no state to have its outputs.
FeatureHeights ==
  {h \in Height : old.features[h] \in Suspect \/ old.vout[h] \in {"failed", "skipped"}}

\* What each requeue leaves of the queue.
LEMMA Selects ==
  ASSUME LegacyTypes, NEW how \in Upgrades
  PROVE  /\ Fewer(old, Selected(how))
         /\ how = "rescan" => Selected(how).vout = RequeueRange(old.vout, Height)
         /\ how = "features" => Selected(how).vout = RequeueFeatures(old.vout, FeatureHeights)
         /\ how = "repair" => Selected(how).vin = RequeueRange(old.vin, Height)
  <1> USE DEF Upgrades, Extracting
  <1>0. old \in LegacyTables /\ old.vout \in Columns(Height) /\ old.vin \in Columns(Height)
    BY DEF LegacyTypes, LegacyTables
  <1>1. CASE how = "skipped"
    <2>1. Selected(how) =
            [old EXCEPT !.vout = Mark(old.vout, WithStatus(old.vout, "skipped"), "pending")]
      BY <1>0, <1>1 DEF Selected, LegacyTables
    <2> QED
      BY <1>0, <1>1, <2>1, ColumnSteps, ColumnFewer
  <1>2. CASE how = "rescan"
    <2>1. Selected(how) = [old EXCEPT !.vout = RequeueRange(old.vout, Height)]
      BY <1>0, <1>2, SameJobs DEF Selected, New!Requeued, New!RequeuedColumn, LegacyTables
    <2> QED
      BY <1>0, <1>2, <2>1, ColumnSteps, ColumnFewer
  <1>3. CASE how = "repair"
    <2>1. Selected(how) = [old EXCEPT !.vin = RequeueRange(old.vin, Height)]
      BY <1>0, <1>3, SameJobs DEF Selected, New!Requeued, New!RequeuedColumn, LegacyTables
    <2> QED
      BY <1>0, <1>3, <2>1, ColumnSteps, ColumnFewer
  <1>4. CASE how = "features"
    <2>1. Selected(how) = [old EXCEPT !.vout = RequeueFeatures(old.vout, FeatureHeights)]
      BY <1>0, <1>4, SameJobs
        DEF Selected, FeatureHeights, New!Requeued, New!RequeuedColumn, LegacyTables
    <2> QED
      BY <1>0, <1>4, <2>1, ColumnSteps, ColumnFewer
  <1> QED
    BY <1>1, <1>2, <1>3, <1>4

\* A block without outputs the scripts would store, though it has others, is
\* one whose features are suspect.
LEMMA LostOutputsSuspect ==
  ASSUME NEW h \in Height, OldOutRows(h) = {}, New!OutRows[h] # {}
  PROVE  LegacyFeatures(h) \in Suspect
  <1>1. PICK o \in Addressed : BlockOf[TxOf[o]] = h
    BY ChainRows
  <1>2. o \in Valued
    BY LegacyAssumption
  <1> QED
    BY <1>1, <1>2 DEF LegacyFeatures, Suspect

\* Where an upgrade starts from.
LEMMA BeginsProgress ==
  ASSUME LegacyTypes, Noted(old), NEW how \in Upgrades, NEW d, Fewer(Selected(how), d),
         how # "repair" => \A h \in Height :
           d.vout[h] = Selected(how).vout[h]
             \/ (d.vout[h] = "pending" /\ Selected(how).vout[h] \in {"absent", "in_progress"}),
         how # "repair" => \A h \in Height : d.vout[h] # "in_progress"
  PROVE  /\ how = "rescan" => \A h \in Height : ToDo(d, h)
         /\ how = "features" => \A h \in Height :
              OldOutRows(h) = {} => ToDo(d, h) \/ New!OutRows[h] = {}
         /\ how = "repair" => \A h \in Height : d.vin[h] # "done"
  <1>0. old.vout \in Columns(Height) /\ old.vin \in Columns(Height)
    BY DEF LegacyTypes, LegacyTables
  <1>1. ASSUME how = "rescan", NEW h \in Height PROVE ToDo(d, h)
    <2>1. Selected(how).vout[h] =
            IF old.vout[h] \in Terminal THEN "pending" ELSE old.vout[h]
      BY <1>0, <1>1, Selects, RequeueRangeColumn
    <2>2. old.vout[h] \in JobStatus
      BY <1>0 DEF Columns
    <2> QED
      BY <1>1, <2>1, <2>2 DEF ToDo, JobStatus, Terminal
  <1>2. ASSUME how = "features", NEW h \in Height, OldOutRows(h) = {}
        PROVE  ToDo(d, h) \/ New!OutRows[h] = {}
    <2>1. Selected(how).vout[h] =
            IF h \in FeatureHeights /\ old.vout[h] # "absent" THEN "pending" ELSE old.vout[h]
      BY <1>0, <1>2, Selects, RequeueFeaturesColumn
    <2>2. CASE h \in FeatureHeights
      BY <1>2, <2>1, <2>2 DEF ToDo
    <2>3. CASE h \notin FeatureHeights
      <3>1. old.vout[h] \notin {"failed", "skipped"} /\ old.features[h] \notin Suspect
        BY <2>3 DEF FeatureHeights
      <3>2. old.vout[h] \in JobStatus
        BY <1>0 DEF Columns
      <3>3. old.vout[h] = "done" => New!OutRows[h] = {}
        BY <1>2, <3>1, LostOutputsSuspect DEF Noted
      <3> QED
        BY <1>2, <2>1, <2>3, <3>1, <3>2, <3>3 DEF ToDo, JobStatus
    <2> QED
      BY <2>2, <2>3
  <1>3. ASSUME how = "repair", NEW h \in Height PROVE d.vin[h] # "done"
    <2>1. Selected(how).vin[h] # "done"
      BY <1>0, <1>3, Selects, RequeueRangeColumn DEF Terminal
    <2> QED
      BY <2>1 DEF Fewer, NoNewDone
  <1> QED
    BY <1>1, <1>2, <1>3

LEMMA BeginStep == ASSUME LegacyInv, BeginUpgrade PROVE LegacyInv'
  <1>1. PICK how \in Upgrades :
          /\ upgrade' = how
          /\ old' = LET chosen == Selected(how)
                    IN  IF how = "repair"
                        THEN [chosen EXCEPT !.vin = ResetAbandoned(@, Height)]
                        ELSE TopUp([chosen EXCEPT !.vout = ResetAbandoned(@, Height)],
                                   LatestJob(chosen.vout))
    BY DEF BeginUpgrade
  <1>2. /\ LegacyTypes /\ Whole(old) /\ Noted(old) /\ upgrade = "no" /\ ended = FALSE
        /\ ended' = ended /\ running' = {} /\ claimed' = [s \in Script |-> {}]
    BY DEF LegacyInv, BeginUpgrade, Progress, Finishes, LegacyTypes, Upgrades, Extracting
  <1> DEFINE chosen == Selected(how)
             reset == IF how = "repair" THEN [chosen EXCEPT !.vin = ResetAbandoned(chosen.vin, Height)]
                      ELSE [chosen EXCEPT !.vout = ResetAbandoned(chosen.vout, Height)]
  <1>3. Fewer(old, chosen) /\ chosen \in LegacyTables
    BY <1>2, Selects DEF Fewer
  <1>4. chosen.vout \in Columns(Height) /\ chosen.vin \in Columns(Height)
    BY <1>3 DEF LegacyTables
  <1>5. old' = IF how = "repair" THEN reset ELSE TopUp(reset, LatestJob(chosen.vout))
    BY <1>1, <1>3 DEF LegacyTables
  <1> HIDE DEF chosen
  <1>6. /\ Fewer(chosen, reset) /\ reset \in LegacyTables
        /\ how # "repair" => reset.vout = ResetAbandoned(chosen.vout, Height)
    <2>1. /\ NoNewDone(chosen.vout, ResetAbandoned(chosen.vout, Height))
          /\ NoNewDone(chosen.vin, ResetAbandoned(chosen.vin, Height))
      BY <1>4, ColumnSteps
    <2>2. Fewer(chosen, reset) /\ (how # "repair" => reset.vout = ResetAbandoned(chosen.vout, Height))
      BY <1>3, <2>1, ColumnFewer
    <2> QED
      BY <2>2 DEF Fewer
  <1> HIDE DEF reset
  <1>7. /\ Fewer(reset, old')
        /\ how # "repair" => old'.vout = InsertJobs(reset.vout, LatestJob(chosen.vout), ChainTip)
    <2>1. Fewer(reset, reset)
      BY <1>6 DEF Fewer, NoNewDone, LegacyTables
    <2> QED
      BY <1>5, <1>6, <2>1, TopUpFewer
  <1>8. Fewer(chosen, old') /\ Fewer(old, old')
    BY <1>3, <1>6, <1>7, FewerTwice
  <1>9. ASSUME how # "repair", NEW h \in Height
        PROVE  /\ old'.vout[h] # "in_progress"
               /\ old'.vout[h] = chosen.vout[h]
                    \/ (old'.vout[h] = "pending" /\ chosen.vout[h] \in {"absent", "in_progress"})
    <2>1. reset.vout[h] = IF chosen.vout[h] = "in_progress" THEN "pending" ELSE chosen.vout[h]
      BY <1>4, <1>6, <1>9, ResetColumn
    <2>2. old'.vout[h] = reset.vout[h] \/ (old'.vout[h] = "pending" /\ reset.vout[h] = "absent")
      <3>1. reset.vout \in Columns(Height)
        BY <1>6 DEF LegacyTables
      <3> QED
        BY <1>7, <1>9, <3>1, InsertColumn
    <2> QED
      BY <2>1, <2>2
  <1>10. /\ how = "rescan" => \A h \in Height : ToDo(old', h)
         /\ how = "features" => \A h \in Height :
              OldOutRows(h) = {} => ToDo(old', h) \/ New!OutRows[h] = {}
         /\ how = "repair" => \A h \in Height : old'.vin[h] # "done"
    BY <1>2, <1>8, <1>9, BeginsProgress DEF chosen
  <1>11. Progress(old)'
    BY <1>1, <1>10 DEF Progress, Upgrades, Extracting, ToDo, WholeBlock
  <1>12. Whole(old')
    BY <1>2, <1>8, FewerKeeps
  <1>13. LegacyTypes'
    BY <1>1, <1>2, <1>8 DEF LegacyTypes, Fewer
  <1> QED
    BY <1>2, <1>11, <1>12, <1>13 DEF LegacyInv, Whole, Stopped, Finishes

\* The tables after a transaction of the new extract phase.
LEMMA ExtractsBlock ==
  ASSUME LegacyInv, NEW h \in Height, NewExtract(h)
  PROVE  /\ old' \in LegacyTables /\ Whole(old') /\ WholeBlock(old', h)
         /\ \A k \in Height \ {h} :
              /\ ToDo(old, k) => ToDo(old', k)
              /\ WholeBlock(old, k) => WholeBlock(old', k)
         /\ old.out \subseteq old'.out
  <1>0. LegacyTypes /\ Whole(old) /\ old \in LegacyTables
    BY DEF LegacyInv, LegacyTypes
  <1>1. CASE New!Features(h) = "none"
    <2>1. old' = [old EXCEPT !.vout = Mark(@, {h}, "skipped"), !.vin = Mark(@, {h}, "done")]
      BY <1>1 DEF NewExtract
    <2>2. \A col \in {old.vout, old.vin}, s \in {"skipped", "done"} :
            /\ Mark(col, {h}, s) \in Columns(Height)
            /\ \A k \in Height \ {h} : Mark(col, {h}, s)[k] = col[k]
      BY <1>0, MarkColumn DEF LegacyTables, JobStatus
    <2>3. /\ old' \in LegacyTables
          /\ old'.vout = Mark(old.vout, {h}, "skipped") /\ old'.vin = Mark(old.vin, {h}, "done")
          /\ old'.tx = old.tx /\ old'.tin = old.tin /\ old'.out = old.out
          /\ old'.in = old.in /\ old'.spend = old.spend
      BY <1>0, <2>1, <2>2 DEF LegacyTables
    <2>4. New!Spends[h] = {} /\ New!OutRows[h] = {} /\ New!TxsOf[h] = {}
      BY <1>1 DEF New!Features
    <2>5. New!InRows[h] = {}
      BY <2>4, ChainRows
    <2>6. Whole(old')
      BY <1>0, <2>2, <2>3, <2>4 DEF Whole
    <2> QED
      BY <2>2, <2>3, <2>4, <2>5, <2>6 DEF WholeBlock, New!Stored, ToDo
  <1>2. CASE New!Features(h) # "none"
    <2>1. old' = [New!Extracted(old, h, TRUE) EXCEPT !.features[h] = New!Features(h)]
      BY <1>2 DEF NewExtract
    <2>2. /\ Stores(old, old', h, New!OutRows[h], New!InRows[h])
          /\ old'.tx = old.tx \cup New!TxsOf[h]
          /\ \A t \in New!TxsOf[h] : New!Prevouts[t] # {} => old'.tin[t] = New!Prevouts[t]
      BY <1>0, <2>1, ExtractStores
    <2>3. Whole(old')
      BY <1>0, <2>2, StoresWhole
    <2>4. \A t \in New!TxsOf[h] : old'.tin[t] = New!Prevouts[t]
      <3>1. \A t \in New!TxsOf[h] : old'.tin[t] \subseteq New!Prevouts[t]
        BY <2>3, ChainTypes DEF Whole
      <3>2. \A t \in New!TxsOf[h] : New!Prevouts[t] = {} => old'.tin[t] = {}
        BY <3>1
      <3> QED
        BY <2>2, <3>2
    <2>5. WholeBlock(old', h)
      BY <2>2, <2>4 DEF Stores, WholeBlock, New!Stored
    <2>6. \A k \in Height \ {h} : /\ ToDo(old, k) => ToDo(old', k)
                                  /\ WholeBlock(old, k) => WholeBlock(old', k)
      BY <2>2 DEF Stores, WholeBlock, New!Stored, ToDo
    <2> QED
      BY <2>2, <2>3, <2>5, <2>6 DEF Stores
  <1> QED
    BY <1>1, <1>2

LEMMA NewExtractStep == ASSUME LegacyInv, NEW h \in Height, NewExtract(h) PROVE LegacyInv'
  <1>1. /\ upgrade \in Extracting /\ old.vout[h] = "pending"
        /\ UNCHANGED <<running, claimed, upgrade, ended>>
    BY DEF NewExtract
  <1>2. ended = FALSE
    BY <1>1 DEF LegacyInv, LegacyTypes, LegacyTables, Finishes, WithStatus, Columns
  <1>3. New!OutRows[h] \subseteq old'.out
    BY ExtractsBlock DEF WholeBlock, New!Stored
  <1>4. Progress(old)'
    <2>1. upgrade = "rescan" => \A k \in Height : ToDo(old', k) \/ WholeBlock(old', k)
      BY ExtractsBlock DEF LegacyInv, Progress
    <2>2. upgrade = "features" =>
            \A k \in Height : OldOutRows(k) = {} => ToDo(old', k) \/ New!OutRows[k] \subseteq old'.out
      BY <1>3, ExtractsBlock DEF LegacyInv, Progress
    <2> QED
      BY <1>1, <2>1, <2>2 DEF Progress, Extracting, ToDo, WholeBlock
  <1>5. LegacyTypes' /\ Whole(old)'
    BY <1>1, ExtractsBlock DEF LegacyInv, LegacyTypes, Whole
  <1> QED
    BY <1>1, <1>2, <1>4, <1>5 DEF LegacyInv, Stopped, Finishes

LEMMA NewBackfillStep == ASSUME LegacyInv, NEW h \in Height, NewBackfill(h) PROVE LegacyInv'
  <1>1. /\ upgrade = "repair" /\ UNCHANGED <<running, claimed, upgrade, ended>>
        /\ LegacyTypes /\ Whole(old)
    BY DEF NewBackfill, LegacyInv
  <1>2. old' = New!Backfilled(old, h, New!InRows[h])
    BY DEF NewBackfill, Repaired, New!Resolved
  <1>3. Stores(old, old', h, {}, New!InRows[h])
    BY <1>1, <1>2, BackfillStores
  <1>4. Whole(old')
    BY <1>1, <1>3, StoresWhole
  <1>5. \A k \in Height : old'.vin[k] = "done" => New!InRows[k] \subseteq old'.in
    BY <1>1, <1>3 DEF Stores, LegacyInv, Progress
  <1>6. Progress(old)'
    BY <1>1, <1>5 DEF Progress
  <1> QED
    BY <1>1, <1>3, <1>4, <1>6
      DEF Stores, LegacyInv, LegacyTypes, Whole, Stopped, Finishes, Upgrades, Extracting

LEMMA EndStep == ASSUME LegacyInv, EndUpgrade PROVE LegacyInv'
  BY DEF LegacyInv, EndUpgrade, LegacyTypes, Whole, Stopped, Progress, Noted, Finishes,
    Upgrades, Extracting, ToDo, WholeBlock, New!Stored

LEMMA LegacyInitial == LegacyInit => LegacyInv
  <1> SUFFICES ASSUME LegacyInit PROVE LegacyInv
    OBVIOUS
  <1>1. /\ old.vout = [h \in Height |-> "absent"] /\ old.vin = [h \in Height |-> "absent"]
        /\ old.tin = [t \in Tx |-> {}] /\ old.spend = {} /\ upgrade = "no" /\ ended = FALSE
    BY DEF LegacyInit
  <1>2. old \in LegacyTables
    <2>1. \A s \in {"absent"} : [h \in Height |-> s] \in Columns(Height)
      BY DEF Columns, JobStatus
    <2>2. [h \in Height |-> "unset"] \in [Height -> Feature]
      BY DEF Feature
    <2>3. [t \in Tx |-> {}] \in [Tx -> SUBSET Addressed]
      OBVIOUS
    <2> QED
      BY <2>1, <2>2, <2>3 DEF LegacyInit, LegacyTables
  <1>3. LegacyTypes
    BY <1>2 DEF LegacyInit, LegacyTypes
  <1>4. Whole(old) /\ Noted(old)
    BY <1>1 DEF Whole, Noted
  <1> QED
    BY <1>1, <1>3, <1>4 DEF LegacyInv, Stopped, Progress, Finishes

LEMMA LegacyPreserved == LegacyInv /\ [LegacyNext]_legacyVars => LegacyInv'
  <1> SUFFICES ASSUME LegacyInv, [LegacyNext]_legacyVars PROVE LegacyInv'
    OBVIOUS
  <1>1. CASE UNCHANGED legacyVars
    BY <1>1 DEF legacyVars, LegacyInv, LegacyTypes, Whole, Stopped, Progress, Noted, Finishes,
      ToDo, WholeBlock, New!Stored
  <1>2. CASE LegacyNext
    BY <1>2, ScriptSteps, GenesisStep, BeginStep, NewExtractStep, NewBackfillStep, EndStep
      DEF LegacyNext
  <1> QED
    BY <1>1, <1>2

LEMMA LegacyInvariance == LegacySpec => []LegacyInv
  BY LegacyInitial, LegacyPreserved, PTL DEF LegacySpec

-----------------------------------------------------------------------------
\* A block whose vin_status is done has all its spends: the transactions of the
\* scripts write none or all of them, so the quick check, which looks for one
\* of them, finds all (01_backfill_vins.py:413-437, 470-480).
THEOREM AllSpendsRecorded == LegacySpec => []LegacySpends
  <1>1. LegacyInv => LegacySpends
    BY DEF LegacyInv, Whole, LegacySpends
  <1> QED
    BY <1>1, LegacyInvariance, PTL

\* A rescan of all heights, and the repair pass, bring in all that the scripts
\* have left out (ingest.py:24-31, backfill_vins.py:3-12).
THEOREM UpgradesAreComplete == LegacySpec => []UpgradeCompletes
  <1>1. LegacyInv => UpgradeCompletes
    BY DEF LegacyInv, LegacyTypes, LegacyTables, Progress, Finishes, UpgradeCompletes, Queued,
      Rows, WithStatus, ToDo, WholeBlock, Extracting, Columns
  <1> QED
    BY <1>1, LegacyInvariance, PTL

\* The features diagnose selects are those of all blocks the scripts may have
\* left without an output (diagnose.py:227-231).
THEOREM DiagnosedFeaturesSuffice == LegacySpec => []FeaturesSuffice
  <1>1. LegacyInv => FeaturesSuffice
    BY DEF LegacyInv, LegacyTypes, LegacyTables, Progress, Finishes, FeaturesSuffice, Queued,
      Rows, WithStatus, ToDo, Extracting, Columns
  <1> QED
    BY <1>1, LegacyInvariance, PTL
=============================================================================
