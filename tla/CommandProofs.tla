--------------------------- MODULE CommandProofs ---------------------------
(***************************************************************************)
(* Proofs about the commands beside the pipeline (Commands.tla): list      *)
(* import and lookup of tags, configuration backup and restore, dump and   *)
(* verification, address labels, derived addresses and balances.           *)
(***************************************************************************)
EXTENDS Backup, EntityTags, ConfigFiles, Coins, BlockJobsProofs

\* The provers do not know of a literal that it is a string.
TagRow == [address : TagAddr \cup {Blank}, source : STRING \cup {"OFAC"},
           category : STRING \cup {"sanctioned"}, confidence : Nat]

\* The rows of import-ofac on their way say sanctioned, and so does a tag of OFAC
\* in the table if it came from there.
TagTypes ==
  /\ todo \in [Session -> Seq(TagRow)]
  /\ reading \in [Session -> Lists \cup {<<>>}]
  /\ \A s \in Session : reading[s] # <<>> =>
       \A i \in 1..Len(todo[s]) : todo[s][i].category = "sanctioned"
  /\ \A k \in DOMAIN tags : /\ k = <<k[1], k[2]>>
                            /\ k[2] = "OFAC" /\ k[1] \notin relabelled =>
                                 tags[k].category = "sanctioned"

Tagged(a) == <<a, "OFAC">> \in DOMAIN tags
OnItsWay(s, a) == \E i \in 1..Len(todo[s]) : todo[s][i].address = a /\ todo[s][i].source = "OFAC"

\* What a list that is being imported has for Bitcoin is tagged or still to come.
Comes ==
  \A s \in Session : todo[s] # <<>> =>
    \A a \in BitcoinOnly(reading[s]) \ removed : Tagged(a) \/ OnItsWay(s, a)

TagsInv == TagTypes /\ Comes /\ OfacComplete

LEMMA RowIsTag ==
  ASSUME NEW x \in TagAddr \cup {Blank}
  PROVE  [address |-> x, source |-> "OFAC", category |-> "sanctioned", confidence |-> 10] \in TagRow
  BY DEF TagRow

\* What import-ofac inserts: the entries of a list, and all it has for Bitcoin alone.
LEMMA OfacListed ==
  ASSUME NEW l \in Lists, NEW all \in BOOLEAN
  PROVE  /\ OfacRows(l, all) \in Seq(TagRow)
         /\ \A i \in 1..Len(OfacRows(l, all)) : OfacRows(l, all)[i].category = "sanctioned"
         /\ \A a \in BitcoinOnly(l) : \E i \in 1..Len(OfacRows(l, all)) :
              OfacRows(l, all)[i].address = a /\ OfacRows(l, all)[i].source = "OFAC"
  <1> DEFINE P == {i \in ParseOfac(l) : all \/ l[i].currency = "XBT"}
             Row(i) == [address |-> l[i].address, source |-> "OFAC",
                        category |-> "sanctioned", confidence |-> 10]
             s == [i \in 1..Len(l) |-> Row(i)]
             rows == Elements(s, P)
  <1>1. OfacRows(l, all) = rows
    BY DEF OfacRows
  <1>2. l \in Seq([address : TagAddr \cup {Blank}, currency : {"XBT", "ETH"}])
    BY TagsAssumption
  <1>3. /\ Len(l) \in Nat /\ DOMAIN l = 1..Len(l)
        /\ \A i \in 1..Len(l) : l[i] \in [address : TagAddr \cup {Blank}, currency : {"XBT", "ETH"}]
    BY <1>2, LenProperties, ElementOfSeq
  <1>4. P \in SUBSET (1..Len(l))
    BY DEF ParseOfac
  <1>5. ASSUME NEW a \in BitcoinOnly(l) PROVE \E i \in P : l[i].address = a
    <2> DEFINE N == {i \in 1..Len(l) : l[i].address = a}
    <2>1. N # {} /\ N \in SUBSET Nat
      BY <1>3, <1>5 DEF BitcoinOnly, ToSet
    <2> HIDE DEF N
    <2>2. PICK i \in N : \A k \in N : i <= k
      BY <2>1, LeastNatural
    <2>3. i \in 1..Len(l) /\ l[i].address = a
      BY <2>2 DEF N
    <2>4. \A j \in 1..(i - 1) : l[j].address # l[i].address
      BY <1>3, <2>2, <2>3 DEF N
    <2>5. l[i].currency = "XBT"
      BY <1>3, <1>5, <2>3 DEF BitcoinOnly, ToSet
    <2> QED
      BY <2>3, <2>4, <2>5 DEF ParseOfac, FirstEntry
  <1> HIDE DEF P
  <1>6. \A i \in P : /\ s[i] \in TagRow /\ s[i].address = l[i].address
                     /\ s[i].source = "OFAC" /\ s[i].category = "sanctioned"
    <2>1. \A i \in P : s[i] = Row(i)
      BY <1>4
    <2>2. \A i \in P : l[i].address \in TagAddr \cup {Blank}
      BY <1>3, <1>4
    <2>3. \A i \in P : Row(i) \in TagRow
      BY <2>2, RowIsTag
    <2> QED
      BY <2>1, <2>3
  <1> HIDE DEF s
  <1>7. /\ rows \in Seq(TagRow)
        /\ \A i \in P : \E m \in 1..Len(rows) : rows[m] = s[i]
        /\ \A m \in 1..Len(rows) : \E i \in P : rows[m] = s[i]
    <2>1. \A i \in P : s[i] \in TagRow
      BY <1>6
    <2>2. P \in SUBSET Nat /\ IsFiniteSet(P)
      <3>1. IsFiniteSet(1..Len(l))
        BY <1>3, FS_Interval
      <3> QED
        <4>1. \A i \in P : i \in Nat
          BY <1>3, <1>4
        <4>2. IsFiniteSet(P)
          BY <1>4, <3>1, FS_Subset
        <4> QED
          BY <4>1, <4>2
    <2>3. rows \in Seq(TagRow)
      BY <2>1, <2>2, ElementsType
    <2>4. Covers(rows, s, P)
      BY <2>2, ElementsCover
    <2> HIDE DEF rows
    <2> QED
      BY <2>3, <2>4 DEF Covers
  <1> HIDE DEF rows
  <1>8. \A m \in 1..Len(rows) : rows[m].category = "sanctioned"
    BY <1>6, <1>7
  <1>9. \A a \in BitcoinOnly(l) : \E m \in 1..Len(rows) :
          rows[m].address = a /\ rows[m].source = "OFAC"
    BY <1>5, <1>6, <1>7
  <1> QED
    BY <1>1, <1>7, <1>8, <1>9

LEMMA TagsInitial == TagsInit => TagsInv
  BY DEF TagsInit, TagsInv, TagTypes, Comes, OfacComplete

LEMMA BeginImportStep == ASSUME TagsInv, NEW s \in Session, BeginImport(s) PROVE TagsInv'
  <1>1. PICK rows \in Seq(TagRow), l \in Lists \cup {<<>>} :
          /\ todo' = [todo EXCEPT ![s] = rows] /\ reading' = [reading EXCEPT ![s] = l]
          /\ l # <<>> => \A i \in 1..Len(rows) : rows[i].category = "sanctioned"
          /\ \A a \in BitcoinOnly(l) : \E i \in 1..Len(rows) :
               rows[i].address = a /\ rows[i].source = "OFAC"
    <2>1. CASE \E l \in Lists, all \in BOOLEAN :
                 /\ todo' = [todo EXCEPT ![s] = OfacRows(l, all)]
                 /\ reading' = [reading EXCEPT ![s] = l]
      <3>1. PICK l \in Lists, all \in BOOLEAN :
              /\ todo' = [todo EXCEPT ![s] = OfacRows(l, all)]
              /\ reading' = [reading EXCEPT ![s] = l]
        BY <2>1
      <3> DEFINE rows == OfacRows(l, all)
      <3>2. /\ rows \in Seq(TagRow)
            /\ \A i \in 1..Len(rows) : rows[i].category = "sanctioned"
            /\ \A a \in BitcoinOnly(l) : \E i \in 1..Len(rows) :
                 rows[i].address = a /\ rows[i].source = "OFAC"
        BY OfacListed
      <3> HIDE DEF rows
      <3>3. todo' = [todo EXCEPT ![s] = rows]
        BY <3>1 DEF rows
      <3>4. \A i \in 1..Len(rows) : rows[i].category = "sanctioned"
        BY <3>2
      <3>5. l \in Lists \cup {<<>>} /\ rows \in Seq(TagRow)
        BY <3>2
      <3> QED
        BY <3>1, <3>2, <3>3, <3>4, <3>5
    <2>2. CASE \E sheet \in Sheets :
                 /\ todo' = [todo EXCEPT ![s] = sheet]
                 /\ reading' = [reading EXCEPT ![s] = <<>>]
      <3>1. PICK sheet \in Sheets : /\ todo' = [todo EXCEPT ![s] = sheet]
                                    /\ reading' = [reading EXCEPT ![s] = <<>>]
        BY <2>2
      <3>2. sheet \in Seq([address : TagAddr \cup {Blank}, source : STRING,
                           category : STRING, confidence : Nat])
        BY TagsAssumption
      <3>3. sheet \in Seq(TagRow)
        BY <3>2, SeqMonotonic DEF TagRow
      <3>5. BitcoinOnly(<<>>) = {}
        BY DEF BitcoinOnly, ToSet
      <3> QED
        BY <3>1, <3>3, <3>5
    <2> QED
      BY <2>1, <2>2 DEF BeginImport
  <1>2. UNCHANGED <<tags, due, removed, relabelled>>
    BY DEF BeginImport
  <1>3. \A t \in Session : /\ todo'[t] = IF t = s THEN rows ELSE todo[t]
                           /\ reading'[t] = IF t = s THEN l ELSE reading[t]
    BY <1>1 DEF TagsInv, TagTypes
  <1>4. TagTypes'
    <2>1. todo' \in [Session -> Seq(TagRow)] /\ reading' \in [Session -> Lists \cup {<<>>}]
      BY <1>1 DEF TagsInv, TagTypes
    <2>2. \A t \in Session : reading'[t] # <<>> =>
            \A i \in 1..Len(todo'[t]) : todo'[t][i].category = "sanctioned"
      BY <1>1, <1>3 DEF TagsInv, TagTypes
    <2> QED
      BY <1>2, <2>1, <2>2 DEF TagsInv, TagTypes
  <1>5. Comes'
    <2> SUFFICES ASSUME NEW t \in Session, todo'[t] # <<>>,
                        NEW a \in BitcoinOnly(reading'[t]) \ removed
                 PROVE  Tagged(a)' \/ OnItsWay(t, a)'
      BY <1>2 DEF Comes
    <2>1. CASE t = s
      BY <1>1, <1>3, <2>1 DEF OnItsWay
    <2>2. CASE t # s
      BY <1>2, <1>3, <2>2 DEF TagsInv, Comes, Tagged, OnItsWay
    <2> QED
      BY <2>1, <2>2
  <1> QED
    BY <1>2, <1>4, <1>5 DEF TagsInv, OfacComplete

\* No source touches the tags of another, and no row is dropped but the blank ones.
LEMMA UpsertStep == ASSUME TagsInv, NEW s \in Session, UpsertRow(s) PROVE TagsInv'
  <1> DEFINE r == Head(todo[s])
             rest == Tail(todo[s])
  <1>1. /\ todo[s] # <<>> /\ todo' = [todo EXCEPT ![s] = rest]
        /\ tags' = IF r.address = Blank THEN tags
                   ELSE [k \in DOMAIN tags \cup {<<r.address, r.source>>} |->
                           IF k = <<r.address, r.source>>
                           THEN [category |-> r.category, confidence |-> r.confidence]
                           ELSE tags[k]]
        /\ relabelled' = IF r.address = Blank \/ r.source # "OFAC" THEN relabelled
                         ELSE IF reading[s] = <<>> THEN relabelled \cup {r.address}
                         ELSE relabelled \ {r.address}
        /\ due' = IF rest = <<>> THEN due \cup BitcoinOnly(reading[s]) ELSE due
        /\ UNCHANGED <<reading, removed>>
    BY DEF UpsertRow, AfterBlank, TagKey
  <1>2. /\ todo[s] \in Seq(TagRow) /\ rest \in Seq(TagRow) /\ r = todo[s][1]
        /\ Len(todo[s]) \in Nat \ {0} /\ Len(rest) = Len(todo[s]) - 1
        /\ \A i \in 1..Len(rest) : rest[i] = todo[s][i + 1]
        /\ rest = <<>> <=> Len(rest) = 0
    <2>1. todo[s] \in Seq(TagRow)
      BY DEF TagsInv, TagTypes
    <2> QED
      <3>1. todo[s] # <<>> /\ rest \in Seq(TagRow) /\ Len(rest) = Len(todo[s]) - 1
        BY <1>1, <2>1, HeadTailProperties
      <3>2. \A i \in 1..Len(rest) : rest[i] = todo[s][i + 1]
        BY <1>1, <2>1, HeadTailProperties
      <3>3. Len(todo[s]) \in Nat \ {0} /\ r = todo[s][1]
        BY <1>1, <2>1, EmptySeq
      <3>4. rest = <<>> <=> Len(rest) = 0
        BY <3>1, EmptySeq
      <3> QED
        BY <2>1, <3>1, <3>2, <3>3, <3>4
  <1> HIDE DEF r, rest
  <1>3. reading[s] # <<>> => r.category = "sanctioned"
    BY <1>2 DEF TagsInv, TagTypes
  <1>4. TagTypes'
    <2>1. \A k \in DOMAIN tags' : /\ k = <<k[1], k[2]>>
                                  /\ k[2] = "OFAC" /\ k[1] \notin relabelled' =>
                                       tags'[k].category = "sanctioned"
      <3>1. \A k \in DOMAIN tags : /\ k = <<k[1], k[2]>>
                                   /\ k[2] = "OFAC" /\ k[1] \notin relabelled =>
                                        tags[k].category = "sanctioned"
        BY DEF TagsInv, TagTypes
      <3>2. CASE r.address = Blank
        BY <1>1, <3>1, <3>2
      <3>3. CASE r.address # Blank
        <4> DEFINE key == <<r.address, r.source>>
        <4>1. /\ DOMAIN tags' = DOMAIN tags \cup {key}
              /\ tags'[key].category = r.category
              /\ \A k \in DOMAIN tags : k # key => tags'[k] = tags[k]
          BY <1>1, <3>3
        <4>2. key[1] = r.address /\ key[2] = r.source /\ key = <<key[1], key[2]>>
          OBVIOUS
        <4>3. \A k \in DOMAIN tags : k[1] = r.address /\ k[2] = r.source => k = key
          BY <3>1
        <4> HIDE DEF key
        <4>4. CASE r.source # "OFAC"
          <5>1. relabelled' = relabelled
            BY <1>1, <4>4
          <5> QED
            BY <3>1, <4>1, <4>2, <4>4, <5>1
        <4>5. CASE r.source = "OFAC" /\ reading[s] = <<>>
          <5>1. relabelled' = relabelled \cup {r.address}
            BY <1>1, <3>3, <4>5
          <5> QED
            BY <3>1, <4>1, <4>2, <4>5, <5>1
        <4>6. CASE r.source = "OFAC" /\ reading[s] # <<>>
          <5>1. relabelled' = relabelled \ {r.address} /\ r.category = "sanctioned"
            BY <1>1, <1>3, <3>3, <4>6
          <5>2. ASSUME NEW k \in DOMAIN tags', k # key
                PROVE  k = <<k[1], k[2]>> /\ (k[2] = "OFAC" /\ k[1] \notin relabelled' =>
                                               tags'[k].category = "sanctioned")
            <6>1. k \in DOMAIN tags /\ tags'[k] = tags[k]
              BY <4>1, <5>2
            <6>2. k[2] = "OFAC" => k[1] # r.address
              BY <4>3, <4>6, <5>2, <6>1
            <6> QED
              BY <3>1, <5>1, <6>1, <6>2
          <5> QED
            BY <4>1, <4>2, <5>1, <5>2
        <4> QED
          BY <4>4, <4>5, <4>6
      <3> QED
        BY <3>2, <3>3
    <2>2. reading[s] # <<>> => \A i \in 1..Len(rest) : rest[i].category = "sanctioned"
      <3> SUFFICES ASSUME reading[s] # <<>>, NEW i \in 1..Len(rest)
                   PROVE  rest[i].category = "sanctioned"
        OBVIOUS
      <3>1. i + 1 \in 1..Len(todo[s]) /\ rest[i] = todo[s][i + 1]
        BY <1>2
      <3> QED
        BY <3>1 DEF TagsInv, TagTypes
    <2> QED
      BY <1>1, <1>2, <2>1, <2>2 DEF TagsInv, TagTypes
  <1>5. \A a : Tagged(a) => Tagged(a)'
    BY <1>1 DEF Tagged
  <1>6. ASSUME NEW a \in TagAddr, OnItsWay(s, a)
        PROVE  Tagged(a)' \/ \E i \in 1..Len(rest) : rest[i].address = a /\ rest[i].source = "OFAC"
    <2>1. PICK i \in 1..Len(todo[s]) : todo[s][i].address = a /\ todo[s][i].source = "OFAC"
      BY <1>6 DEF OnItsWay
    <2>2. CASE i = 1
      <3>1. r.address = a /\ r.source = "OFAC" /\ r.address # Blank
        BY <1>2, <2>1, <2>2, TagsAssumption
      <3> QED
        BY <1>1, <3>1 DEF Tagged
    <2>3. CASE i # 1
      <3>1. i - 1 \in 1..Len(rest) /\ rest[i - 1] = todo[s][(i - 1) + 1] /\ (i - 1) + 1 = i
        BY <1>2, <2>1, <2>3
      <3> QED
        BY <2>1, <3>1
    <2> QED
      BY <2>2, <2>3
  <1>7. \A t \in Session : BitcoinOnly(reading[t]) \subseteq TagAddr
    BY DEF BitcoinOnly
  <1>8. Comes'
    <2> SUFFICES ASSUME NEW t \in Session, todo'[t] # <<>>,
                        NEW a \in BitcoinOnly(reading[t]) \ removed
                 PROVE  Tagged(a)' \/ OnItsWay(t, a)'
      BY <1>1 DEF Comes
    <2>1. CASE t # s
      <3>1. todo'[t] = todo[t]
        BY <1>1, <2>1 DEF TagsInv, TagTypes
      <3> QED
        BY <1>5, <3>1 DEF TagsInv, Comes, OnItsWay
    <2>2. CASE t = s
      <3>1. todo'[s] = rest
        BY <1>1 DEF TagsInv, TagTypes
      <3>2. Tagged(a) \/ OnItsWay(s, a)
        BY <1>1, <2>2 DEF TagsInv, Comes
      <3> QED
        BY <1>5, <1>6, <1>7, <2>2, <3>1, <3>2 DEF OnItsWay
    <2> QED
      BY <2>1, <2>2
  <1>9. OfacComplete'
    <2>1. ASSUME rest = <<>>, NEW a \in BitcoinOnly(reading[s]) \ removed PROVE Tagged(a)'
      <3>1. Tagged(a) \/ OnItsWay(s, a)
        BY <1>1, <2>1 DEF TagsInv, Comes
      <3>2. 1..Len(rest) = {}
        BY <1>2, <2>1
      <3> QED
        BY <1>5, <1>6, <1>7, <3>1, <3>2, <2>1
    <2> QED
      BY <1>1, <1>5, <2>1 DEF TagsInv, OfacComplete, Tagged
  <1> QED
    BY <1>4, <1>8, <1>9 DEF TagsInv

LEMMA TagsPreserved == TagsInv /\ [TagsNext]_tagVars => TagsInv'
  <1> SUFFICES ASSUME TagsInv, [TagsNext]_tagVars PROVE TagsInv'
    OBVIOUS
  <1>1. ASSUME NEW s \in Session, ImportDies(s) PROVE TagsInv'
    <2>1. todo' = [todo EXCEPT ![s] = <<>>] /\ UNCHANGED <<tags, reading, due, removed, relabelled>>
      BY <1>1 DEF ImportDies
    <2>2. <<>> \in Seq(TagRow) /\ Len(<<>>) = 0
      BY EmptySeq
    <2> QED
      <3>1. \A t \in Session : todo'[t] = IF t = s THEN <<>> ELSE todo[t]
        BY <2>1 DEF TagsInv, TagTypes
      <3>2. TagTypes'
        <4>1. todo' \in [Session -> Seq(TagRow)]
          BY <2>1, <2>2 DEF TagsInv, TagTypes
        <4>2. \A t \in Session : reading[t] # <<>> =>
                \A i \in 1..Len(todo'[t]) : todo'[t][i].category = "sanctioned"
          <5> TAKE t \in Session
          <5>1. CASE t = s
            <6>1. 1..Len(todo'[t]) = {}
              BY <2>2, <3>1, <5>1
            <6> QED
              BY <6>1
          <5>2. CASE t # s
            BY <3>1, <5>2 DEF TagsInv, TagTypes
          <5> QED
            BY <5>1, <5>2
        <4> QED
          BY <2>1, <4>1, <4>2 DEF TagsInv, TagTypes
      <3>3. Comes'
        <4> SUFFICES ASSUME NEW t \in Session, todo'[t] # <<>>,
                            NEW a \in BitcoinOnly(reading[t]) \ removed
                     PROVE  Tagged(a)' \/ OnItsWay(t, a)'
          BY <2>1 DEF Comes
        <4>1. todo'[t] = todo[t]
          BY <3>1
        <4> QED
          BY <2>1, <4>1 DEF TagsInv, Comes, Tagged, OnItsWay
      <3> QED
        BY <2>1, <3>2, <3>3 DEF TagsInv, OfacComplete
  <1>2. CASE RemoveTags
    <2>1. PICK k \in DOMAIN tags, every \in BOOLEAN :
            /\ tags' = [j \in {j \in DOMAIN tags : j[1] # k[1] \/ (~every /\ j # k)} |-> tags[j]]
            /\ removed' = removed \cup {k[1]}
      BY <1>2 DEF RemoveTags
    <2>2. UNCHANGED <<todo, reading, due, relabelled>>
      BY <1>2 DEF RemoveTags
    <2>3. \A a : Tagged(a) /\ a \notin removed' => Tagged(a)'
      BY <2>1 DEF Tagged
    <2>4. TagTypes'
      BY <2>1, <2>2 DEF TagsInv, TagTypes
    <2>5. Comes'
      BY <2>1, <2>2, <2>3 DEF TagsInv, Comes, OnItsWay
    <2>6. OfacComplete'
      BY <2>1, <2>2, <2>3 DEF TagsInv, OfacComplete, Tagged
    <2> QED
      BY <2>4, <2>5, <2>6 DEF TagsInv
  <1>3. CASE UNCHANGED tagVars
    BY <1>3 DEF tagVars, TagsInv, TagTypes, Comes, Tagged, OnItsWay, OfacComplete
  <1> QED
    BY <1>1, <1>2, <1>3, BeginImportStep, UpsertStep DEF TagsNext

\* An OFAC list that was imported to the end leaves a tag on each address it has
\* for Bitcoin, whatever was imported before or at the same time (tags.py:6).
THEOREM ImportedListsAreTagged == TagsSpec => []OfacComplete
  <1>1. TagsInv => OfacComplete
    BY DEF TagsInv
  <1> QED
    BY <1>1, TagsInitial, TagsPreserved, PTL DEF TagsSpec

\* A tag of OFAC outranks those of all other sources (trace.py:137), until another
\* import writes over it under that name (tags.py:154-194).
THEOREM SanctionsComeFirst == TagsSpec => []SanctionedShows
  <1>1. TagsInv => SanctionedShows
    <2> SUFFICES ASSUME TagsInv, NEW a \in TagAddr \ relabelled, <<a, "OFAC">> \in DOMAIN tags,
                        NEW x \in Labels(a)
                 PROVE  x.category = "sanctioned"
      BY DEF SanctionedShows
    <2>1. tags[<<a, "OFAC">>].category = "sanctioned"
      BY DEF TagsInv, TagTypes
    <2>2. ~Before(tags[<<a, "OFAC">>], x)
      BY DEF Labels
    <2> QED
      BY <2>1, <2>2 DEF Before, Rank
  <1> QED
    BY <1>1, TagsInitial, TagsPreserved, PTL DEF TagsSpec

-----------------------------------------------------------------------------
PlainBackup == \A p \in DOMAIN taken : Plain(p)
Restored(p) == p \in DOMAIN fs /\ fs[p] = taken[p]
StillToCopy(p) == \E j \in 1..Len(copying) : copying[j] = Item(p)

Items == {Item(p) : p \in Paths}

\* The copies are told apart, and what a restore has not yet copied back it
\* will, as long as nobody edits a file.
Copies ==
  /\ items \in Seq(Items) /\ copying \in Seq(Items)
  /\ \A p \in DOMAIN taken : \E i \in 1..Len(items) : items[i] = Item(p)
  /\ \A i \in 1..Len(items) : items[i].original \in DOMAIN taken
  /\ \A j \in 1..Len(copying) : copying[j].original \in DOMAIN taken
  /\ DOMAIN fs \subseteq Paths /\ DOMAIN taken \subseteq Paths
  /\ PlainBackup => \A p \in DOMAIN taken : kept[Item(p).stored] = taken[p]

Pending ==
  /\ since \in Nat /\ edits \in Nat /\ since <= edits
  /\ copying # <<>> => ~exact /\ items # <<>>
  /\ exact => items # <<>>
  /\ copying # <<>> /\ edits = since /\ PlainBackup =>
       \A p \in DOMAIN taken : Restored(p) \/ StillToCopy(p)

\* Each of what was replaced has its .bak file, or shares it, unless it was edited.
Preserves ==
  /\ \A k \in DOMAIN baks : baks[k].copies \in Nat \ {0}
  /\ \A r \in replaced : ~r.edited => <<r.path, r.at>> \in DOMAIN baks
  /\ NothingLost

\* Between the two copies of restore_file the first has been made, of what the
\* second will replace unless there is an edit.
Looked ==
  /\ copying = <<>> => looked = <<>>
  /\ looked # <<>> =>
       /\ looked.edits \in Nat /\ looked.edits <= edits
       /\ edits = looked.edits /\ Original \in DOMAIN fs =>
            LET k == <<Original, looked.at>>
            IN  k \in DOMAIN baks /\ (baks[k].copies > 1 \/ baks[k].content = fs[Original])

ConfigInv == Copies /\ Pending /\ RestoreExact /\ Preserves /\ Looked

\* Paths without "__" have copies of different names.
LEMMA PlainApart ==
  ASSUME NEW p \in Paths, NEW q \in Paths, Plain(p), Plain(q), Item(p).stored = Item(q).stored
  PROVE  p = q
  <1>1. /\ p \in Seq([before : {"/", "__"}, part : STRING])
        /\ q \in Seq([before : {"/", "__"}, part : STRING])
    BY ConfigAssumption
  <1>2. CASE p = EnvFile \/ q = EnvFile
    BY <1>2 DEF Item, Stored
  <1>3. CASE p # EnvFile /\ q # EnvFile
    <2>1. FlatName(p) = FlatName(q)
      BY <1>3 DEF Item, Stored
    <2>2. Len(p) = Len(q)
      <3>1. DOMAIN FlatName(p) = 1..Len(p) /\ DOMAIN FlatName(q) = 1..Len(q)
        BY DEF FlatName
      <3>2. Len(p) \in Nat /\ Len(q) \in Nat
        BY <1>1, LenProperties
      <3> QED
        BY <2>1, <3>1, <3>2
    <2>3. \A i \in 1..Len(p) : p[i] = q[i]
      <3> TAKE i \in 1..Len(p)
      <3>1. FlatName(p)[i] = p[i].part /\ FlatName(q)[i] = q[i].part
        BY <2>2 DEF FlatName
      <3>2. p[i].before = q[i].before
        BY <2>2 DEF Plain
      <3>3. /\ p[i] \in [before : {"/", "__"}, part : STRING]
            /\ q[i] \in [before : {"/", "__"}, part : STRING]
        BY <1>1, <2>2, ElementOfSeq
      <3> QED
        BY <2>1, <3>1, <3>2, <3>3
    <2> QED
      BY <1>1, <2>2, <2>3, SeqEqual
  <1> QED
    BY <1>2, <1>3

LEMMA ItemFields ==
  ASSUME NEW x \in Items
  PROVE  x.original \in Paths /\ x = Item(x.original)
  BY DEF Items, Item

\* A set of positions has a last one.
LEMMA LastOf ==
  ASSUME NEW n \in Nat, NEW N \in SUBSET (1..n), N # {}
  PROVE  \E i \in N : \A j \in (i + 1)..n : j \notin N
  <1> DEFINE D == {k \in 0..n : n - k \in N}
  <1>1. D \in SUBSET Nat /\ D # {}
    <2>1. PICK i \in N : TRUE
      OBVIOUS
    <2>2. i \in 1..n /\ n - i \in 0..n /\ n - (n - i) = i
      BY <2>1
    <2>3. n - i \in D
      BY <2>1, <2>2
    <2>4. \A k \in 0..n : k \in Nat
      OBVIOUS
    <2> QED
      BY <2>3, <2>4
  <1> HIDE DEF D
  <1>2. PICK k \in D : \A m \in D : k <= m
    BY <1>1, LeastNatural
  <1>3. k \in 0..n /\ n - k \in N
    BY <1>2 DEF D
  <1>4. ASSUME NEW j \in (n - k + 1)..n, j \in N PROVE FALSE
    <2>1. n - j \in 0..n /\ n - (n - j) = j /\ n - j < k
      BY <1>3, <1>4
    <2>2. n - j \in D
      BY <1>4, <2>1 DEF D
    <2> QED
      BY <1>2, <1>3, <2>1, <2>2
  <1> QED
    BY <1>3, <1>4

LEMMA ConfigInitial == ConfigInit => ConfigInv
  <1> SUFFICES ASSUME ConfigInit PROVE ConfigInv
    OBVIOUS
  <1>1. /\ DOMAIN fs = {} /\ DOMAIN taken = {} /\ items = <<>> /\ copying = <<>>
        /\ ~exact /\ replaced = {} /\ since = 0 /\ edits = 0
    BY DEF ConfigInit
  <1>2. looked = <<>> /\ DOMAIN baks = {}
    BY DEF ConfigInit
  <1>3. <<>> \in Seq(Items) /\ 1..Len(<<>>) = {}
    BY EmptySeq
  <1>4. Preserves /\ Looked
    BY <1>1, <1>2 DEF Preserves, NothingLost, Looked
  <1> QED
    BY <1>1, <1>3, <1>4 DEF ConfigInv, Copies, Pending, RestoreExact, PlainBackup

\* What is in the .bak files stays true when neither they nor what was replaced change.
LEMMA PreservesStays ==
  ASSUME Preserves, UNCHANGED <<baks, replaced>>
  PROVE  Preserves'
  BY DEF Preserves, NothingLost

LEMMA EditStep == ASSUME ConfigInv, Edit PROVE ConfigInv'
  <1>1. PICK p \in Paths :
          \/ fs' = With(fs, p, edits + 1)
          \/ p \in DOMAIN fs /\ fs' = [x \in DOMAIN fs \ {p} |-> fs[x]]
    BY DEF Edit
  <1>2. DOMAIN fs' \subseteq Paths
    BY <1>1 DEF ConfigInv, Copies, With
  <1>3. edits' = edits + 1 /\ ~exact'
        /\ UNCHANGED <<items, kept, taken, copying, looked, since, baks, replaced>>
    BY DEF Edit, backup
  <1>4. Looked'
    BY <1>3 DEF ConfigInv, Looked, Pending
  <1> QED
    BY <1>2, <1>3, <1>4, PreservesStays DEF ConfigInv, Copies, Pending, PlainBackup, RestoreExact

LEMMA BackupStep == ASSUME ConfigInv, ConfigBackup PROVE ConfigInv'
  <1> DEFINE all == <<EnvFile>> \o Confs
             P == {i \in 1..Len(all) : all[i] \in DOMAIN fs}
             named == [i \in 1..Len(all) |-> Item(all[i])]
             its == Elements(named, P)
             last(n) == CHOOSE i \in 1..Len(its) :
                          its[i].stored = n /\ \A j \in (i + 1)..Len(its) : its[j].stored # n
  <1>1. /\ items = <<>> /\ items' = its /\ taken' = fs
        /\ kept' = [n \in {its[i].stored : i \in 1..Len(its)} |-> fs[its[last(n)].original]]
        /\ UNCHANGED <<fs, copying, looked, since, exact, baks, replaced, edits>>
    BY DEF ConfigBackup
  <1>2. /\ copying = <<>> /\ ~exact /\ DOMAIN fs \subseteq Paths
        /\ since \in Nat /\ edits \in Nat /\ since <= edits /\ looked = <<>>
    BY <1>1 DEF ConfigInv, Copies, Pending, Looked
  <1>3. /\ all \in Seq(Paths) /\ Len(all) \in Nat
        /\ \A i \in 1..Len(all) : all[i] \in Paths
        /\ \A p \in Paths : \E i \in 1..Len(all) : all[i] = p
    <2>1. /\ Confs \in Seq(Paths) /\ <<EnvFile>> \in Seq(Paths) /\ Len(<<EnvFile>>) = 1
          /\ <<EnvFile>>[1] = EnvFile
      BY ConfigAssumption DEF Paths
    <2>2. /\ all \in Seq(Paths) /\ Len(all) = 1 + Len(Confs) /\ Len(Confs) \in Nat
          /\ \A i \in 1..(1 + Len(Confs)) : all[i] = IF i <= 1 THEN EnvFile ELSE Confs[i - 1]
      BY <2>1, ConcatProperties, LenProperties
    <2> HIDE DEF all
    <2>3. ASSUME NEW p \in Paths PROVE \E i \in 1..Len(all) : all[i] = p
      <3>1. CASE p = EnvFile
        <4>1. 1 \in 1..Len(all) /\ all[1] = EnvFile
          BY <2>2
        <4> QED
          BY <3>1, <4>1
      <3>2. CASE p \in ToSet(Confs)
        <4>1. PICK j \in 1..Len(Confs) : Confs[j] = p
          BY <2>1, <3>2, LenProperties DEF ToSet
        <4>2. j + 1 \in 1..Len(all) /\ all[j + 1] = Confs[(j + 1) - 1] /\ (j + 1) - 1 = j
          BY <2>2, <4>1
        <4> QED
          BY <4>1, <4>2
      <3> QED
        BY <3>1, <3>2 DEF Paths
    <2> QED
      BY <2>2, <2>3, LenProperties, ElementOfSeq
  <1> HIDE DEF all
  <1>4. /\ P \in SUBSET Nat /\ IsFiniteSet(P)
        /\ \A i \in P : /\ named[i] = Item(all[i]) /\ named[i] \in Items
                        /\ all[i] \in DOMAIN fs /\ named[i].original = all[i]
        /\ \A p \in DOMAIN fs : \E i \in P : named[i] = Item(p)
    <2>1. P \in SUBSET (1..Len(all)) /\ IsFiniteSet(1..Len(all))
      BY <1>3, FS_Interval
    <2>2. IsFiniteSet(P)
      BY <2>1, FS_Subset
    <2>3. \A i \in P : i \in Nat
      BY <1>3, <2>1
    <2>4. \A i \in P : /\ named[i] = Item(all[i]) /\ named[i] \in Items
                       /\ all[i] \in DOMAIN fs /\ named[i].original = all[i]
      BY <1>2 DEF Items, Item
    <2>5. \A p \in DOMAIN fs : \E i \in P : named[i] = Item(p)
      BY <1>2, <1>3
    <2> QED
      BY <2>2, <2>3, <2>4, <2>5
  <1> HIDE DEF P, named
  <1>5. /\ its \in Seq(Items)
        /\ \A i \in P : \E m \in 1..Len(its) : its[m] = named[i]
        /\ \A m \in 1..Len(its) : \E i \in P : its[m] = named[i]
    <2>1. \A i \in P : named[i] \in Items
      BY <1>4
    <2>2. P \in SUBSET Nat /\ IsFiniteSet(P)
      BY <1>4
    <2>3. its \in Seq(Items)
      BY <2>1, <2>2, ElementsType
    <2>4. Covers(its, named, P)
      BY <2>2, ElementsCover
    <2> HIDE DEF its
    <2> QED
      BY <2>3, <2>4 DEF Covers
  <1> HIDE DEF its
  <1>6. /\ \A p \in DOMAIN fs : \E m \in 1..Len(its) : its[m] = Item(p)
        /\ \A m \in 1..Len(its) : its[m].original \in DOMAIN fs /\ its[m] = Item(its[m].original)
    <2>1. ASSUME NEW m \in 1..Len(its)
          PROVE  its[m].original \in DOMAIN fs /\ its[m] = Item(its[m].original)
      <3>1. PICK i \in P : its[m] = named[i]
        BY <1>5
      <3> QED
        BY <1>4, <3>1
    <2>2. ASSUME NEW p \in DOMAIN fs PROVE \E m \in 1..Len(its) : its[m] = Item(p)
      <3>1. PICK i \in P : named[i] = Item(p)
        BY <1>4
      <3> QED
        BY <1>5, <3>1
    <2> QED
      BY <2>1, <2>2
  <1>7. ASSUME \A p \in DOMAIN fs : Plain(p), NEW p \in DOMAIN fs
        PROVE  kept'[Item(p).stored] = fs[p]
    <2> DEFINE n == Item(p).stored
               N == {i \in 1..Len(its) : its[i].stored = n}
    <2>1. Len(its) \in Nat /\ N \in SUBSET (1..Len(its)) /\ N # {}
      BY <1>5, <1>6, LenProperties
    <2>2. \E i \in N : \A j \in (i + 1)..Len(its) : j \notin N
      BY <2>1, LastOf
    <2>3. \A i \in 1..Len(its) : \A j \in (i + 1)..Len(its) : j \in 1..Len(its)
      BY <2>1
    <2>4. \E i \in 1..Len(its) :
            its[i].stored = n /\ \A j \in (i + 1)..Len(its) : its[j].stored # n
      BY <2>2, <2>3
    <2>5. last(n) \in 1..Len(its) /\ its[last(n)].stored = n
      BY <2>4
    <2>6. kept'[n] = fs[its[last(n)].original]
      <3>1. \E i \in 1..Len(its) : its[i].stored = n
        BY <2>4
      <3> HIDE DEF last, n
      <3> QED
        BY <1>1, <3>1
    <2> HIDE DEF last
    <2>7. its[last(n)].original = p
      BY <1>2, <1>6, <1>7, <2>5, PlainApart
    <2> QED
      BY <2>6, <2>7
  <1>8. Copies'
    <2>1. \A j \in 1..Len(copying) : FALSE
      BY <1>2, EmptySeq
    <2>2. copying' \in Seq(Items)
      BY <1>1 DEF ConfigInv, Copies
    <2>3. PlainBackup' => \A p \in DOMAIN taken' : kept'[Item(p).stored] = taken'[p]
      BY <1>1, <1>7 DEF PlainBackup
    <2> HIDE DEF last
    <2> QED
      BY <1>1, <1>2, <1>5, <1>6, <2>1, <2>2, <2>3 DEF Copies
  <1> HIDE DEF last
  <1>9. Preserves' /\ Looked'
    BY <1>1, <1>2, PreservesStays DEF ConfigInv, Looked
  <1> QED
    BY <1>1, <1>2, <1>8, <1>9 DEF ConfigInv, Pending, RestoreExact

LEMMA RestoreStep == ASSUME ConfigInv, ConfigRestore PROVE ConfigInv'
  <1>1. /\ items # <<>> /\ copying = <<>> /\ copying' = items /\ since' = edits /\ ~exact'
        /\ UNCHANGED <<fs, items, kept, taken, looked, baks, replaced, edits>>
    BY DEF ConfigRestore, backup
  <1>2. \A p \in DOMAIN taken : StillToCopy(p)'
    BY <1>1 DEF ConfigInv, Copies, StillToCopy
  <1>3. Preserves' /\ Looked'
    BY <1>1, PreservesStays DEF ConfigInv, Looked
  <1> QED
    BY <1>1, <1>2, <1>3 DEF ConfigInv, Copies, Pending, PlainBackup, RestoreExact

\* A .bak file that is written is there; one of the same second now counts twice.
LEMMA WriteBakStep ==
  ASSUME Preserves, NEW content, WriteBak(content), UNCHANGED replaced
  PROVE  /\ Preserves'
         /\ <<Original, clock>> \in DOMAIN baks' /\ baks'[<<Original, clock>>].content = content
  <1> DEFINE k0 == <<Original, clock>>
             new == [content |-> content,
                     copies  |-> IF k0 \in DOMAIN baks THEN baks[k0].copies + 1 ELSE 1]
  <1>1. /\ DOMAIN baks' = DOMAIN baks \cup {k0} /\ baks'[k0] = new
        /\ \A k \in DOMAIN baks \ {k0} : baks'[k] = baks[k]
    BY DEF WriteBak, With
  <1>2. /\ new.content = content /\ new.copies \in Nat \ {0}
        /\ k0 \in DOMAIN baks => new.copies > 1
    BY DEF Preserves
  <1> HIDE DEF k0, new
  <1>3. \A k \in DOMAIN baks' : baks'[k].copies \in Nat \ {0}
    BY <1>1, <1>2 DEF Preserves
  <1>4. ASSUME NEW r \in replaced, ~r.edited
        PROVE  /\ <<r.path, r.at>> \in DOMAIN baks'
               /\ \/ baks'[<<r.path, r.at>>].copies > 1
                  \/ baks'[<<r.path, r.at>>].content = r.content
    <2> DEFINE k == <<r.path, r.at>>
    <2>1. k \in DOMAIN baks /\ (baks[k].copies > 1 \/ baks[k].content = r.content)
      BY <1>4 DEF Preserves, NothingLost
    <2> HIDE DEF k
    <2>2. k \in DOMAIN baks' /\ (baks'[k].copies > 1 \/ baks'[k].content = r.content)
      BY <1>1, <1>2, <2>1
    <2> QED
      BY <2>2 DEF k
  <1>5. Preserves'
    BY <1>3, <1>4 DEF Preserves, NothingLost
  <1> QED
    BY <1>1, <1>2, <1>5 DEF k0

LEMMA PreserveStep == ASSUME ConfigInv, Preserve PROVE ConfigInv'
  <1>1. /\ copying # <<>> /\ looked' = [at |-> clock, edits |-> edits]
        /\ UNCHANGED <<fs, items, kept, taken, copying, since, exact, replaced, edits>>
    BY DEF Preserve, backup
  <1>2. /\ looked'.at = clock /\ looked'.edits = edits /\ edits \in Nat
        /\ Original' = Original
    BY <1>1 DEF ConfigInv, Pending, Original
  <1>3. CASE Original \in DOMAIN fs
    <2>1. WriteBak(fs[Original])
      BY <1>3 DEF Preserve, Preserved
    <2>2. /\ Preserves' /\ <<Original, clock>> \in DOMAIN baks'
          /\ baks'[<<Original, clock>>].content = fs[Original]
      BY <1>1, <2>1, WriteBakStep DEF ConfigInv
    <2>3. Looked'
      BY <1>1, <1>2, <2>2 DEF Looked
    <2> QED
      BY <1>1, <2>2, <2>3 DEF ConfigInv, Copies, Pending, PlainBackup, RestoreExact, Restored,
        StillToCopy
  <1>4. CASE Original \notin DOMAIN fs
    <2>1. Preserves'
      BY <1>1, <1>4, PreservesStays DEF Preserve, ConfigInv
    <2>2. Looked'
      BY <1>1, <1>2, <1>4 DEF Looked
    <2> QED
      BY <1>1, <2>1, <2>2 DEF ConfigInv, Copies, Pending, PlainBackup, RestoreExact, Restored,
        StillToCopy
  <1> QED
    BY <1>3, <1>4

\* What is replaced was preserved when the restore looked, or edited since.
LEMMA ReplaceStep ==
  ASSUME ConfigInv, copying # <<>>, looked # <<>>, NEW new, Replace(new), UNCHANGED baks
  PROVE  /\ Preserves'
         /\ LET p == Head(copying).original
            IN  /\ p \in DOMAIN taken /\ Head(copying) = Item(p)
                /\ DOMAIN fs' = DOMAIN fs \cup {p} /\ fs'[p] = new
                /\ \A x \in DOMAIN fs \ {p} : fs'[x] = fs[x]
  <1> DEFINE p == Original
             k0 == <<p, looked.at>>
             r0 == [path |-> p, at |-> looked.at, content |-> fs[p], edited |-> edits # looked.edits]
  <1>1. copying \in Seq(Items) /\ Head(copying) = copying[1] /\ 1 \in 1..Len(copying)
    BY EmptySeq DEF ConfigInv, Copies
  <1>2. p \in DOMAIN taken /\ Head(copying) = Item(p) /\ p = Head(copying).original
    BY <1>1, ItemFields, ElementOfSeq DEF ConfigInv, Copies, Original
  <1>3. fs' = With(fs, p, new) /\ replaced' = replaced \cup IF p \in DOMAIN fs THEN {r0} ELSE {}
    BY DEF Replace
  <1>4. r0.path = p /\ r0.at = looked.at /\ r0.content = fs[p] /\ r0.edited = (edits # looked.edits)
    OBVIOUS
  <1>5. p \in DOMAIN fs /\ edits = looked.edits =>
          k0 \in DOMAIN baks /\ (baks[k0].copies > 1 \/ baks[k0].content = fs[p])
    BY DEF ConfigInv, Looked
  <1> HIDE DEF r0
  <1>6. p \in DOMAIN fs /\ ~r0.edited =>
          /\ <<r0.path, r0.at>> \in DOMAIN baks
          /\ \/ baks[<<r0.path, r0.at>>].copies > 1
             \/ baks[<<r0.path, r0.at>>].content = r0.content
    BY <1>4, <1>5
  <1>7. \A r \in replaced' : r \in replaced \/ (p \in DOMAIN fs /\ r = r0)
    BY <1>3
  <1>8. Preserves'
    BY <1>6, <1>7 DEF ConfigInv, Preserves, NothingLost
  <1> HIDE DEF p
  <1> QED
    BY <1>2, <1>3, <1>8 DEF With

LEMMA RestoreFileStep == ASSUME ConfigInv, RestoreFile PROVE ConfigInv'
  <1> DEFINE p == Head(copying).original
             rest == Tail(copying)
  <1>1. /\ copying # <<>> /\ looked # <<>> /\ looked' = <<>>
        /\ Replace(kept[Head(copying).stored]) /\ copying' = rest
        /\ exact' = (rest = <<>> /\ edits = since)
        /\ UNCHANGED <<items, kept, taken, since, baks, edits>>
    BY DEF RestoreFile, backup
  <1>2. /\ Preserves' /\ p \in DOMAIN taken /\ Head(copying) = Item(p)
        /\ DOMAIN fs' = DOMAIN fs \cup {p} /\ fs'[p] = kept[Item(p).stored]
        /\ \A x \in DOMAIN fs \ {p} : fs'[x] = fs[x]
    BY <1>1, ReplaceStep
  <1>3. /\ copying \in Seq(Items) /\ rest \in Seq(Items) /\ Len(copying) \in Nat
        /\ Len(rest) = Len(copying) - 1 /\ Head(copying) = copying[1]
        /\ \A i \in 1..Len(rest) : rest[i] = copying[i + 1]
        /\ rest = <<>> <=> Len(rest) = 0
    <2>1. copying \in Seq(Items) /\ copying # <<>>
      BY <1>1 DEF ConfigInv, Copies
    <2>2. rest \in Seq(Items) /\ Len(rest) = Len(copying) - 1
      BY <2>1, HeadTailProperties
    <2>3. \A i \in 1..Len(rest) : rest[i] = copying[i + 1]
      BY <2>1, HeadTailProperties
    <2>4. Len(copying) \in Nat /\ Head(copying) = copying[1]
      BY <2>1
    <2>5. rest = <<>> <=> Len(rest) = 0
      BY <2>2, EmptySeq
    <2> QED
      BY <2>1, <2>2, <2>3, <2>4, <2>5
  <1>4. items # <<>> /\ DOMAIN taken \subseteq Paths /\ DOMAIN fs \subseteq Paths
    BY <1>1 DEF ConfigInv, Pending, Copies
  <1> HIDE DEF rest, p
  <1>5. ASSUME edits = since, PlainBackup, NEW x \in DOMAIN taken
        PROVE  Restored(x)' \/ \E j \in 1..Len(rest) : rest[j] = Item(x)
    <2>1. CASE x = p
      BY <1>1, <1>2, <1>5, <2>1 DEF Restored, ConfigInv, Copies
    <2>2. CASE x # p /\ Restored(x)
      BY <1>1, <1>2, <2>2 DEF Restored
    <2>3. CASE x # p /\ StillToCopy(x)
      <3>1. PICK j \in 1..Len(copying) : copying[j] = Item(x)
        BY <2>3 DEF StillToCopy
      <3>2. j # 1
        BY <1>2, <1>3, <2>3, <3>1 DEF Item
      <3>3. j - 1 \in 1..Len(rest) /\ rest[j - 1] = copying[(j - 1) + 1] /\ (j - 1) + 1 = j
        BY <1>3, <3>1, <3>2
      <3> QED
        BY <3>1, <3>3
    <2> QED
      BY <1>1, <1>5, <2>1, <2>2, <2>3 DEF ConfigInv, Pending
  <1>6. Copies'
    <2>1. \A j \in 1..Len(rest) : rest[j].original \in DOMAIN taken
      <3> TAKE j \in 1..Len(rest)
      <3>1. j + 1 \in 1..Len(copying) /\ rest[j] = copying[j + 1]
        BY <1>3
      <3> QED
        BY <3>1 DEF ConfigInv, Copies
    <2> QED
      BY <1>1, <1>2, <1>3, <1>4, <2>1 DEF ConfigInv, Copies, PlainBackup
  <1>7. Pending'
    BY <1>1, <1>4, <1>5 DEF ConfigInv, Pending, PlainBackup, StillToCopy
  <1>8. RestoreExact'
    <2> SUFFICES ASSUME exact', PlainBackup, NEW x \in DOMAIN taken
                 PROVE  Restored(x)'
      BY <1>1 DEF RestoreExact, PlainBackup, Restored
    <2>1. rest = <<>> /\ edits = since
      BY <1>1
    <2>2. Len(rest) = 0
      BY <1>3, <2>1
    <2>3. 1..Len(rest) = {}
      BY <2>2
    <2> QED
      BY <1>5, <2>1, <2>3
  <1>9. Looked'
    BY <1>1 DEF Looked
  <1> QED
    BY <1>2, <1>6, <1>7, <1>8, <1>9 DEF ConfigInv

LEMMA ConfigDiesStep == ASSUME ConfigInv, ConfigDies PROVE ConfigInv'
  <1>1. /\ copying # <<>> /\ copying' = <<>> /\ looked' = <<>>
        /\ UNCHANGED <<items, kept, taken, since, exact, edits>>
    BY DEF ConfigDies, backup
  <1>2. /\ ~exact /\ items # <<>> /\ DOMAIN taken \subseteq Paths /\ DOMAIN fs \subseteq Paths
    BY <1>1 DEF ConfigInv, Pending, Copies
  <1>3. Preserves' /\ DOMAIN fs' \subseteq Paths
    <2>1. CASE looked # <<>> /\ Replace(0) /\ UNCHANGED baks
      BY <1>1, <1>2, <2>1, ReplaceStep
    <2>2. CASE WriteBak(0) /\ UNCHANGED <<fs, replaced>>
      BY <1>2, <2>2, WriteBakStep DEF ConfigInv
    <2>3. CASE UNCHANGED <<fs, baks, replaced>>
      BY <1>2, <2>3, PreservesStays DEF ConfigInv
    <2> QED
      BY <2>1, <2>2, <2>3 DEF ConfigDies
  <1>4. <<>> \in Seq(Items) /\ 1..Len(<<>>) = {}
    BY EmptySeq
  <1>5. Copies' /\ Looked'
    BY <1>1, <1>3, <1>4 DEF ConfigInv, Copies, PlainBackup, Looked
  <1> QED
    BY <1>1, <1>2, <1>3, <1>5 DEF ConfigInv, Pending, RestoreExact

LEMMA ConfigPreserved == ConfigInv /\ [ConfigNext]_configVars => ConfigInv'
  <1> SUFFICES ASSUME ConfigInv, [ConfigNext]_configVars PROVE ConfigInv'
    OBVIOUS
  <1>1. CASE Tick \/ UNCHANGED configVars
    <2>1. UNCHANGED <<fs, items, kept, taken, copying, looked, since, exact, baks, replaced, edits>>
      BY <1>1 DEF Tick, configVars, backup
    <2> QED
      BY <2>1, PreservesStays DEF ConfigInv, Copies, Pending, PlainBackup, RestoreExact, Restored,
        StillToCopy, Looked, Original
  <1> QED
    BY <1>1, EditStep, BackupStep, RestoreStep, PreserveStep, RestoreFileStep, ConfigDiesStep
      DEF ConfigNext

THEOREM RestoresAreExact == ConfigSpec => []RestoreExact
  <1>1. ConfigInv => RestoreExact
    BY DEF ConfigInv
  <1> QED
    BY <1>1, ConfigInitial, ConfigPreserved, PTL DEF ConfigSpec

\* What a restore replaces is kept wherever restores are killed, but where somebody
\* edits the file between the two copies of restore_file, or two .bak files of it
\* are made in a second (configtool.py:251-256).
THEOREM ReplacedFilesAreKept == ConfigSpec => []NothingLost
  <1>1. ConfigInv => NothingLost
    BY DEF ConfigInv, Preserves
  <1> QED
    BY <1>1, ConfigInitial, ConfigPreserved, PTL DEF ConfigSpec

-----------------------------------------------------------------------------
Harm == {"none", "lost", "cut", "altered"}

\* What is in the directory at each stage.  All of it is from the snapshot.
DumpOfSnapshot ==
  /\ DOMAIN dump \subseteq Table
  /\ dump = [t \in DOMAIN dump |-> snapshot]
  /\ stage \in {"idle", "started"} => DOMAIN dump = {}
  /\ stage \in {"dumped", "walked", "finished"} => DOMAIN dump = Table

\* What was read when: the snapshot before the height in the manifest.
ReadsInOrder ==
  /\ commits \in Nat /\ noted \in Nat /\ snapshot \in Nat
  /\ noted <= commits /\ snapshot <= commits
  /\ stage \in {"idle", "started", "dumping", "dumped"} => manifest = <<>>
  /\ manifest # <<>> =>
       /\ manifest.files = DOMAIN dump
       /\ manifest.tip = Unknown \/ (manifest.tip \in Nat /\ snapshot <= manifest.tip)
       /\ stage \in {"walked", "finished", "dead"}

\* Files that were found good are not damaged later.
VerdictStands ==
  /\ damage \in [Table -> Harm]
  /\ verdict = "ok" => stage = "finished" /\ manifest # <<>> /\ \A t \in manifest.files : FileOk(t)
  /\ stage = "finished" => manifest # <<>>
  /\ stage = "walked" => manifest # <<>>
  /\ stage \notin {"finished", "dead"} => verdict = "none"

BackupInv == DumpOfSnapshot /\ ReadsInOrder /\ VerdictStands

LEMMA BackupInvInit == BackupInit => BackupInv
  BY DEF BackupInit, BackupInv, DumpOfSnapshot, ReadsInOrder, VerdictStands, Harm, Unknown

LEMMA BackupInvStep == BackupInv /\ [BackupNext]_backupVars => BackupInv'
<1> SUFFICES ASSUME BackupInv, [BackupNext]_backupVars PROVE BackupInv'
  OBVIOUS
<1> USE DEF BackupInv, DumpOfSnapshot, ReadsInOrder, VerdictStands, files, reads, FileOk
<1>1. CASE Commit
  BY <1>1 DEF Commit
<1>2. CASE BackupStart
  BY <1>2 DEF BackupStart
<1>3. CASE DumpStart
  BY <1>3 DEF DumpStart
<1>4. ASSUME NEW t \in Table, DumpTable(t) PROVE BackupInv'
  <2>1. DumpOfSnapshot'
    BY <1>4 DEF DumpTable, Seen
  <2> QED BY <1>4, <2>1 DEF DumpTable
<1>5. CASE DumpEnds
  BY <1>5 DEF DumpEnds
<1>6. CASE WalkFiles
  <2>1. PICK c \in BOOLEAN, h \in {commits, Unknown} :
          manifest' = [tip |-> h, checksummed |-> c, files |-> DOMAIN dump]
    BY <1>6 DEF WalkFiles, Tip
  <2>2. manifest' # <<>> /\ manifest'.tip = h /\ manifest'.files = DOMAIN dump
    BY <2>1
  <2> QED BY <1>6, <2>2 DEF WalkFiles
<1>7. CASE WriteManifest
  BY <1>7 DEF WriteManifest
<1>8. CASE BackupDies
  BY <1>8 DEF BackupDies
<1>9. ASSUME NEW t \in Table, Damage(t) PROVE BackupInv'
  <2>1. PICK d \in {"lost", "cut", "altered"} : damage' = [damage EXCEPT ![t] = d]
    BY <1>9 DEF Damage
  <2>2. damage' \in [Table -> Harm]
    BY <2>1 DEF Harm
  <2> QED BY <1>9, <2>2 DEF Damage
<1>10. CASE Verify
  BY <1>10 DEF Verify
<1>11. CASE UNCHANGED backupVars
  BY <1>11 DEF backupVars
<1> QED BY <1>1, <1>2, <1>3, <1>4, <1>5, <1>6, <1>7, <1>8, <1>9, <1>10, <1>11 DEF BackupNext

-----------------------------------------------------------------------------
\* A backup with checksums that verifies holds all tables as of one instant, as
\* they were dumped (backup.py:3-9).
THEOREM VerifiedBackupsAreWhole == BackupSpec => []VerifiedIsWhole
<1>1. BackupInv => VerifiedIsWhole
  <2> SUFFICES ASSUME BackupInv, verdict = "ok", manifest.checksummed
               PROVE  /\ dump = [t \in Table |-> snapshot]
                      /\ \A t \in Table : damage[t] = "none"
    BY DEF VerifiedIsWhole
  <2>1. DOMAIN dump = Table /\ manifest.files = Table
    BY DEF BackupInv, DumpOfSnapshot, ReadsInOrder, VerdictStands
  <2>2. dump = [t \in Table |-> snapshot]
    BY <2>1 DEF BackupInv, DumpOfSnapshot
  <2>3. ASSUME NEW t \in Table PROVE damage[t] = "none"
    <3>1. damage[t] \in Harm /\ FileOk(t)
      BY <2>1 DEF BackupInv, VerdictStands
    <3> QED BY <3>1 DEF FileOk, Harm
  <2> QED BY <2>2, <2>3
<1> QED BY <1>1, BackupInvInit, BackupInvStep, PTL DEF BackupSpec

\* The height in the manifest covers every table of the dump, however many
\* blocks are committed meanwhile (backup.py:193).
THEOREM ManifestCoversDump == BackupSpec => []TipCoversDump
<1>1. BackupInv => TipCoversDump
  <2> SUFFICES ASSUME BackupInv, manifest # <<>>, manifest.tip # Unknown, NEW t \in DOMAIN dump
               PROVE  dump[t] <= manifest.tip
    BY DEF TipCoversDump
  <2>1. dump[t] = snapshot
    BY DEF BackupInv, DumpOfSnapshot
  <2> QED BY <2>1 DEF BackupInv, ReadsInOrder
<1> QED BY <1>1, BackupInvInit, BackupInvStep, PTL DEF BackupSpec

-----------------------------------------------------------------------------
LabelValues == {"off", "p2pkh", "p2pk"}

TypesIn(table) == \A c \in DOMAIN table : table[c].type \in Enum

\* A label in use is in the enum, which only grows once the commands run, and so
\* is every type that is stored.
LabelInv ==
  /\ enum \in BOOLEAN
  /\ coin = <<>> => ~enum
  /\ label \in [Phase -> LabelValues]
  /\ \A p \in Phase : label[p] = "p2pk" => enum
  /\ TypesIn(out)
  /\ refused = {}

\* The pairs of extract_output_address have the label asked for, or a type that
\* is in the enum of every database (addresses.py:187-216).
LEMMA AddressTypes ==
  ASSUME NEW spk, NEW p2pk \in Enum
  PROVE  Cast(OutputAddress(spk, p2pk))
<1>1. \A a : TypeOfAddress(a) \in Enum
  BY DEF TypeOfAddress, Enum
<1>2. \A type, a : NormalType(type, a) \in Enum
  BY <1>1 DEF NormalType, ScriptTypeMap, Enum
<1>3. CASE spk.addresses # <<>>
  BY <1>2, <1>3 DEF OutputAddress, Cast
<1>4. CASE spk.addresses = <<>>
  BY <1>4 DEF OutputAddress, Cast
<1> QED BY <1>3, <1>4

\* What a running phase makes of an output the database accepts.
LEMMA RowsCast ==
  ASSUME LabelInv, NEW c, NEW p \in Phase, label[p] # "off"
  PROVE  Cast(RowsFor(c, p))
<1>1. label[p] \in Enum
  BY DEF LabelInv, LabelValues, Enum
<1>2. Cast(OutputAddress(ScriptPubKey(coin[c].script), label[p]))
  BY <1>1, AddressTypes
<1> QED BY <1>2 DEF RowsFor, Cast

\* A table whose types are in the enum keeps them when rows are inserted.
LEMMA InsertCast ==
  ASSUME NEW table, NEW c, NEW rows, Cast(rows), TypesIn(table)
  PROVE  TypesIn(InsertRow(table, c, rows))
<1> DEFINE new == InsertRow(table, c, rows)
<1>1. DOMAIN new = DOMAIN table \cup (IF rows = {} THEN {} ELSE {c})
  BY DEF InsertRow
<1>2. SUFFICES ASSUME NEW d \in DOMAIN new PROVE new[d].type \in Enum
  BY DEF TypesIn
<1>3. CASE d \in DOMAIN table
  BY <1>1, <1>3 DEF InsertRow, TypesIn
<1>4. CASE d \notin DOMAIN table
  <2>1. rows # {}
    BY <1>1, <1>4
  <2>2. new[d] = CHOOSE r \in rows : TRUE
    BY <1>1, <1>4 DEF InsertRow
  <2>3. (CHOOSE r \in rows : TRUE) \in rows
    BY <2>1
  <2> QED BY <2>2, <2>3 DEF Cast
<1> QED BY <1>3, <1>4

LEMMA LabelInit == CoinsInit => LabelInv
<1> SUFFICES ASSUME CoinsInit PROVE LabelInv
  OBVIOUS
<1>1. DOMAIN out = {}
  BY DEF CoinsInit
<1> QED BY <1>1 DEF CoinsInit, LabelInv, LabelValues, TypesIn

LEMMA LabelStep == LabelInv /\ [CoinsNext]_coinVars => LabelInv'
<1> SUFFICES ASSUME LabelInv, [CoinsNext]_coinVars PROVE LabelInv'
  OBVIOUS
<1> USE DEF LabelInv
<1>0. ASSUME enum => enum', UNCHANGED out PROVE TypesIn(out)'
  BY <1>0 DEF TypesIn, Enum
<1>1. CASE CoinsStart
  BY <1>0, <1>1, CoinsAssumption DEF CoinsStart, rowVars
<1>2. CASE UpgradeNode
  BY <1>0, <1>2 DEF UpgradeNode, rowVars
<1>3. CASE Migrate
  BY <1>0, <1>3 DEF Migrate, rowVars
<1>4. CASE BuildBalances
  BY <1>0, <1>4 DEF BuildBalances, chainVars, rowVars
<1>5. ASSUME NEW p \in Phase, PhaseSetup(p) PROVE LabelInv'
  BY <1>0, <1>5 DEF PhaseSetup, Label, LabelValues, chainVars, rowVars
<1>6. ASSUME NEW c \in Coin, StoreOutput(c) PROVE LabelInv'
  <2>1. Cast(RowsFor(c, "extract"))
    BY <1>6, RowsCast DEF StoreOutput, Phase
  <2>2. out' = InsertRow(out, c, RowsFor(c, "extract")) /\ refused' = refused
    BY <1>6, <2>1 DEF StoreOutput
  <2>3. TypesIn(InsertRow(out, c, RowsFor(c, "extract")))
    BY <2>1, InsertCast
  <2>4. UNCHANGED <<coin, enum, label>>
    BY <1>6 DEF StoreOutput, chainVars
  <2>5. TypesIn(out)'
    BY <2>2, <2>3, <2>4 DEF TypesIn, Enum
  <2> QED BY <2>2, <2>4, <2>5
<1>7. ASSUME NEW c \in Coin, NEW p \in Phase, StoreInput(c, p) PROVE LabelInv'
  <2>1. Cast(RowsFor(c, p))
    BY <1>7, RowsCast DEF StoreInput
  <2>2. ASSUME NEW rows \in InputRows(c, p) PROVE Cast(rows)
    BY <2>1, <2>2 DEF InputRows, Cast, TypesIn
  <2>3. refused' = refused
    BY <1>7, <2>2 DEF StoreInput
  <2>4. UNCHANGED <<coin, enum, label, out>>
    BY <1>7 DEF StoreInput, chainVars
  <2> QED BY <1>0, <2>3, <2>4
<1>8. CASE UNCHANGED coinVars
  BY <1>0, <1>8 DEF coinVars, chainVars, rowVars
<1> QED BY <1>1, <1>2, <1>3, <1>4, <1>5, <1>6, <1>7, <1>8 DEF CoinsNext

\* Whatever the outputs of the chain, and whenever phases are started and the
\* database migrated, no row is refused for its address_type (extract.py:139).
THEOREM EveryLabelAccepted == CoinsSpec => []LabelsAccepted
<1>1. LabelInv => LabelsAccepted
  BY DEF LabelInv, LabelsAccepted
<1> QED BY <1>1, LabelInit, LabelStep, PTL DEF CoinsSpec

-----------------------------------------------------------------------------
(* base58check_encode and the address Bitcoin Core gives to a key.         *)

LEMMA DivMod ==
  ASSUME NEW n \in Nat, NEW r \in Nat, r >= 2
  PROVE  n = (n \div r) * r + (n % r) /\ n \div r \in Nat /\ n % r \in 0..(r - 1)
<1> DEFINE Split(k) == \E q \in Nat, d \in 0..(r - 1) : k = q * r + d
           None == {k \in Nat : ~Split(k)}
<1>1. None = {}
  <2> SUFFICES ASSUME None # {} PROVE FALSE
    OBVIOUS
  <2>1. PICK k \in None : \A j \in None : k <= j
    <3>1. None \in SUBSET Nat
      OBVIOUS
    <3> HIDE DEF None
    <3> QED BY <3>1, LeastNatural
  <2> HIDE DEF Split
  <2>2. 0 = 0 * r + 0 /\ 0 \in 0..(r - 1)
    OBVIOUS
  <2>3. k # 0
    BY <2>1, <2>2 DEF Split
  <2>4. k - 1 \in Nat /\ k - 1 \notin None
    BY <2>1, <2>3
  <2>5. PICK q \in Nat, d \in 0..(r - 1) : k - 1 = q * r + d
    BY <2>4 DEF Split
  <2>6. CASE d + 1 < r
    <3>1. k = q * r + (d + 1) /\ d + 1 \in 0..(r - 1)
      BY <2>1, <2>5, <2>6
    <3> QED BY <2>1, <3>1 DEF Split
  <2>7. CASE d + 1 = r
    <3>1. (q + 1) * r = q * r + r
      OBVIOUS
    <3>2. k = (q + 1) * r + 0 /\ q + 1 \in Nat
      BY <2>1, <2>5, <2>7, <3>1
    <3> QED BY <2>1, <2>2, <3>2 DEF Split
  <2> QED BY <2>5, <2>6, <2>7
<1>2. PICK q \in Nat, d \in 0..(r - 1) : n = q * r + d
  BY <1>1
<1>3. n \div r = q /\ n % r = d
  BY <1>2
<1> QED BY <1>2, <1>3

LEMMA DivTimes ==
  ASSUME NEW n \in Nat, NEW r \in Nat, r >= 2
  PROVE  n \div r \in Nat /\ (n \div r) * r <= n
<1> DEFINE q == n \div r
           d == n % r
<1>1. q \in Nat /\ d \in 0..(r - 1) /\ n = q * r + d
  BY DivMod
<1> HIDE DEF q, d
<1>2. q * r <= n
  BY <1>1
<1> QED BY <1>1, <1>2 DEF q

LEMMA ModDiv ==
  ASSUME NEW q \in Nat, NEW r \in Nat, r >= 2, NEW d \in 0..(r - 1)
  PROVE  (q * r + d) \div r = q /\ (q * r + d) % r = d
OBVIOUS

\* Dividing shrinks, and keeps the order.
LEMMA DivSmaller ==
  ASSUME NEW n \in Nat, NEW r \in Nat, r >= 2, n # 0
  PROVE  n \div r \in 0..(n - 1)
<1> DEFINE q == n \div r
<1>1. q \in Nat /\ n >= q * r
  BY DivMod
<1> HIDE DEF q
<1>2. q * r >= q * 2
  BY <1>1
<1>3. q <= n - 1
  BY <1>1, <1>2
<1> QED BY <1>1, <1>3 DEF q

LEMMA DivOrder ==
  ASSUME NEW m \in Nat, NEW n \in Nat, NEW r \in Nat, r >= 2, m <= n
  PROVE  m \div r <= n \div r
<1> DEFINE p == m \div r
           q == n \div r
<1>1. p \in Nat /\ q \in Nat /\ m >= p * r /\ n < q * r + r
  BY DivMod
<1> HIDE DEF p, q
<1>2. ASSUME p >= q + 1 PROVE FALSE
  <2>1. PICK k \in Nat : p = q + 1 + k
    <3>1. p - (q + 1) \in Nat /\ p = q + 1 + (p - (q + 1))
      BY <1>1, <1>2
    <3> QED BY <3>1
  <2>2. p * r = q * r + r + k * r /\ k * r >= 0
    BY <1>1, <2>1
  <2> QED BY <1>1, <2>2
<1>3. p <= q
  BY <1>1, <1>2
<1> QED BY <1>3 DEF p, q

\* ValueIn is a fold from the left: a recursive function on sets of positions,
\* the last of which comes last.
Put(base, v, d) == v * base + d

AllButLast(P) == P \ {Max(P)}
Step(g, base, s, P) == IF P = {} THEN 0 ELSE Put(base, g[AllButLast(P)], s[Max(P)])
Weighs(g, base, s, S) == g = [P \in SUBSET S |-> Step(g, base, s, P)]

LEMMA WeighsIs ==
  ASSUME NEW g, NEW base, NEW s, NEW S, Weighs(g, base, s, S), NEW P \in SUBSET S
  PROVE  g[P] = Step(g, base, s, P)
BY DEF Weighs

Positions(P) == IsFiniteSet(P) /\ P \subseteq Nat

LEMMA PartPositions ==
  ASSUME NEW S, Positions(S), NEW T \in SUBSET S
  PROVE  Positions(T)
BY FS_Subset DEF Positions

LEMMA SmallestPositions ==
  ASSUME NEW S, Positions(S), NEW F \in SUBSET (SUBSET S), F # {}
  PROVE  \E T \in F : \A U \in F : U \subseteq T => U = T
<1>1. IsFiniteSet(S)
  BY DEF Positions
<1> QED BY <1>1, SmallestSubset

\* A set of positions, not empty, has a last one.
LEMMA LastIn ==
  ASSUME NEW P, Positions(P), P # {}
  PROVE  Max(P) \in P /\ \A i \in P : i <= Max(P)
<1> DEFINE Bad == {Q \in SUBSET P : Q # {} /\ ~\E m \in Q : \A i \in Q : m >= i}
<1>1. Bad = {}
  <2> SUFFICES ASSUME Bad # {} PROVE FALSE
    OBVIOUS
  <2>1. PICK Q \in Bad : \A R \in Bad : R \subseteq Q => R = Q
    <3>1. Bad \in SUBSET (SUBSET P)
      OBVIOUS
    <3> HIDE DEF Bad
    <3> QED BY <3>1, SmallestPositions
  <2>2. PICK x \in Q : TRUE
    BY <2>1
  <2>3. \A i \in Q : i \in Nat
    BY <2>1 DEF Positions
  <2>4. Q \ {x} \in SUBSET P /\ Q \ {x} # Q /\ Q \ {x} \subseteq Q
    BY <2>1, <2>2
  <2>5. Q \ {x} \notin Bad
    BY <2>1, <2>4
  <2>6. CASE Q \ {x} = {}
    <3>1. x \in Nat /\ \A i \in Q : i = x
      BY <2>2, <2>6, <2>3
    <3> QED BY <2>1, <2>2, <3>1
  <2>7. CASE Q \ {x} # {}
    <3>1. PICK m \in Q \ {x} : \A i \in Q \ {x} : m >= i
      BY <2>4, <2>5, <2>7
    <3>2. m \in Nat /\ x \in Nat /\ m \in Q
      BY <2>2, <2>3, <3>1
    <3>3. CASE m >= x
      BY <2>1, <3>1, <3>2, <3>3
    <3>4. CASE x >= m
      <4>1. \A i \in Q : x >= i
        <5> TAKE i \in Q
        <5>1. i \in Nat
          BY <2>3
        <5>2. i # x => m >= i
          BY <3>1
        <5> QED BY <3>2, <3>4, <5>1, <5>2
      <4> QED BY <2>1, <2>2, <4>1
    <3> QED BY <3>2, <3>3, <3>4
  <2> QED BY <2>6, <2>7
<1>2. \E m \in P : \A i \in P : m >= i
  BY <1>1
<1>3. Max(P) \in P /\ \A i \in P : Max(P) >= i
  BY <1>2 DEF Max
<1> QED BY <1>3

LEMMA WeighsAgree ==
  ASSUME NEW S, Positions(S), NEW T, Positions(T), NEW base, NEW s, NEW t, NEW g, NEW h,
         Weighs(g, base, s, S), Weighs(h, base, t, T),
         NEW P, P \in SUBSET S, P \in SUBSET T, \A i \in P : s[i] = t[i]
  PROVE  g[P] = h[P]
<1> DEFINE Apart == {Q \in SUBSET P : g[Q] # h[Q]}
<1>1. Apart = {}
  <2> SUFFICES ASSUME Apart # {} PROVE FALSE
    OBVIOUS
  <2>1. PICK Q \in Apart : \A R \in Apart : R \subseteq Q => R = Q
    <3>1. Apart \in SUBSET (SUBSET P)
      OBVIOUS
    <3> HIDE DEF Apart
    <3> QED BY <3>1, SmallestPositions
  <2>2. Q \in SUBSET S /\ Q \in SUBSET T /\ Q \in SUBSET P /\ g[Q] # h[Q]
    BY <2>1
  <2> HIDE DEF Apart
  <2>3. g[Q] = Step(g, base, s, Q)
    BY <2>2, WeighsIs
  <2>4. h[Q] = Step(h, base, t, Q)
    BY <2>2, WeighsIs
  <2>5. Q # {} /\ Positions(Q)
    BY <2>2, <2>3, <2>4, PartPositions DEF Step
  <2>6. Max(Q) \in Q
    BY <2>5, LastIn
  <2> DEFINE r == AllButLast(Q)
  <2>7. r \in SUBSET P /\ r \subseteq Q /\ r # Q /\ s[Max(Q)] = t[Max(Q)]
    BY <2>2, <2>6 DEF AllButLast
  <2> HIDE DEF r
  <2>8. r \notin Apart
    BY <2>1, <2>7
  <2>9. g[r] = h[r]
    BY <2>7, <2>8 DEF Apart
  <2> QED BY <2>2, <2>3, <2>4, <2>5, <2>7, <2>9 DEF r, Step
<1> QED BY <1>1

LEMMA WeighsExists ==
  ASSUME NEW S, Positions(S), NEW base, NEW s
  PROVE  \E g : Weighs(g, base, s, S)
<1> DEFINE None == {T \in SUBSET S : ~\E g : Weighs(g, base, s, T)}
<1>1. None = {}
  <2> SUFFICES ASSUME None # {} PROVE FALSE
    OBVIOUS
  <2>1. PICK T \in None : \A U \in None : U \subseteq T => U = T
    <3>1. None \in SUBSET (SUBSET S)
      OBVIOUS
    <3> HIDE DEF None
    <3> QED BY <3>1, SmallestPositions
  <2> DEFINE G(U) == CHOOSE g : Weighs(g, base, s, U)
             g == [P \in SUBSET T |-> Step(G(AllButLast(P)), base, s, P)]
  <2>2. \A U \in SUBSET T : U # T => Weighs(G(U), base, s, U)
    BY <2>1
  <2>3. \A U \in SUBSET T : Positions(U)
    BY <2>1, PartPositions
  <2>4. \A P \in SUBSET T : P # {} => AllButLast(P) \in SUBSET P /\ AllButLast(P) # P
    BY <2>3, LastIn DEF AllButLast
  <2>5. \A P \in SUBSET T : g[P] = Step(G(AllButLast(P)), base, s, P)
    OBVIOUS
  <2> HIDE DEF G, g
  <2>6. ASSUME NEW P \in SUBSET T, P # T PROVE g[P] = G(P)[P]
    <3>1. Weighs(G(P), base, s, P)
      BY <2>2, <2>6
    <3>2. G(P)[P] = Step(G(P), base, s, P)
      BY <3>1, WeighsIs
    <3>3. ASSUME P # {} PROVE G(P)[AllButLast(P)] = G(AllButLast(P))[AllButLast(P)]
      <4>1. AllButLast(P) \in SUBSET P /\ AllButLast(P) \in SUBSET T /\ AllButLast(P) # T
        BY <2>4, <2>6, <3>3
      <4>2. Weighs(G(AllButLast(P)), base, s, AllButLast(P)) /\ Positions(AllButLast(P))
        BY <2>2, <2>3, <4>1
      <4>3. Positions(P) /\ AllButLast(P) \in SUBSET AllButLast(P)
        BY <2>3
      <4>4. Weighs(G(P), base, s, P) /\ AllButLast(P) \in SUBSET P
        BY <3>1, <4>1
      <4> QED BY <4>2, <4>3, <4>4, WeighsAgree
    <3> QED BY <2>5, <3>2, <3>3 DEF Step
  <2>7. ASSUME NEW P \in SUBSET T
        PROVE  g[P] = Step(g, base, s, P)
    <3>1. CASE P = {}
      BY <2>5, <3>1 DEF Step
    <3>2. CASE P # {}
      <4>1. AllButLast(P) \in SUBSET T /\ AllButLast(P) # T
        BY <2>4, <3>2
      <4>2. g[AllButLast(P)] = G(AllButLast(P))[AllButLast(P)]
        BY <2>6, <4>1
      <4> QED BY <2>5, <3>2, <4>2 DEF Step
    <3> QED BY <3>1, <3>2
  <2>8. g = [P \in SUBSET T |-> Step(g, base, s, P)]
    <3>1. g = [P \in SUBSET T |-> g[P]]
      BY DEF g
    <3> QED BY <2>7, <3>1
  <2>9. Weighs(g, base, s, T)
    BY <2>8 DEF Weighs
  <2> QED BY <2>1, <2>9
<1> QED BY <1>1

\* The value of a list of digits by its last digit.
LEMMA ValueIs ==
  ASSUME NEW base, NEW S, NEW s \in Seq(S), NEW d \in S
  PROVE  /\ ValueIn(base, <<>>) = 0
         /\ ValueIn(base, Append(s, d)) = ValueIn(base, s) * base + d
<1> DEFINE G(q) == CHOOSE g : Weighs(g, base, q, DOMAIN q)
           a == Append(s, d)
           n == Len(s)
<1>1. \A q : ValueIn(base, q) = G(q)[DOMAIN q]
  BY DEF ValueIn, FoldLeft, MapThenFoldSet, Weighs, Step, AllButLast, Put
<1>2. /\ n \in Nat /\ DOMAIN s = 1..n /\ DOMAIN a = 1..(n + 1) /\ DOMAIN <<>> = {}
      /\ a[n + 1] = d /\ \A i \in 1..n : a[i] = s[i]
  BY AppendProperties, LenProperties
<1> HIDE DEF a, n
<1>3. \A k \in Nat : Positions(1..k)
  BY FS_Interval DEF Positions
<1>4. \A q : Positions(DOMAIN q) => Weighs(G(q), base, q, DOMAIN q)
  BY WeighsExists
<1> HIDE DEF G
<1>5. Weighs(G(s), base, s, 1..n) /\ Weighs(G(a), base, a, 1..(n + 1))
  BY <1>2, <1>3, <1>4
<1>6. Weighs(G(<<>>), base, <<>>, {})
  BY <1>2, <1>4, FS_EmptySet DEF Positions
<1>7. ValueIn(base, <<>>) = 0
  <2>1. G(<<>>)[{}] = Step(G(<<>>), base, <<>>, {})
    BY <1>6, WeighsIs
  <2> QED BY <1>1, <1>2, <2>1 DEF Step
<1>8. Max(1..(n + 1)) = n + 1 /\ 1..(n + 1) # {} /\ AllButLast(1..(n + 1)) = 1..n
  <2>1. n + 1 \in Nat /\ n + 1 \in 1..(n + 1) /\ \A i \in 1..(n + 1) : i <= n + 1
    BY <1>2
  <2>2. Positions(1..(n + 1)) /\ 1..(n + 1) # {}
    BY <1>3, <2>1
  <2>3. Max(1..(n + 1)) \in 1..(n + 1) /\ \A i \in 1..(n + 1) : i <= Max(1..(n + 1))
    BY <2>2, LastIn
  <2>4. Max(1..(n + 1)) = n + 1
    <3> DEFINE m == Max(1..(n + 1))
    <3>1. m \in 1..(n + 1) /\ n + 1 <= m
      BY <2>1, <2>3
    <3> HIDE DEF m
    <3>2. m = n + 1
      BY <1>2, <3>1
    <3> QED BY <3>2 DEF m
  <2>5. (1..(n + 1)) \ {n + 1} = 1..n
    BY <1>2
  <2>6. AllButLast(1..(n + 1)) = (1..(n + 1)) \ {n + 1}
    BY <2>4 DEF AllButLast
  <2> QED BY <2>2, <2>4, <2>5, <2>6
<1>9. G(a)[1..(n + 1)] = Put(base, G(a)[1..n], d)
  <2>1. Weighs(G(a), base, a, 1..(n + 1)) /\ 1..(n + 1) \in SUBSET (1..(n + 1))
    BY <1>5
  <2>2. G(a)[1..(n + 1)] = Step(G(a), base, a, 1..(n + 1))
    BY <2>1, WeighsIs
  <2>3. Step(G(a), base, a, 1..(n + 1)) = Put(base, G(a)[1..n], a[n + 1])
    BY <1>8 DEF Step
  <2> QED BY <1>2, <2>2, <2>3
<1>10. G(a)[1..n] = G(s)[1..n]
  <2> DEFINE P == 1..n
             Q == 1..(n + 1)
  <2>1. /\ P \in SUBSET Q /\ P \in SUBSET P /\ Positions(P) /\ Positions(Q)
        /\ \A i \in P : a[i] = s[i]
    BY <1>2, <1>3
  <2>2. Weighs(G(a), base, a, Q) /\ Weighs(G(s), base, s, P)
    BY <1>5
  <2> HIDE DEF P, Q
  <2>3. G(a)[P] = G(s)[P]
    BY <2>1, <2>2, WeighsAgree
  <2> QED BY <2>3 DEF P
<1> QED BY <1>1, <1>2, <1>7, <1>9, <1>10 DEF a, Put

-----------------------------------------------------------------------------
\* The digits of a number, by those of its quotient.
DigitsStep(f, n) == IF n = 0 THEN <<>> ELSE Append(f[n \div Radix], n % Radix)
DigitsTo(f, m) == f = [n \in 0..m |-> DigitsStep(f, n)]

LEMMA RadixType == Radix \in Nat /\ Radix >= 2 /\ Radix \in Nat \ {0}
<1>1. Radix \in Nat \ {0, 1}
  BY CoinsAssumption
<1> QED BY <1>1

LEMMA QuotientBelow ==
  ASSUME NEW n \in Nat, n # 0
  PROVE  n \div Radix \in Nat /\ n \div Radix <= n - 1
<1>1. n \div Radix \in 0..(n - 1)
  BY RadixType, DivSmaller
<1> QED BY <1>1

LEMMA DigitsAgree ==
  ASSUME NEW f, NEW g, NEW k \in Nat, NEW m \in Nat, DigitsTo(f, k), DigitsTo(g, m),
         NEW n \in Nat, n <= k, n <= m
  PROVE  f[n] = g[n]
<1> DEFINE Apart == {i \in 0..n : f[i] # g[i]}
<1>1. Apart = {}
  <2> SUFFICES ASSUME Apart # {} PROVE FALSE
    OBVIOUS
  <2>1. PICK i \in Apart : \A j \in Apart : i <= j
    <3>1. Apart \in SUBSET Nat
      OBVIOUS
    <3> HIDE DEF Apart
    <3> QED BY <3>1, LeastNatural
  <2>2. i \in Nat /\ i <= n /\ i \in 0..k /\ i \in 0..m /\ f[i] # g[i]
    BY <2>1
  <2> HIDE DEF Apart
  <2>3. f[i] = DigitsStep(f, i)
    BY <2>2 DEF DigitsTo
  <2>4. g[i] = DigitsStep(g, i)
    BY <2>2 DEF DigitsTo
  <2>5. i # 0
    BY <2>2, <2>3, <2>4 DEF DigitsStep
  <2> DEFINE q == i \div Radix
  <2>6. q \in Nat /\ q <= i - 1
    BY <2>2, <2>5, QuotientBelow
  <2> HIDE DEF q
  <2>7. q \notin Apart
    BY <2>1, <2>2, <2>6
  <2>8. f[q] = g[q]
    BY <2>2, <2>6, <2>7 DEF Apart
  <2> QED BY <2>2, <2>3, <2>4, <2>5, <2>8 DEF DigitsStep, q
<1> QED BY <1>1

LEMMA DigitsExist ==
  ASSUME NEW n \in Nat
  PROVE  \E f : DigitsTo(f, n)
<1> DEFINE None == {m \in Nat : ~\E f : DigitsTo(f, m)}
<1>1. None = {}
  <2> SUFFICES ASSUME None # {} PROVE FALSE
    OBVIOUS
  <2>1. PICK m \in None : \A k \in None : m <= k
    <3>1. None \in SUBSET Nat
      OBVIOUS
    <3> HIDE DEF None
    <3> QED BY <3>1, LeastNatural
  <2>2. m \in Nat /\ ~\E f : DigitsTo(f, m)
    BY <2>1
  <2>3. CASE m = 0
    <3> DEFINE f == [n_1 \in 0..0 |-> <<>>]
    <3>1. f = [k \in 0..0 |-> DigitsStep(f, k)]
      BY DEF DigitsStep
    <3> HIDE DEF f
    <3>2. DigitsTo(f, 0)
      BY <3>1 DEF DigitsTo
    <3> QED BY <2>2, <2>3, <3>2
  <2>4. CASE m # 0
    <3>1. m - 1 \in Nat /\ m - 1 \notin None
      BY <2>1, <2>2, <2>4
    <3>2. PICK f : DigitsTo(f, m - 1)
      BY <3>1
    <3> HIDE DEF None
    <3> DEFINE g == [k \in 0..m |-> DigitsStep(f, k)]
    <3>3. ASSUME NEW k \in 0..m PROVE DigitsStep(f, k) = DigitsStep(g, k)
      <4>1. CASE k = 0
        BY <4>1 DEF DigitsStep
      <4>2. CASE k # 0
        <5> DEFINE q == k \div Radix
        <5>1. q \in Nat /\ q <= k - 1
          BY <4>2, QuotientBelow
        <5> HIDE DEF q
        <5>2. q \in 0..(m - 1) /\ q \in 0..m
          BY <2>2, <5>1
        <5>3. f[q] = DigitsStep(f, q)
          BY <3>2, <5>2 DEF DigitsTo
        <5>4. f[q] = g[q]
          BY <5>2, <5>3
        <5> QED BY <4>2, <5>4 DEF DigitsStep, q
      <4> QED BY <4>1, <4>2
    <3>4. g = [k \in 0..m |-> DigitsStep(g, k)]
      BY <3>3
    <3> HIDE DEF g
    <3>5. DigitsTo(g, m)
      BY <3>4 DEF DigitsTo
    <3> QED BY <2>2, <3>5
  <2> QED BY <2>3, <2>4
<1> QED BY <1>1

LEMMA DigitsIs ==
  ASSUME NEW n \in Nat
  PROVE  Digits[n] = IF n = 0 THEN <<>> ELSE Append(Digits[n \div Radix], n % Radix)
<1> DEFINE F(m) == CHOOSE f : DigitsTo(f, m)
           D == [m \in Nat |-> F(m)[m]]
<1>1. \A m \in Nat : DigitsTo(F(m), m)
  BY DigitsExist
<1>2. \A m \in Nat : D[m] = F(m)[m]
  OBVIOUS
<1>3. D = [m \in Nat |-> D[m]]
  OBVIOUS
<1> HIDE DEF F, D
<1>4. ASSUME NEW m \in Nat PROVE D[m] = DigitsStep(D, m)
  <2>1. F(m)[m] = DigitsStep(F(m), m)
    BY <1>1 DEF DigitsTo
  <2>2. CASE m = 0
    BY <1>2, <2>1, <2>2 DEF DigitsStep
  <2>3. CASE m # 0
    <3> DEFINE q == m \div Radix
    <3>1. q \in Nat /\ q <= m - 1
      BY <2>3, QuotientBelow
    <3> HIDE DEF q
    <3>2. q <= m /\ q <= q
      BY <3>1
    <3>3. F(m)[q] = F(q)[q]
      BY <1>1, <3>1, <3>2, DigitsAgree
    <3>4. F(m)[q] = D[q]
      BY <1>2, <3>1, <3>3
    <3> QED BY <1>2, <2>1, <2>3, <3>4 DEF DigitsStep, q
  <2> QED BY <2>2, <2>3
<1>5. D = [m \in Nat |-> DigitsStep(D, m)]
  BY <1>3, <1>4
<1>6. Digits = CHOOSE f : f = [m \in Nat |-> DigitsStep(f, m)]
  BY DEF Digits, DigitsStep
<1>7. Digits = [m \in Nat |-> DigitsStep(Digits, m)]
  BY <1>5, <1>6
<1>8. Digits[n] = DigitsStep(Digits, n)
  BY <1>7
<1> QED BY <1>8 DEF DigitsStep

-----------------------------------------------------------------------------
\* Lists of digits.  A set of lists without the empty one has a member whose
\* front is not in the set: the first failure of an induction on lists.
LEMMA FirstFailure ==
  ASSUME NEW S, NEW B \in SUBSET Seq(S), B # {}, <<>> \notin B
  PROVE  \E f \in Seq(S), d \in S : Append(f, d) \in B /\ f \notin B
<1> DEFINE L == {Len(s) : s \in B}
<1>1. \A s \in B : s \in Seq(S) /\ Len(s) \in Nat
  BY LenProperties
<1>2. L \in SUBSET Nat /\ L # {}
  BY <1>1
<1>3. PICK m \in L : \A k \in L : m <= k
  <2> HIDE DEF L
  <2> QED BY <1>2, LeastNatural
<1>4. PICK s \in B : Len(s) = m
  BY <1>3
<1>5. s # <<>> /\ s \in Seq(S)
  BY <1>1, <1>4
<1>6. PICK f \in Seq(S), d \in S : s = Append(f, d)
  BY <1>5, SequenceEmptyOrAppend
<1>7. Len(s) = Len(f) + 1 /\ Len(f) \in Nat
  BY <1>6, AppendProperties, LenProperties
<1>8. f \notin B
  <2>1. ASSUME f \in B PROVE FALSE
    <3>1. m <= Len(f)
      BY <1>3, <2>1
    <3> QED BY <1>4, <1>7, <3>1
  <2> QED BY <2>1
<1> QED BY <1>4, <1>6, <1>8

LEMMA AppendIs ==
  ASSUME NEW S, NEW f \in Seq(S), NEW d \in S
  PROVE  /\ Append(f, d) \in Seq(S) /\ Len(f) \in Nat /\ Len(Append(f, d)) = Len(f) + 1
         /\ Append(f, d)[Len(f) + 1] = d
         /\ \A i \in 1..Len(f) : Append(f, d)[i] = f[i]
BY AppendProperties, LenProperties

LEMMA ValueOfNone == ASSUME NEW base PROVE ValueIn(base, <<>>) = 0
<1>1. <<>> \in Seq(Nat) /\ 0 \in Nat
  BY EmptySeq
<1> QED BY <1>1, ValueIs

LEMMA ValueType ==
  ASSUME NEW base \in Nat, NEW s \in Seq(Nat)
  PROVE  ValueIn(base, s) \in Nat
<1> DEFINE B == {t \in Seq(Nat) : ValueIn(base, t) \notin Nat}
<1>1. B = {}
  <2> SUFFICES ASSUME B # {} PROVE FALSE
    OBVIOUS
  <2>1. <<>> \notin B /\ B \in SUBSET Seq(Nat)
    BY ValueOfNone
  <2>2. PICK f \in Seq(Nat), d \in Nat : Append(f, d) \in B /\ f \notin B
    <3> HIDE DEF B
    <3> QED BY <2>1, FirstFailure
  <2>3. ValueIn(base, f) \in Nat
    BY <2>2
  <2>4. ValueIn(base, Append(f, d)) = ValueIn(base, f) * base + d
    BY ValueIs
  <2>5. \A v \in Nat : v * base + d \in Nat
    <3> TAKE v \in Nat
    <3>1. v * base \in Nat
      OBVIOUS
    <3> QED BY <3>1
  <2> QED BY <2>2, <2>3, <2>4, <2>5
<1> QED BY <1>1

AllZero(s) == \A i \in 1..Len(s) : s[i] = 0

LEMMA AllZeroAppend ==
  ASSUME NEW f \in Seq(Nat), NEW d \in Nat
  PROVE  AllZero(Append(f, d)) <=> AllZero(f) /\ d = 0
<1>1. /\ Len(f) \in Nat /\ Len(Append(f, d)) = Len(f) + 1 /\ Append(f, d)[Len(f) + 1] = d
      /\ \A i \in 1..Len(f) : Append(f, d)[i] = f[i]
  BY AppendIs
<1>2. \A i : i \in 1..(Len(f) + 1) <=> i \in 1..Len(f) \/ i = Len(f) + 1
  BY <1>1
<1> QED BY <1>1, <1>2 DEF AllZero

LEMMA ValueZero ==
  ASSUME NEW base \in Nat \ {0}, NEW s \in Seq(Nat)
  PROVE  ValueIn(base, s) = 0 <=> AllZero(s)
<1> DEFINE B == {t \in Seq(Nat) : ~(ValueIn(base, t) = 0 <=> AllZero(t))}
<1>1. B = {}
  <2> SUFFICES ASSUME B # {} PROVE FALSE
    OBVIOUS
  <2>1. AllZero(<<>>)
    BY DEF AllZero
  <2>2. <<>> \notin B /\ B \in SUBSET Seq(Nat)
    BY <2>1, ValueOfNone
  <2>3. PICK f \in Seq(Nat), d \in Nat : Append(f, d) \in B /\ f \notin B
    <3> HIDE DEF B
    <3> QED BY <2>2, FirstFailure
  <2>4. ValueIn(base, f) \in Nat /\ (ValueIn(base, f) = 0 <=> AllZero(f))
    BY <2>3, ValueType
  <2>5. ValueIn(base, Append(f, d)) = ValueIn(base, f) * base + d
    BY ValueIs
  <2>6. \A v \in Nat : v * base + d = 0 <=> v = 0 /\ d = 0
    <3> TAKE v \in Nat
    <3>1. v * base \in Nat /\ (v * base = 0 <=> v = 0)
      OBVIOUS
    <3> QED BY <3>1
  <2>7. ValueIn(base, Append(f, d)) = 0 <=> AllZero(Append(f, d))
    BY <2>4, <2>5, <2>6, AllZeroAppend
  <2> QED BY <2>3, <2>7
<1> QED BY <1>1

\* The leading zeros: as many as there are before the first other digit.
Leads(s, m) == /\ m \in Nat /\ m <= Len(s) /\ (\A i \in 1..m : s[i] = 0)
               /\ m < Len(s) => s[m + 1] # 0

LEMMA LeadingZerosAre ==
  ASSUME NEW s \in Seq(Nat), NEW m, Leads(s, m)
  PROVE  LeadingZeros(s) = m
<1> DEFINE Z == {i \in 1..Len(s) : \A j \in 1..i : s[j] = 0}
<1>1. Len(s) \in Nat /\ m \in Nat /\ m <= Len(s)
  BY LenProperties DEF Leads
<1>2. ASSUME NEW i \in 1..m PROVE i \in Z
  BY <1>1, <1>2 DEF Leads
<1>3. ASSUME NEW i \in Z PROVE i \in 1..m
  <2>1. i \in 1..Len(s) /\ \A j \in 1..i : s[j] = 0
    OBVIOUS
  <2>2. ASSUME i > m PROVE FALSE
    <3>1. m < Len(s) /\ m + 1 \in 1..i
      BY <1>1, <2>1, <2>2
    <3> QED BY <2>1, <3>1 DEF Leads
  <2> QED BY <1>1, <2>1, <2>2
<1>4. Z = 1..m
  BY <1>2, <1>3
<1>5. Cardinality(1..m) = m
  BY <1>1, FS_Interval
<1> QED BY <1>4, <1>5 DEF LeadingZeros

LEMMA LeadsSome ==
  ASSUME NEW s \in Seq(Nat)
  PROVE  Leads(s, LeadingZeros(s))
<1> DEFINE N == {k \in 1..Len(s) : s[k] # 0}
<1>1. Len(s) \in Nat
  BY LenProperties
<1>2. \E m : Leads(s, m)
  <2>1. CASE N = {}
    <3>1. Leads(s, Len(s))
      BY <1>1, <2>1 DEF Leads
    <3> QED BY <3>1
  <2>2. CASE N # {}
    <3>1. PICK k \in N : \A j \in N : k <= j
      <4>1. N \in SUBSET Nat
        BY <1>1
      <4> HIDE DEF N
      <4> QED BY <2>2, <4>1, LeastNatural
    <3>2. k \in 1..Len(s) /\ s[k] # 0
      BY <3>1
    <3>3. \A i \in 1..(k - 1) : s[i] = 0
      <4> TAKE i \in 1..(k - 1)
      <4>1. i \in 1..Len(s) /\ ~(k <= i)
        BY <1>1, <3>2
      <4> QED BY <3>1, <4>1
    <3>4. k - 1 \in Nat /\ k - 1 <= Len(s) /\ (k - 1) + 1 = k
      BY <1>1, <3>2
    <3>5. Leads(s, k - 1)
      BY <3>2, <3>3, <3>4 DEF Leads
    <3> QED BY <3>5
  <2> QED BY <2>1, <2>2
<1>3. PICK m : Leads(s, m)
  BY <1>2
<1>4. LeadingZeros(s) = m
  BY <1>3, LeadingZerosAre
<1> QED BY <1>3, <1>4

LEMMA LeadingFull ==
  ASSUME NEW s \in Seq(Nat)
  PROVE  LeadingZeros(s) = Len(s) <=> AllZero(s)
<1>1. Len(s) \in Nat
  BY LenProperties
<1>2. LeadingZeros(s) = Len(s) => AllZero(s)
  BY LeadsSome DEF Leads, AllZero
<1>3. AllZero(s) => Leads(s, Len(s))
  BY <1>1 DEF Leads, AllZero
<1> QED BY <1>2, <1>3, LeadingZerosAre

LEMMA LeadingAppend ==
  ASSUME NEW f \in Seq(Nat), NEW d \in Nat, ~(AllZero(f) /\ d = 0)
  PROVE  LeadingZeros(Append(f, d)) = LeadingZeros(f)
<1> DEFINE s == Append(f, d)
           m == LeadingZeros(f)
<1>1. /\ s \in Seq(Nat) /\ Len(f) \in Nat /\ Len(s) = Len(f) + 1 /\ s[Len(f) + 1] = d
      /\ \A i \in 1..Len(f) : s[i] = f[i]
  BY AppendIs
<1>2. Leads(f, m) /\ (m = Len(f) <=> AllZero(f))
  BY LeadsSome, LeadingFull
<1> HIDE DEF s, m
<1>3. m \in Nat /\ m <= Len(f) /\ (\A i \in 1..m : f[i] = 0) /\ (m < Len(f) => f[m + 1] # 0)
  BY <1>2 DEF Leads
<1>4. \A i \in 1..m : s[i] = 0
  <2> TAKE i \in 1..m
  <2>1. i \in 1..Len(f) /\ f[i] = 0
    BY <1>1, <1>3
  <2> QED BY <1>1, <2>1
<1>5. s[m + 1] # 0
  <2>1. CASE m = Len(f)
    BY <1>1, <1>2, <2>1
  <2>2. CASE m < Len(f)
    <3>1. m + 1 \in 1..Len(f)
      BY <1>1, <1>3, <2>2
    <3> QED BY <1>1, <1>3, <2>2, <3>1
  <2> QED BY <1>1, <1>3, <2>1, <2>2
<1>6. Leads(s, m)
  BY <1>1, <1>3, <1>4, <1>5 DEF Leads
<1>7. LeadingZeros(s) = m
  BY <1>1, <1>6, LeadingZerosAre
<1> QED BY <1>7 DEF s, m

-----------------------------------------------------------------------------
Digit == 0..(Radix - 1)

LEMMA DigitIsNat == Digit \subseteq Nat /\ 0 \in Digit /\ \A s \in Seq(Digit) : s \in Seq(Nat)
<1>1. Digit \subseteq Nat /\ 0 \in Digit
  BY RadixType DEF Digit
<1> QED BY <1>1, SeqMonotonic

\* A list of digits is known by its value and its leading zeros.
LEMMA DigitsUnique ==
  ASSUME NEW s \in Seq(Digit), NEW t \in Seq(Digit), LeadingZeros(s) = LeadingZeros(t),
         ValueIn(Radix, s) = ValueIn(Radix, t)
  PROVE  s = t
<1> DEFINE Like(p, q) == LeadingZeros(p) = LeadingZeros(q) /\ ValueIn(Radix, p) = ValueIn(Radix, q)
           B == {p \in Seq(Digit) : \E q \in Seq(Digit) : Like(p, q) /\ p # q}
<1>1. ASSUME NEW p \in Seq(Digit), NEW q \in Seq(Digit), Like(p, q), AllZero(p) PROVE p = q
  <2>1. p \in Seq(Nat) /\ q \in Seq(Nat) /\ Radix \in Nat \ {0}
    BY DigitIsNat, RadixType
  <2>2. AllZero(q)
    BY <1>1, <2>1, ValueZero
  <2>3. LeadingZeros(p) = Len(p) /\ LeadingZeros(q) = Len(q)
    BY <1>1, <2>1, <2>2, LeadingFull
  <2>4. Len(p) = Len(q) /\ \A i \in 1..Len(p) : p[i] = q[i]
    BY <1>1, <2>2, <2>3 DEF AllZero
  <2> QED BY <2>4, SeqEqual
<1>2. B = {}
  <2> SUFFICES ASSUME B # {} PROVE FALSE
    OBVIOUS
  <2>1. <<>> \notin B /\ B \in SUBSET Seq(Digit)
    <3>1. AllZero(<<>>)
      BY DEF AllZero
    <3> QED BY <1>1, <3>1
  <2>2. PICK f \in Seq(Digit), d \in Digit : Append(f, d) \in B /\ f \notin B
    <3> HIDE DEF B
    <3> QED BY <2>1, FirstFailure
  <2>3. PICK q \in Seq(Digit) : Like(Append(f, d), q) /\ Append(f, d) # q
    BY <2>2
  <2>4. \A g \in Seq(Digit) : Like(f, g) => f = g
    BY <2>2
  <2> HIDE DEF Like, B
  <2>5. ~AllZero(Append(f, d)) /\ Append(f, d) \in Seq(Digit)
    BY <1>1, <2>3, AppendIs
  <2>6. ~AllZero(q)
    <3>1. Like(q, Append(f, d))
      BY <2>3 DEF Like
    <3> QED BY <1>1, <2>3, <2>5, <3>1
  <2>7. q # <<>>
    BY <2>6 DEF AllZero
  <2>8. PICK g \in Seq(Digit), e \in Digit : q = Append(g, e)
    BY <2>7, SequenceEmptyOrAppend
  <2>9. f \in Seq(Nat) /\ g \in Seq(Nat) /\ d \in Nat /\ e \in Nat
    BY DigitIsNat
  <2>10. LeadingZeros(f) = LeadingZeros(g)
    <3>1. LeadingZeros(Append(f, d)) = LeadingZeros(f)
      BY <2>5, <2>9, AllZeroAppend, LeadingAppend
    <3>2. LeadingZeros(Append(g, e)) = LeadingZeros(g)
      BY <2>6, <2>8, <2>9, AllZeroAppend, LeadingAppend
    <3> QED BY <2>3, <2>8, <3>1, <3>2 DEF Like
  <2>11. ValueIn(Radix, f) = ValueIn(Radix, g) /\ d = e
    <3>1. ValueIn(Radix, f) * Radix + d = ValueIn(Radix, g) * Radix + e
      BY <2>3, <2>8, ValueIs DEF Like
    <3>2. ValueIn(Radix, f) \in Nat /\ ValueIn(Radix, g) \in Nat /\ d \in 0..(Radix - 1) /\ e \in 0..(Radix - 1)
      BY <2>9, RadixType, ValueType DEF Digit
    <3>3. \A v, w \in Nat : v * Radix + d = w * Radix + e => v = w /\ d = e
      <4> TAKE v, w \in Nat
      <4>1. /\ (v * Radix + d) \div Radix = v /\ (v * Radix + d) % Radix = d
            /\ (w * Radix + e) \div Radix = w /\ (w * Radix + e) % Radix = e
        BY <3>2, RadixType, ModDiv
      <4> QED BY <4>1
    <3> QED BY <3>1, <3>2, <3>3
  <2>12. f = g
    BY <2>4, <2>10, <2>11 DEF Like
  <2> QED BY <2>3, <2>8, <2>11, <2>12
<1> QED BY <1>2

LEMMA DigitsType ==
  ASSUME NEW n \in Nat
  PROVE  /\ Digits[n] \in Seq(Digit) /\ ValueIn(Radix, Digits[n]) = n
         /\ LeadingZeros(Digits[n]) = 0
<1> DEFINE Right(m) == /\ Digits[m] \in Seq(Digit) /\ ValueIn(Radix, Digits[m]) = m
                       /\ LeadingZeros(Digits[m]) = 0
           Bad == {m \in Nat : ~Right(m)}
<1>1. Bad = {}
  <2> SUFFICES ASSUME Bad # {} PROVE FALSE
    OBVIOUS
  <2>1. PICK m \in Bad : \A k \in Bad : m <= k
    <3>1. Bad \in SUBSET Nat
      OBVIOUS
    <3> HIDE DEF Bad
    <3> QED BY <3>1, LeastNatural
  <2>2. m \in Nat /\ ~Right(m)
    BY <2>1
  <2>3. CASE m = 0
    <3>1. Digits[m] = <<>>
      BY <2>2, <2>3, DigitsIs
    <3>2. <<>> \in Seq(Digit) /\ <<>> \in Seq(Nat) /\ Len(<<>>) = 0 /\ AllZero(<<>>)
      BY EmptySeq DEF AllZero
    <3>3. LeadingZeros(<<>>) = 0
      BY <3>2, LeadingFull
    <3> QED BY <2>2, <2>3, <3>1, <3>2, <3>3, ValueOfNone
  <2>4. CASE m # 0
    <3> DEFINE q == m \div Radix
               d == m % Radix
    <3>1. q \in Nat /\ q <= m - 1 /\ m = q * Radix + d /\ d \in Digit
      BY <2>2, <2>4, QuotientBelow, DivMod, RadixType DEF Digit
    <3>2. Digits[m] = Append(Digits[q], d)
      BY <2>2, <2>4, DigitsIs
    <3> HIDE DEF q, d
    <3>3. q \notin Bad
      BY <2>1, <2>2, <3>1
    <3>4. Right(q)
      BY <3>1, <3>3
    <3> DEFINE f == Digits[q]
    <3>5. f \in Seq(Digit) /\ f \in Seq(Nat) /\ d \in Nat /\ ValueIn(Radix, f) = q /\ LeadingZeros(f) = 0
      BY <3>1, <3>4, DigitIsNat
    <3>6. Digits[m] = Append(f, d)
      BY <3>2
    <3> HIDE DEF f
    <3>7. Append(f, d) \in Seq(Digit)
      BY <3>1, <3>5, AppendIs
    <3>8. ValueIn(Radix, Append(f, d)) = m
      BY <3>1, <3>5, ValueIs
    <3>9. ~(AllZero(f) /\ d = 0)
      <4>1. Append(f, d) \in Seq(Nat)
        BY <3>5, AppendIs
      <4>2. ~AllZero(Append(f, d))
        BY <2>4, <3>8, <4>1, RadixType, ValueZero
      <4> QED BY <3>5, <4>2, AllZeroAppend
    <3>10. LeadingZeros(Append(f, d)) = 0
      BY <3>5, <3>9, LeadingAppend
    <3> QED BY <2>2, <3>6, <3>7, <3>8, <3>10
  <2> QED BY <2>3, <2>4
<1> QED BY <1>1

\* More in value is not fewer digits.
LEMMA DigitsOrder ==
  ASSUME NEW m \in Nat, NEW n \in Nat, m <= n
  PROVE  Len(Digits[m]) <= Len(Digits[n])
<1> DEFINE Bad == {k \in Nat : \E j \in 0..k : ~(Len(Digits[j]) <= Len(Digits[k]))}
<1>1. \A k \in Nat : Len(Digits[k]) \in Nat
  BY DigitsType, LenProperties
<1>2. Len(Digits[0]) = 0
  BY DigitsIs, EmptySeq
<1>3. ASSUME NEW k \in Nat, k # 0 PROVE Len(Digits[k]) = Len(Digits[k \div Radix]) + 1
  <2> DEFINE q == k \div Radix
             d == k % Radix
  <2>1. q \in Nat /\ d \in Digit
    BY <1>3, QuotientBelow, DivMod, RadixType DEF Digit
  <2>2. Digits[k] = Append(Digits[q], d)
    BY <1>3, DigitsIs
  <2> HIDE DEF q, d
  <2>3. Len(Digits[k]) = Len(Digits[q]) + 1
    BY <2>1, <2>2, DigitsType, AppendIs
  <2> QED BY <2>3 DEF q
<1>4. Bad = {}
  <2> SUFFICES ASSUME Bad # {} PROVE FALSE
    OBVIOUS
  <2>1. PICK k \in Bad : \A i \in Bad : k <= i
    <3>1. Bad \in SUBSET Nat
      OBVIOUS
    <3> HIDE DEF Bad
    <3> QED BY <3>1, LeastNatural
  <2>2. PICK j \in 0..k : ~(Len(Digits[j]) <= Len(Digits[k]))
    BY <2>1
  <2>3. k \in Nat /\ j \in Nat /\ j <= k
    BY <2>1, <2>2
  <2> HIDE DEF Bad
  <2>4. j # 0
    BY <1>1, <1>2, <2>2, <2>3
  <2>5. k # 0
    BY <2>3, <2>4
  <2> DEFINE p == j \div Radix
             q == k \div Radix
  <2>6. p \in Nat /\ q \in Nat /\ q <= k - 1 /\ p <= q
    BY <2>3, <2>4, <2>5, QuotientBelow, DivOrder, RadixType
  <2>7. Len(Digits[j]) = Len(Digits[p]) + 1 /\ Len(Digits[k]) = Len(Digits[q]) + 1
    BY <1>3, <2>3, <2>4, <2>5
  <2> HIDE DEF p, q
  <2>8. q \notin Bad /\ p \in 0..q
    BY <2>1, <2>3, <2>6
  <2>9. Len(Digits[p]) <= Len(Digits[q])
    BY <2>6, <2>8 DEF Bad
  <2> QED BY <1>1, <2>2, <2>6, <2>7, <2>9
<1> QED BY <1>4

LEMMA LessByFactor ==
  ASSUME NEW a \in Nat, NEW c \in Nat, NEW r \in Nat, a * r < c * r
  PROVE  a < c
<1>1. ASSUME a >= c PROVE FALSE
  <2>1. PICK k \in Nat : a = c + k
    <3>1. a - c \in Nat /\ a = c + (a - c)
      BY <1>1
    <3> QED BY <3>1
  <2>2. a * r = c * r + k * r /\ k * r \in Nat /\ c * r \in Nat
    BY <2>1
  <2> QED BY <2>2
<1> QED BY <1>1

\* A byte makes at most two digits more.
LEMMA ByteDigits ==
  ASSUME NEW v \in Nat, NEW d \in 0..(Byte - 1)
  PROVE  Len(Digits[v * Byte + d]) <= Len(Digits[v]) + 2
<1> DEFINE n == v * Byte + d
           a == n \div Radix
           b == a \div Radix
<1>1. /\ Byte \in Nat /\ Byte # 0 /\ Byte <= Radix * Radix
      /\ Radix \in Nat /\ Radix >= 2 /\ Radix * Radix \in Nat
  <2>1. Byte \in Nat \ {0} /\ Byte <= Radix * Radix
    BY CoinsAssumption
  <2> QED BY <2>1, RadixType
<1>2. n \in Nat /\ n < (v + 1) * Byte
  <2>1. v * Byte \in Nat /\ (v + 1) * Byte = v * Byte + Byte
    BY <1>1
  <2> QED BY <1>1, <2>1
<1>3. (v + 1) * Byte <= (v + 1) * (Radix * Radix)
  <2>1. PICK k \in Nat : Radix * Radix = Byte + k
    <3>1. Radix * Radix - Byte \in Nat /\ Radix * Radix = Byte + (Radix * Radix - Byte)
      BY <1>1
    <3> QED BY <3>1
  <2>2. (v + 1) * (Byte + k) = (v + 1) * Byte + (v + 1) * k
    BY <1>1
  <2>3. (v + 1) * k \in Nat /\ (v + 1) * Byte \in Nat
    BY <1>1
  <2> QED BY <2>1, <2>2, <2>3
<1>4. (v + 1) * (Radix * Radix) = ((v + 1) * Radix) * Radix /\ (v + 1) * Radix \in Nat
  BY <1>1
<1> HIDE DEF n
<1>5. a \in Nat /\ a * Radix <= n
  BY <1>1, <1>2, DivTimes
<1> HIDE DEF a
<1>6. b \in Nat /\ b * Radix <= a
  BY <1>1, <1>5, DivTimes
<1> HIDE DEF b
<1>7. a < (v + 1) * Radix
  <2>1. a * Radix < ((v + 1) * Radix) * Radix
    <3>1. a * Radix \in Nat /\ (v + 1) * Byte \in Nat /\ ((v + 1) * Radix) * Radix \in Nat
      BY <1>1, <1>4, <1>5
    <3> QED BY <1>2, <1>3, <1>4, <1>5, <3>1
  <2> QED BY <1>1, <1>4, <1>5, <2>1, LessByFactor
<1>8. b <= v
  <2>1. b * Radix < (v + 1) * Radix
    <3>1. b * Radix \in Nat
      BY <1>1, <1>6
    <3> QED BY <1>4, <1>5, <1>6, <1>7, <3>1
  <2>2. b < v + 1
    BY <1>1, <1>6, <2>1, LessByFactor
  <2> QED BY <1>6, <2>2
<1>9. ASSUME NEW k \in Nat
      PROVE  Len(Digits[k]) \in Nat /\ Len(Digits[k]) <= Len(Digits[k \div Radix]) + 1
  <2>1. Len(Digits[k]) \in Nat
    BY DigitsType, LenProperties
  <2>2. CASE k = 0
    <3>1. Len(Digits[k]) = 0 /\ k \div Radix \in Nat
      BY <2>2, <1>1, DigitsIs, EmptySeq, DivMod
    <3>2. Len(Digits[k \div Radix]) \in Nat
      BY <3>1, DigitsType, LenProperties
    <3> QED BY <3>1, <3>2
  <2>3. CASE k # 0
    <3> DEFINE q == k \div Radix
               e == k % Radix
    <3>1. q \in Nat /\ e \in Digit
      BY <1>1, DivMod DEF Digit
    <3>2. Digits[k] = Append(Digits[q], e)
      BY <2>3, DigitsIs
    <3> HIDE DEF q, e
    <3>3. Len(Digits[k]) = Len(Digits[q]) + 1
      BY <3>1, <3>2, DigitsType, AppendIs
    <3>4. Len(Digits[k]) <= Len(Digits[q]) + 1
      BY <2>1, <3>3
    <3> QED BY <2>1, <3>4 DEF q
  <2> QED BY <2>2, <2>3
<1>10. Len(Digits[n]) <= Len(Digits[a]) + 1 /\ Len(Digits[a]) <= Len(Digits[b]) + 1
  BY <1>2, <1>5, <1>9 DEF a, b
<1>11. Len(Digits[b]) <= Len(Digits[v])
  BY <1>6, <1>8, DigitsOrder
<1>12. /\ Len(Digits[n]) \in Nat /\ Len(Digits[a]) \in Nat /\ Len(Digits[b]) \in Nat
       /\ Len(Digits[v]) \in Nat
  BY <1>2, <1>5, <1>6, <1>9
<1>13. Len(Digits[n]) <= Len(Digits[v]) + 2
  BY <1>10, <1>11, <1>12
<1> QED BY <1>13 DEF n

\* Leading ones in front of digits change the number of leading ones only.
LEMMA Padded ==
  ASSUME NEW m \in Nat, NEW z, z = [i \in 1..m |-> 0], NEW s \in Seq(Digit), LeadingZeros(s) = 0
  PROVE  /\ z \o s \in Seq(Digit) /\ Len(z \o s) = m + Len(s)
         /\ ValueIn(Radix, z \o s) = ValueIn(Radix, s) /\ LeadingZeros(z \o s) = m
<1>1. z \in Seq(Digit) /\ z \in Seq(Nat) /\ Len(z) = m /\ s \in Seq(Nat) /\ Len(s) \in Nat
  <2>1. z \in [1..m -> Digit]
    BY DigitIsNat
  <2> QED BY <2>1, SequenceIs, DigitIsNat, LenProperties
<1>2. /\ z \o s \in Seq(Digit) /\ z \o s \in Seq(Nat) /\ Len(z \o s) = m + Len(s)
      /\ \A i \in 1..(m + Len(s)) : (z \o s)[i] = IF i <= m THEN z[i] ELSE s[i - m]
  BY <1>1, ConcatProperties, DigitIsNat
<1>3. LeadingZeros(z \o s) = m
  <2>1. \A i \in 1..m : (z \o s)[i] = 0
    <3> TAKE i \in 1..m
    <3>1. i \in 1..(m + Len(s)) /\ i <= m /\ z[i] = 0
      BY <1>1
    <3> QED BY <1>2, <3>1
  <2>2. ASSUME m < m + Len(s) PROVE (z \o s)[m + 1] # 0
    <3>1. Leads(s, 0)
      BY <1>1, LeadsSome
    <3>2. s[1] # 0 /\ m + 1 \in 1..(m + Len(s)) /\ ~(m + 1 <= m) /\ (m + 1) - m = 1
      BY <1>1, <2>2, <3>1 DEF Leads
    <3> QED BY <1>2, <3>2
  <2>3. Leads(z \o s, m)
    BY <1>1, <1>2, <2>1, <2>2 DEF Leads
  <2> QED BY <1>2, <2>3, LeadingZerosAre
<1>4. ValueIn(Radix, z \o s) = ValueIn(Radix, s)
  <2> DEFINE B == {t \in Seq(Nat) : ValueIn(Radix, z \o t) # ValueIn(Radix, t)}
  <2>1. B = {}
    <3> SUFFICES ASSUME B # {} PROVE FALSE
      OBVIOUS
    <3>1. <<>> \notin B /\ B \in SUBSET Seq(Nat)
      <4>1. z \o <<>> = z /\ AllZero(z)
        BY <1>1, ConcatEmptySeq DEF AllZero
      <4>2. ValueIn(Radix, z) = 0
        BY <1>1, <4>1, ValueZero, RadixType
      <4> QED BY <4>1, <4>2, ValueOfNone
    <3>2. PICK f \in Seq(Nat), d \in Nat : Append(f, d) \in B /\ f \notin B
      <4> HIDE DEF B
      <4> QED BY <3>1, FirstFailure
    <3>3. z \o Append(f, d) = Append(z \o f, d) /\ z \o f \in Seq(Nat)
      <4>1. <<d>> \in Seq(Nat) /\ z \o f \in Seq(Nat)
        BY <1>1, ConcatProperties
      <4>2. Append(f, d) = f \o <<d>> /\ Append(z \o f, d) = (z \o f) \o <<d>>
        BY <4>1, AppendIsConcat
      <4>3. (z \o f) \o <<d>> = z \o (f \o <<d>>)
        BY <1>1, <4>1, ConcatAssociative
      <4> QED BY <4>1, <4>2, <4>3
    <3>4. ValueIn(Radix, z \o f) = ValueIn(Radix, f)
      BY <3>2
    <3>5. ValueIn(Radix, z \o Append(f, d)) = ValueIn(Radix, f) * Radix + d
      BY <3>3, <3>4, ValueIs
    <3>6. ValueIn(Radix, Append(f, d)) = ValueIn(Radix, f) * Radix + d
      BY ValueIs
    <3> QED BY <3>2, <3>5, <3>6
  <2> QED BY <1>1, <2>1
<1> QED BY <1>2, <1>3, <1>4

\* The room CoreAddress allows is enough.
LEMMA EncodeRoom ==
  ASSUME NEW s \in Seq(0..(Byte - 1))
  PROVE  LeadingZeros(s) + Len(Digits[ValueIn(Byte, s)]) <= 2 * Len(s)
<1> DEFINE Fits(t) == LeadingZeros(t) + Len(Digits[ValueIn(Byte, t)]) <= 2 * Len(t)
           B == {t \in Seq(0..(Byte - 1)) : ~Fits(t)}
<1>1. Byte \in Nat \ {0} /\ Byte \in Nat
  BY CoinsAssumption
<1>2. \A t \in Seq(0..(Byte - 1)) : t \in Seq(Nat)
  <2>1. 0..(Byte - 1) \subseteq Nat
    BY <1>1
  <2> QED BY <2>1, SeqMonotonic
<1>3. ASSUME NEW t \in Seq(Nat), AllZero(t) PROVE Fits(t)
  <2>1. LeadingZeros(t) = Len(t) /\ Len(t) \in Nat
    BY <1>3, LeadingFull, LenProperties
  <2>2. ValueIn(Byte, t) = 0
    BY <1>1, <1>3, ValueZero
  <2>3. Len(Digits[0]) = 0
    BY DigitsIs, EmptySeq
  <2> QED BY <2>1, <2>2, <2>3
<1>4. B = {}
  <2> SUFFICES ASSUME B # {} PROVE FALSE
    OBVIOUS
  <2>1. <<>> \notin B /\ B \in SUBSET Seq(0..(Byte - 1))
    <3>1. AllZero(<<>>) /\ <<>> \in Seq(Nat)
      BY EmptySeq DEF AllZero
    <3> QED BY <1>3, <3>1
  <2>2. PICK f \in Seq(0..(Byte - 1)), d \in 0..(Byte - 1) : Append(f, d) \in B /\ f \notin B
    <3> HIDE DEF B
    <3> QED BY <2>1, FirstFailure
  <2>3. ~Fits(Append(f, d)) /\ Fits(f)
    BY <2>2
  <2> HIDE DEF B, Fits
  <2>4. f \in Seq(Nat) /\ d \in Nat /\ Append(f, d) \in Seq(Nat)
    BY <1>1, <1>2, AppendIs
  <2>5. ~AllZero(Append(f, d))
    BY <1>3, <2>3, <2>4
  <2>6. LeadingZeros(Append(f, d)) = LeadingZeros(f)
    BY <2>4, <2>5, AllZeroAppend, LeadingAppend
  <2> DEFINE v == ValueIn(Byte, f)
  <2>7. v \in Nat /\ ValueIn(Byte, Append(f, d)) = v * Byte + d
    BY <1>1, <2>4, ValueType, ValueIs
  <2>8. Len(Append(f, d)) = Len(f) + 1 /\ Len(f) \in Nat
    BY AppendIs
  <2>9. LeadingZeros(f) \in Nat
    BY <2>4, LeadsSome DEF Leads
  <2>10. LeadingZeros(f) + Len(Digits[v]) <= 2 * Len(f)
    BY <2>3 DEF Fits
  <2> HIDE DEF v
  <2>11. v * Byte + d \in Nat
    <3>1. v \in Nat /\ d \in Nat /\ Byte \in Nat
      BY <1>1, <2>4, <2>7
    <3>2. v * Byte \in Nat
      BY <3>1
    <3> QED BY <3>1, <3>2
  <2>12. /\ Len(Digits[v * Byte + d]) <= Len(Digits[v]) + 2
         /\ Len(Digits[v]) \in Nat /\ Len(Digits[v * Byte + d]) \in Nat
    BY <2>7, <2>11, ByteDigits, DigitsType, LenProperties
  <2>13. LeadingZeros(f) + Len(Digits[v * Byte + d]) <= 2 * (Len(f) + 1)
    BY <2>8, <2>9, <2>10, <2>12
  <2>14. Fits(Append(f, d))
    BY <2>6, <2>7, <2>8, <2>13 DEF Fits
  <2> QED BY <2>3, <2>14
<1> QED BY <1>4

\* base58check_encode finds the address Bitcoin Core gives to the key.
LEMMA DerivedIsCore ==
  ASSUME NEW k \in Key
  PROVE  DerivedAddress(k) = CoreAddress[k]
<1> DEFINE raw == Raw(k)
           R == 0..(Byte - 1)
           m == LeadingZeros(raw)
           s == Digits[ValueIn(Byte, raw)]
           z == [i \in 1..m |-> 0]
           Room == UNION {[1..l -> 0..(Radix - 1)] : l \in 1..(2 * Len(raw))}
           Meets(t) == LeadingZeros(t) = m /\ ValueIn(Radix, t) = ValueIn(Byte, raw)
<1>1. Byte \in Nat /\ Byte # 0 /\ Digest[k] \in Seq(R) /\ Checksum[Digest[k]] \in Seq(R)
  <2>1. Byte \in Nat \ {0}
    BY CoinsAssumption
  <2>2. Digest[k] \in Seq(R) /\ Checksum[Digest[k]] \in Seq(R)
    BY CoinsAssumption
  <2> QED BY <2>1, <2>2
<1>2. raw \in Seq(R) /\ Len(raw) \in Nat /\ Len(raw) >= 1
  <2> HIDE DEF R
  <2>1. 0 \in R
    BY <1>1 DEF R
  <2>2. <<0>> \in Seq(R) /\ Len(<<0>>) = 1
    BY <2>1
  <2> DEFINE front == <<0>> \o Digest[k]
  <2>3. front \in Seq(R) /\ Len(front) = 1 + Len(Digest[k]) /\ Len(Digest[k]) \in Nat
    BY <1>1, <2>2, ConcatProperties, LenProperties
  <2> HIDE DEF front
  <2>4. /\ front \o Checksum[Digest[k]] \in Seq(R) /\ Len(Checksum[Digest[k]]) \in Nat
        /\ Len(front \o Checksum[Digest[k]]) = Len(front) + Len(Checksum[Digest[k]])
    BY <1>1, <2>3, ConcatProperties, LenProperties
  <2>5. raw = front \o Checksum[Digest[k]]
    BY DEF Raw, hash160, front
  <2> HIDE DEF raw
  <2> QED BY <2>3, <2>4, <2>5
<1> HIDE DEF raw
<1>3. raw \in Seq(Nat)
  <2>1. R \subseteq Nat
    BY <1>1
  <2> HIDE DEF R
  <2> QED BY <1>2, <2>1, SeqMonotonic
<1>4. ValueIn(Byte, raw) \in Nat /\ m \in Nat /\ m <= Len(raw)
  BY <1>1, <1>3, ValueType, LeadsSome DEF Leads
<1>5. /\ s \in Seq(Digit) /\ ValueIn(Radix, s) = ValueIn(Byte, raw) /\ LeadingZeros(s) = 0
      /\ Len(s) \in Nat
  BY <1>4, DigitsType, LenProperties
<1>6. m + Len(s) <= 2 * Len(raw)
  BY <1>2, EncodeRoom
<1>7. m + Len(s) >= 1
  <2>1. CASE AllZero(raw)
    BY <1>2, <1>3, <1>5, <2>1, LeadingFull
  <2>2. CASE ~AllZero(raw)
    <3>1. ValueIn(Byte, raw) # 0
      BY <1>1, <1>3, <2>2, ValueZero
    <3>2. s # <<>>
      BY <1>5, <3>1, ValueOfNone
    <3>3. Len(s) # 0
      BY <1>5, <3>2, EmptySeq
    <3> QED BY <1>4, <1>5, <3>3
  <2> QED BY <2>1, <2>2
<1> HIDE DEF m, s
<1>8. z \o s \in Seq(Digit) /\ Len(z \o s) = m + Len(s) /\ Meets(z \o s)
  BY <1>4, <1>5, Padded
<1> DEFINE e == z \o s
<1>9. e \in Room
  <2>1. e \in [1..(m + Len(s)) -> Digit]
    BY <1>8, LenProperties
  <2>2. m + Len(s) \in 1..(2 * Len(raw))
    BY <1>2, <1>4, <1>5, <1>6, <1>7
  <2> HIDE DEF e
  <2> QED BY <2>1, <2>2 DEF Digit
<1>10. ASSUME NEW t \in Room, Meets(t) PROVE t = e
  <2>1. t \in Seq(Digit)
    <3>1. PICK l \in 1..(2 * Len(raw)) : t \in [1..l -> 0..(Radix - 1)]
      OBVIOUS
    <3>2. l \in Nat /\ t \in [1..l -> Digit]
      BY <1>2, <3>1 DEF Digit
    <3> QED BY <3>2, SequenceIs
  <2> QED BY <1>8, <1>10, <2>1, DigitsUnique
<1>11. e = CHOOSE t \in Room : Meets(t)
  <2> HIDE DEF e, Room, Meets
  <2>1. e \in Room /\ Meets(e)
    BY <1>8, <1>9 DEF e
  <2> QED BY <1>10, <2>1
<1>12. DerivedAddress(k) = [hrp |-> "", text |-> e]
  BY DEF DerivedAddress, Encode, raw, m, s
<1>13. CoreAddress[k] = [hrp |-> "", text |-> CHOOSE t \in Room : Meets(t)]
  BY DEF CoreAddress, raw, m
<1> QED BY <1>11, <1>12, <1>13

-----------------------------------------------------------------------------
\* Rows are under the address of the owner, and the outputs that have one are
\* there as soon as their block is.
WalletInv ==
  /\ coin = <<>> => /\ \A p \in Phase : label[p] = "off"
                    /\ DOMAIN out = {} /\ DOMAIN in = {} /\ stored = {}
  /\ coin # <<>> => coin \in Chains
  /\ DOMAIN out \subseteq Coin /\ stored \subseteq Coin
  /\ \A c \in DOMAIN out : out[c].address = OwnerAddress(c)
  /\ \A c \in DOMAIN in : in[c].address = OwnerAddress(c)
  /\ \A c \in Coin : OneOwner(c) => (c \in DOMAIN out <=> c \in stored /\ coin[c].amount > 0)

LEMMA ScriptOf ==
  ASSUME coin \in Chains, NEW c \in Coin
  PROVE  /\ coin[c].script.type \in ScriptType
         /\ coin[c].script.keys \in Seq(Key) /\ coin[c].script.keys # <<>>
         /\ Len(coin[c].script.keys) \in Nat /\ Len(coin[c].script.keys) >= 1
         /\ coin[c].script.keys[1] \in Key /\ coin[c].amount \in Nat
<1> DEFINE keys == coin[c].script.keys
<1>1. coin[c].script.type \in ScriptType /\ keys \in Seq(Key) /\ keys # <<>> /\ coin[c].amount \in Nat
  BY CoinsAssumption
<1> HIDE DEF keys
<1>2. Len(keys) \in Nat /\ Len(keys) >= 1
  BY <1>1, EmptySeq
<1>3. keys[1] \in Key
  BY <1>1, <1>2, ElementOfSeq
<1> QED BY <1>1, <1>2, <1>3 DEF keys

\* What extract_output_address makes of an output, whoever reports it.
LEMMA RowsOfOwner ==
  ASSUME coin \in Chains, NEW c \in Coin, NEW p
  PROVE  /\ \A r \in RowsFor(c, p) : r.address = OwnerAddress(c)
         /\ coin[c].amount = 0 => RowsFor(c, p) = {}
         /\ OneOwner(c) /\ coin[c].amount # 0 => RowsFor(c, p) # {}
<1> DEFINE s == coin[c].script
           k == s.keys[1]
           spk == ScriptPubKey(s)
           rows == OutputAddress(spk, label[p])
<1>1. s.type \in ScriptType /\ Len(s.keys) \in Nat /\ Len(s.keys) >= 1 /\ k \in Key
  BY ScriptOf
<1>2. RowsFor(c, p) = IF coin[c].amount = 0 THEN {} ELSE rows
  BY DEF RowsFor
<1>3. /\ OneOwner(c) <=> s.type # "multisig" /\ (s.type = "pubkey" => Form[k] # "hybrid")
      /\ OwnerAddress(c) = IF s.type \in DOMAIN Begins THEN [hrp |-> Begins[s.type], text |-> s.keys]
                           ELSE CoreAddress[k]
  BY DEF OneOwner, OwnerAddress
<1>4. /\ spk.addresses = AddressesOf(s) /\ spk.type = s.type
      /\ spk.hex = IF s.type = "pubkey" THEN <<Push(k), k, "ac">> ELSE <<>>
  BY DEF ScriptPubKey
<1> HIDE DEF s, k, spk
<1>5. ASSUME NEW a, spk.addresses # <<>>, spk.addresses[1] = a
      PROVE  rows # {} /\ \A r \in rows : r.address = a
  <2> DEFINE t == IF spk.type = "pubkey" THEN label[p] ELSE NormalType(spk.type, a)
  <2>1. rows = {[address |-> a, type |-> t]}
    BY <1>5 DEF OutputAddress
  <2> HIDE DEF t, rows
  <2>2. [address |-> a, type |-> t].address = a
    OBVIOUS
  <2> QED BY <2>1, <2>2
<1>6. CASE s.type \in DOMAIN Begins
  <2>1. spk.addresses = <<OwnerAddress(c)>>
    BY <1>3, <1>4, <1>6 DEF AddressesOf
  <2>2. spk.addresses # <<>> /\ spk.addresses[1] = OwnerAddress(c)
    BY <2>1
  <2> QED BY <1>2, <1>5, <2>2
<1>7. CASE s.type \notin DOMAIN Begins /\ (node = "legacy" \/ s.type = "pubkeyhash")
  <2>1. spk.addresses = [i \in 1..Len(s.keys) |-> CoreAddress[s.keys[i]]]
    BY <1>4, <1>7 DEF AddressesOf
  <2>2. 1 \in 1..Len(s.keys)
    BY <1>1
  <2>3. spk.addresses # <<>> /\ spk.addresses[1] = CoreAddress[s.keys[1]]
    BY <2>1, <2>2
  <2> QED BY <1>2, <1>3, <1>5, <1>7, <2>3 DEF k
<1>8. CASE s.type \notin DOMAIN Begins /\ node # "legacy" /\ s.type # "pubkeyhash"
  <2>1. rows = {[address |-> a, type |-> label[p]] : a \in Derived(spk)}
    BY <1>4, <1>8 DEF AddressesOf, OutputAddress
  <2>2. s.type = "pubkey" \/ s.type = "multisig"
    BY <1>1, <1>8 DEF ScriptType, Begins
  <2>3. CASE s.type = "pubkey"
    <3>1. \A q \in Pubkeys(spk) : q = k
      BY <1>4, <2>3 DEF Pubkeys
    <3>2. k \in Pubkeys(spk)
      BY <1>1, <1>4, <2>3 DEF Pubkeys, Push
    <3>3. \A a \in Derived(spk) : a = CoreAddress[k]
      BY <1>1, <3>1, DerivedIsCore DEF Derived
    <3>4. Form[k] # "hybrid" => DerivedAddress(k) \in Derived(spk)
      BY <3>2 DEF Derived
    <3>5. OwnerAddress(c) = CoreAddress[k] /\ (OneOwner(c) <=> Form[k] # "hybrid")
      BY <1>3, <1>8, <2>3
    <3> HIDE DEF rows
    <3>6. \A r \in rows : r.address = CoreAddress[k]
      BY <2>1, <3>3
    <3>7. Form[k] # "hybrid" => rows # {}
      BY <2>1, <3>4
    <3> QED BY <1>2, <3>5, <3>6, <3>7
  <2>4. CASE s.type = "multisig"
    <3>1. Derived(spk) = {}
      BY <1>4, <2>4 DEF Derived, Pubkeys
    <3> QED BY <1>2, <1>3, <2>1, <2>4, <3>1
  <2> QED BY <2>2, <2>3, <2>4
<1> QED BY <1>6, <1>7, <1>8

\* A row that is inserted is one of those offered.
LEMMA InsertsRow ==
  ASSUME NEW table, NEW c, NEW rows
  PROVE  /\ DOMAIN InsertRow(table, c, rows) = DOMAIN table \cup (IF rows = {} THEN {} ELSE {c})
         /\ \A d \in DOMAIN table : InsertRow(table, c, rows)[d] = table[d]
         /\ rows # {} /\ c \notin DOMAIN table => InsertRow(table, c, rows)[c] \in rows
BY DEF InsertRow

LEMMA WalletInit == CoinsInit => WalletInv
<1> SUFFICES ASSUME CoinsInit PROVE WalletInv
  OBVIOUS
<1>1. DOMAIN out = {} /\ DOMAIN in = {} /\ stored = {} /\ coin = <<>> /\ \A p \in Phase : label[p] = "off"
  BY DEF CoinsInit
<1> QED BY <1>1 DEF WalletInv

LEMMA WalletStep == WalletInv /\ [CoinsNext]_coinVars => WalletInv'
<1> SUFFICES ASSUME WalletInv, [CoinsNext]_coinVars PROVE WalletInv'
  OBVIOUS
<1> USE DEF WalletInv
<1>1. ASSUME UNCHANGED <<coin, out, in, stored>>, coin = <<>> => UNCHANGED label PROVE WalletInv'
  BY <1>1 DEF OneOwner, OwnerAddress
<1>2. CASE CoinsStart
  <2>1. /\ coin' \in Chains /\ coin' # <<>>
        /\ DOMAIN out' = {} /\ DOMAIN in' = {} /\ stored' = {}
    <3>1. coin' \in Chains /\ UNCHANGED <<out, in, stored>> /\ coin = <<>>
      BY <1>2 DEF CoinsStart, rowVars
    <3>2. <<>> \notin Chains
      BY CoinsAssumption
    <3> QED BY <3>1, <3>2
  <2> QED BY <2>1
<1>3. CASE UpgradeNode \/ Migrate \/ BuildBalances \/ UNCHANGED coinVars
  BY <1>1, <1>3 DEF UpgradeNode, Migrate, BuildBalances, coinVars, chainVars, rowVars
<1>4. ASSUME NEW p \in Phase, PhaseSetup(p) PROVE WalletInv'
  BY <1>1, <1>4 DEF PhaseSetup, chainVars, rowVars
<1>5. ASSUME NEW c \in Coin, StoreOutput(c) PROVE WalletInv'
  <2> DEFINE rows == RowsFor(c, "extract")
  <2>1. coin # <<>> /\ coin \in Chains
    BY <1>5 DEF StoreOutput, Phase
  <2>2. UNCHANGED <<coin, label, in>>
    BY <1>5 DEF StoreOutput, chainVars
  <2>3. CASE UNCHANGED <<out, stored>>
    BY <1>1, <2>2, <2>3
  <2>4. CASE out' = InsertRow(out, c, rows) /\ stored' = stored \cup {c}
    <3>1. /\ \A r \in rows : r.address = OwnerAddress(c)
          /\ coin[c].amount = 0 => rows = {}
          /\ OneOwner(c) /\ coin[c].amount # 0 => rows # {}
      BY <2>1, RowsOfOwner
    <3>2. \A d \in Coin : coin[d].amount \in Nat
      BY <2>1, ScriptOf
    <3>3. \A d \in Coin : OneOwner(d)' <=> OneOwner(d)
      BY <2>2 DEF OneOwner
    <3>4. \A d : OwnerAddress(d)' = OwnerAddress(d)
      BY <2>2 DEF OwnerAddress
    <3> HIDE DEF rows
    <3>5. /\ DOMAIN out' = DOMAIN out \cup (IF rows = {} THEN {} ELSE {c})
          /\ \A d \in DOMAIN out : out'[d] = out[d]
          /\ rows # {} /\ c \notin DOMAIN out => out'[c] \in rows
      <4>1. /\ DOMAIN InsertRow(out, c, rows) = DOMAIN out \cup (IF rows = {} THEN {} ELSE {c})
            /\ \A d \in DOMAIN out : InsertRow(out, c, rows)[d] = out[d]
            /\ rows # {} /\ c \notin DOMAIN out => InsertRow(out, c, rows)[c] \in rows
        BY InsertsRow
      <4> QED BY <4>1, <2>4
    <3>6. \A d \in DOMAIN out' : out'[d].address = OwnerAddress(d)'
      BY <3>1, <3>4, <3>5
    <3>7. \A d \in Coin : OneOwner(d)' => (d \in DOMAIN out' <=> d \in stored' /\ coin'[d].amount > 0)
      BY <2>2, <2>4, <3>1, <3>2, <3>3, <3>5
    <3>8. \A d \in DOMAIN in' : in'[d].address = OwnerAddress(d)'
      BY <2>2, <3>4
    <3>9. DOMAIN out' \subseteq Coin /\ stored' \subseteq Coin
      BY <2>4, <3>5
    <3> QED BY <2>1, <2>2, <3>6, <3>7, <3>8, <3>9
  <2> QED BY <1>5, <2>3, <2>4 DEF StoreOutput
<1>6. ASSUME NEW c \in Coin, NEW p \in Phase, StoreInput(c, p) PROVE WalletInv'
  <2>1. coin # <<>> /\ coin \in Chains
    BY <1>6 DEF StoreInput
  <2>2. UNCHANGED <<coin, label, out, stored>>
    BY <1>6 DEF StoreInput, chainVars
  <2>3. CASE UNCHANGED in
    BY <1>1, <2>2, <2>3
  <2>4. ASSUME NEW rows \in InputRows(c, p), in' = InsertRow(in, c, rows) PROVE WalletInv'
    <3>1. \A r \in RowsFor(c, p) : r.address = OwnerAddress(c)
      BY <2>1, RowsOfOwner
    <3>2. \A r \in rows : r.address = OwnerAddress(c)
      BY <3>1 DEF InputRows
    <3>3. \A d : OwnerAddress(d)' = OwnerAddress(d)
      BY <2>2 DEF OwnerAddress
    <3>4. /\ DOMAIN in' = DOMAIN in \cup (IF rows = {} THEN {} ELSE {c})
          /\ \A d \in DOMAIN in : in'[d] = in[d]
          /\ rows # {} /\ c \notin DOMAIN in => in'[c] \in rows
      <4>1. /\ DOMAIN InsertRow(in, c, rows) = DOMAIN in \cup (IF rows = {} THEN {} ELSE {c})
            /\ \A d \in DOMAIN in : InsertRow(in, c, rows)[d] = in[d]
            /\ rows # {} /\ c \notin DOMAIN in => InsertRow(in, c, rows)[c] \in rows
        BY InsertsRow
      <4> QED BY <4>1, <2>4
    <3>5. \A d \in DOMAIN in' : in'[d].address = OwnerAddress(d)'
      BY <3>2, <3>3, <3>4
    <3>6. \A d \in DOMAIN out' : out'[d].address = OwnerAddress(d)'
      BY <2>2, <3>3
    <3>7. \A d \in Coin : OneOwner(d)' => (d \in DOMAIN out' <=> d \in stored' /\ coin'[d].amount > 0)
      BY <2>2 DEF OneOwner
    <3> QED BY <2>1, <2>2, <3>5, <3>6, <3>7
  <2> QED BY <1>6, <2>3, <2>4 DEF StoreInput
<1> QED BY <1>2, <1>3, <1>4, <1>5, <1>6 DEF CoinsNext

\* Whatever the keys, scripts and amounts, and whenever the node is upgraded, an
\* output and the input that spends it are under the address Bitcoin Core gives
\* to the owner, derived or reported (addresses.py:3-7, addresses.py:202).
THEOREM OneWalletEach == CoinsSpec => []OneWallet
<1>1. WalletInv => OneWallet
  BY DEF WalletInv, OneWallet
<1> QED BY <1>1, WalletInit, WalletStep, PTL DEF CoinsSpec

\* A rebuild gives each owner what the chain gives it, of the blocks stored
\* (cli.py:261-263).
THEOREM RebuildIsExact == CoinsSpec => BalancesExact
<1> DEFINE Exactly ==
      \A a \in OwnersOnly :
        LET C == CoinsOf(a)
        IN  /\ C = {} <=> a \notin DOMAIN balances'
            /\ C # {} => balances'[a] = [balance |-> Sats(C \ spend), utxos |-> Cardinality(C \ spend),
                                         received |-> Sats(C), spent |-> Sats(C \cap spend)]
<1>1. WalletInv /\ BuildBalances => Exactly
  <2> SUFFICES ASSUME WalletInv, BuildBalances, NEW a \in OwnersOnly
               PROVE  LET C == CoinsOf(a)
                      IN  /\ C = {} <=> a \notin DOMAIN balances'
                          /\ C # {} => balances'[a] =
                               [balance |-> Sats(C \ spend), utxos |-> Cardinality(C \ spend),
                                received |-> Sats(C), spent |-> Sats(C \cap spend)]
    OBVIOUS
  <2> DEFINE O == {c \in DOMAIN out : out[c].address = a}
  <2>1. CoinsOf(a) \subseteq O
    BY DEF WalletInv, CoinsOf
  <2>2. ASSUME NEW c \in O PROVE c \in CoinsOf(a)
    <3>1. c \in Coin /\ OwnerAddress(c) = a
      BY DEF WalletInv
    <3>2. OneOwner(c)
      <4>1. ASSUME ~OneOwner(c) PROVE OwnerAddress(c) = CoreAddress[coin[c].script.keys[1]]
        BY <4>1 DEF OneOwner, OwnerAddress, Begins
      <4> QED BY <3>1, <4>1 DEF OwnersOnly
    <3> QED BY <3>1, <3>2 DEF WalletInv, CoinsOf
  <2>3. CoinsOf(a) = O
    BY <2>1, <2>2
  <2>4. balances' = [b \in {out[c].address : c \in DOMAIN out} |->
                       Balance({c \in DOMAIN out : out[c].address = b})]
    BY DEF BuildBalances
  <2>5. a \in DOMAIN balances' <=> O # {}
    BY <2>4
  <2>6. O # {} => balances'[a] = Balance(O)
    BY <2>4, <2>5
  <2> HIDE DEF O
  <2> QED BY <2>3, <2>5, <2>6 DEF Balance
<1>2. WalletInv /\ [CoinsNext]_coinVars => [BuildBalances => Exactly]_coinVars
  BY <1>1
<1>3. [][BuildBalances => Exactly]_coinVars <=> BalancesExact
  BY DEF BalancesExact
<1> HIDE DEF Exactly
<1> QED BY <1>2, <1>3, WalletInit, WalletStep, PTL DEF CoinsSpec
=============================================================================
