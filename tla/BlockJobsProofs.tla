--------------------------- MODULE BlockJobsProofs ---------------------------
(***************************************************************************)
(* What the operators of BlockJobs do to a status column, for any set of   *)
(* heights, and general facts: least numbers, smallest subsets, some       *)
(* elements of a list.  The proofs about the components cite these lemmas  *)
(* and expand none of the operators.                                       *)
(***************************************************************************)
EXTENDS BlockJobs, Subsequences,
        FiniteSetTheorems, SequenceTheorems, WellFoundedInduction, TLAPS

Columns(H) == [H -> JobStatus]

\* Marking a set of heights changes these only, and of these only the ones
\* with a row (mark_status is an UPDATE).
LEMMA MarkColumn ==
  ASSUME NEW All, NEW col \in Columns(All), NEW H, NEW s \in JobStatus
  PROVE  /\ Mark(col, H, s) \in Columns(All)
         /\ \A h \in All : Mark(col, H, s)[h] =
                             IF h \in H /\ col[h] # "absent" THEN s ELSE col[h]
  BY DEF Mark, Columns, JobStatus

\* A reset turns rows in progress into pending ones, and changes nothing else.
LEMMA ResetColumn ==
  ASSUME NEW All, NEW col \in Columns(All), NEW stale
  PROVE  /\ ResetAbandoned(col, stale) \in Columns(All)
         /\ \A h \in All : ResetAbandoned(col, stale)[h] =
              IF h \in stale /\ col[h] = "in_progress" THEN "pending" ELSE col[h]
  BY DEF ResetAbandoned, WithStatus, Mark, Columns, JobStatus

\* A requeue by range turns terminal rows into pending ones.
LEMMA RequeueRangeColumn ==
  ASSUME NEW All, NEW col \in Columns(All), NEW H
  PROVE  /\ RequeueRange(col, H) \in Columns(All)
         /\ \A h \in All : RequeueRange(col, H)[h] =
              IF h \in H /\ col[h] \in Terminal THEN "pending" ELSE col[h]
  BY DEF RequeueRange, Terminal, Mark, Columns, JobStatus

\* A requeue by features turns rows of any status into pending ones.
LEMMA RequeueFeaturesColumn ==
  ASSUME NEW All, NEW col \in Columns(All), NEW H
  PROVE  /\ RequeueFeatures(col, H) \in Columns(All)
         /\ \A h \in All : RequeueFeatures(col, H)[h] =
              IF h \in H /\ col[h] # "absent" THEN "pending" ELSE col[h]
  BY DEF RequeueFeatures, Mark, Columns, JobStatus

\* A top-up gives the missing rows of a range of heights the status pending.
LEMMA InsertColumn ==
  ASSUME NEW All, NEW col \in Columns(All), NEW latest, NEW tip
  PROVE  /\ InsertJobs(col, latest, tip) \in Columns(All)
         /\ \A h \in All : InsertJobs(col, latest, tip)[h] =
              IF h \in (latest + 1)..tip /\ col[h] = "absent" THEN "pending" ELSE col[h]
  BY DEF InsertJobs, Columns, JobStatus

\* MAX(height) of a table whose rows are those of heights 0 to n.
LEMMA LatestOfRange ==
  ASSUME NEW n \in Int, n >= -1, NEW col, Rows(col) = 0..n
  PROVE  LatestJob(col) = n
  <1>1. CASE n = -1
    BY <1>1 DEF LatestJob
  <1>2. CASE n >= 0
    <2>1. Rows(col) # {} /\ n \in Rows(col) /\ \A k \in Rows(col) : k <= n
      BY <1>2
    <2>2. \A m \in Rows(col) : (\A k \in Rows(col) : k <= m) => m = n
      BY <2>1
    <2> QED
      BY <2>1, <2>2 DEF LatestJob
  <1> QED
    BY <1>1, <1>2

-----------------------------------------------------------------------------
(* Induction, in the form the provers can use: where something is false,   *)
(* it is false of a least number, or of a smallest subset.                 *)

LEMMA LeastNatural ==
  ASSUME NEW N \in SUBSET Nat, N # {}
  PROVE  \E m \in N : \A k \in N : m <= k
  <1> DEFINE R == OpToRel(<, Nat)
  <1>1. IsWellFoundedOn(R, Nat)
    BY NatLessThanWellFounded
  <1>2. \A x, y \in Nat : <<y, x>> \in R <=> y < x
    BY DEF OpToRel
  <1> HIDE DEF R
  <1>3. PICK m \in N : \A k \in N : ~(<<k, m>> \in R)
    BY <1>1, WFMin
  <1>4. \A k \in N : ~(k < m)
    BY <1>2, <1>3
  <1>5. \A x, y \in Nat : ~(x < y) => y <= x
    OBVIOUS
  <1> QED
    BY <1>4, <1>5

LEMMA SmallestSubset ==
  ASSUME NEW S, IsFiniteSet(S), NEW F \in SUBSET (SUBSET S), F # {}
  PROVE  \E T \in F : \A U \in F : U \subseteq T => U = T
  <1> DEFINE R == StrictSubsetOrdering(S)
  <1>1. IsWellFoundedOn(R, FiniteSubsetsOf(S))
    BY FS_StrictSubsetOrderingWellFounded
  <1>2. F \subseteq FiniteSubsetsOf(S)
    BY FS_Subset DEF FiniteSubsetsOf
  <1>3. \A T, U \in SUBSET S : <<U, T>> \in R <=> (U \subseteq T /\ U # T)
    BY DEF StrictSubsetOrdering
  <1> HIDE DEF R
  <1>4. PICK T \in F : \A U \in F : ~(<<U, T>> \in R)
    BY <1>1, <1>2, WFMin
  <1> QED
    BY <1>3, <1>4

-----------------------------------------------------------------------------
\* Lists, and the elements of a list at some of its positions (Subsequences).
LEMMA SequenceIs ==
  ASSUME NEW S, NEW n \in Nat, NEW f \in [1..n -> S]
  PROVE  f \in Seq(S) /\ Len(f) = n
  <1>1. f \in Seq(S)
    BY SeqDef
  <1>2. Len(f) \in Nat /\ 1..Len(f) = 1..n
    BY <1>1, LenProperties
  <1> QED
    BY <1>1, <1>2

\* Positions, counted from the first, are all taken.
LEMMA ElementsAll ==
  ASSUME NEW P \in SUBSET Nat, IsFiniteSet(P), NEW s
  PROVE  /\ Elements(s, P) \in [1..Len(Elements(s, P)) -> {s[i] : i \in P}]
         /\ Len(Elements(s, P)) \in Nat
         /\ \A i \in P : \E m \in 1..Len(Elements(s, P)) : Elements(s, P)[m] = s[i]
         /\ \A m \in 1..Len(Elements(s, P)) : \E i \in P : Elements(s, P)[m] = s[i]
  <1> DEFINE Below(i) == {j \in P : j < i}
             Nth(m) == CHOOSE i \in P : Cardinality(Below(i)) = m - 1
             size == Cardinality(P)
             place == [i \in P |-> Cardinality(Below(i)) + 1]
  <1>1. IsFiniteSet(P) /\ size \in Nat /\ \A i \in P : i \in Int
    BY FS_CardinalityType
  <1>2. \A i \in P : Below(i) \in SUBSET P /\ i \notin Below(i) /\ i \in P
    BY <1>1
  <1>3. \A i, k \in P : i < k => Below(i) \in SUBSET Below(k) /\ i \in Below(k)
    <2> TAKE i, k \in P
    <2> HAVE i < k
    <2>1. \A j \in P : j < i => j < k
      BY <1>1
    <2> QED
      BY <2>1
  <1>4. Elements(s, P) = [m \in 1..size |-> s[Nth(m)]]
    BY DEF Elements
  <1>5. \A i \in P : \A m : Cardinality(Below(i)) = m - 1 =>
          Nth(m) \in P /\ Cardinality(Below(Nth(m))) = m - 1
    OBVIOUS
  <1> HIDE DEF Below, Nth, size
  <1>6. \A i \in P : /\ Cardinality(Below(i)) \in Nat /\ Cardinality(Below(i)) < size
                     /\ IsFiniteSet(Below(i))
    <2> TAKE i \in P
    <2>1. Cardinality(Below(i)) <= Cardinality(P) /\ Cardinality(P) # Cardinality(Below(i))
      BY <1>1, <1>2, FS_Subset
    <2>2. IsFiniteSet(Below(i)) /\ Cardinality(Below(i)) \in Nat
      BY <1>1, <1>2, FS_Subset, FS_CardinalityType
    <2> QED
      BY <1>1, <2>1, <2>2 DEF size
  <1>7. ASSUME NEW i \in P, NEW k \in P, i < k PROVE Cardinality(Below(i)) < Cardinality(Below(k))
    <2>1. Below(i) \in SUBSET Below(k) /\ Below(i) # Below(k)
      BY <1>2, <1>3, <1>7
    <2>2. /\ Cardinality(Below(i)) <= Cardinality(Below(k))
          /\ Cardinality(Below(i)) # Cardinality(Below(k))
      BY <1>6, <2>1, FS_Subset
    <2> QED
      BY <1>6, <2>2
  <1>8. \A i, k \in P : Cardinality(Below(i)) = Cardinality(Below(k)) => i = k
    <2> TAKE i, k \in P
    <2>1. i < k \/ k < i \/ i = k
      BY <1>1
    <2> QED
      BY <1>6, <1>7, <2>1
  <1>9. place \in Injection(P, 1..size)
    <2>1. place \in [P -> 1..size]
      BY <1>1, <1>6
    <2>2. \A i, k \in P : place[i] = place[k] => i = k
      BY <1>6, <1>8
    <2> QED
      BY <2>1, <2>2 DEF Injection, IsInjective
  <1>10. place \in Surjection(P, 1..size)
    <2>1. IsFiniteSet(1..size) /\ Cardinality(1..size) = size
      BY <1>1, FS_Interval
    <2> HIDE DEF place
    <2> QED
      BY <1>9, <2>1, FS_Injection DEF size
  <1>11. \A m \in 1..size : \E i \in P : Cardinality(Below(i)) + 1 = m
    BY <1>10 DEF Surjection
  <1>12. \A m \in 1..size : Nth(m) \in P
    BY <1>5, <1>6, <1>11
  <1>13. ASSUME NEW i \in P PROVE \E m \in 1..size : Nth(m) = i
    <2>1. Cardinality(Below(i)) + 1 \in 1..size /\ (Cardinality(Below(i)) + 1) - 1 = Cardinality(Below(i))
      BY <1>1, <1>6
    <2>2. /\ Nth(Cardinality(Below(i)) + 1) \in P
          /\ Cardinality(Below(Nth(Cardinality(Below(i)) + 1))) = Cardinality(Below(i))
      BY <1>5, <2>1
    <2> QED
      BY <1>8, <2>1, <2>2
  <1>14. Elements(s, P) \in [1..size -> {s[i] : i \in P}] /\ Len(Elements(s, P)) = size
    <2>1. Elements(s, P) \in [1..size -> {s[i] : i \in P}]
      BY <1>4, <1>12
    <2> QED
      BY <1>1, <2>1, SequenceIs
  <1>15. \A m \in 1..size : Elements(s, P)[m] = s[Nth(m)]
    BY <1>4
  <1> QED
    BY <1>1, <1>12, <1>13, <1>14, <1>15

\* All of s at the positions P is in e, and nothing else.
Covers(e, s, P) ==
  /\ \A i \in P : \E m \in 1..Len(e) : e[m] = s[i]
  /\ \A m \in 1..Len(e) : \E i \in P : e[m] = s[i]

LEMMA ElementsCover ==
  ASSUME NEW P \in SUBSET Nat, IsFiniteSet(P), NEW s
  PROVE  Covers(Elements(s, P), s, P)
  <1> DEFINE e == Elements(s, P)
  <1>1. \A i \in P : \E m \in 1..Len(e) : e[m] = s[i]
    BY ElementsAll
  <1>2. \A m \in 1..Len(e) : \E i \in P : e[m] = s[i]
    BY ElementsAll
  <1> QED
    BY <1>1, <1>2 DEF Covers

LEMMA ElementsType ==
  ASSUME NEW S, NEW P \in SUBSET Nat, IsFiniteSet(P), NEW s, \A i \in P : s[i] \in S
  PROVE  Elements(s, P) \in Seq(S)
  <1> DEFINE e == Elements(s, P)
  <1>1. e \in [1..Len(e) -> {s[i] : i \in P}] /\ Len(e) \in Nat
    BY ElementsAll
  <1> HIDE DEF e
  <1>2. e \in [1..Len(e) -> S]
    BY <1>1
  <1>3. e \in Seq(S)
    BY <1>1, <1>2, SequenceIs
  <1> QED
    BY <1>3 DEF e
=============================================================================
