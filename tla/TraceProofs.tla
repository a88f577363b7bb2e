---------------------------- MODULE TraceProofs ----------------------------
(***************************************************************************)
(* Proofs about the walk of Trace: for each direction there are distances  *)
(* over the edges the graph shows on that side; the levels are these       *)
(* distances, and the queue holds whoever is still to be expanded, nearest *)
(* first.                                                                  *)
(***************************************************************************)
EXTENDS Trace, BlockJobsProofs

\* Ball by its recursion.
NextBall(R, S) == S \cup {b \in Addr : \E a \in S : <<a, b>> \in R}
GrowsTo(f, R, m) ==
  f = [k \in 0..m |-> IF k = 0 THEN {Origin} ELSE NextBall(R, f[k - 1])]

LEMMA BallGrows ==
  ASSUME NEW R, NEW n \in Nat
  PROVE  \E f : GrowsTo(f, R, n)
  <1> DEFINE None == {m \in Nat : ~\E f : GrowsTo(f, R, m)}
  <1>1. None = {}
    <2> SUFFICES ASSUME None # {} PROVE FALSE
      OBVIOUS
    <2>1. PICK m \in None : \A k \in None : m <= k
      BY LeastNatural
    <2>2. CASE m = 0
      <3> DEFINE f == [k \in 0..0 |-> {Origin}]
      <3>1. f = [k \in 0..0 |-> IF k = 0 THEN {Origin} ELSE NextBall(R, f[k - 1])]
        OBVIOUS
      <3> QED
        BY <2>1, <2>2, <3>1 DEF GrowsTo
    <2>3. CASE m # 0
      <3>1. m - 1 \in Nat /\ m - 1 \notin None
        BY <2>1, <2>3
      <3>2. PICK f : GrowsTo(f, R, m - 1)
        BY <3>1
      <3> DEFINE g == [k \in 0..m |-> IF k = m THEN NextBall(R, f[m - 1]) ELSE f[k]]
      <3>3. \A k \in 0..(m - 1) : f[k] = IF k = 0 THEN {Origin} ELSE NextBall(R, f[k - 1])
        BY <3>2 DEF GrowsTo
      <3>4. \A k \in 0..m : g[k] = IF k = 0 THEN {Origin} ELSE NextBall(R, g[k - 1])
        <4> TAKE k \in 0..m
        <4>1. CASE k = m
          BY <4>1, <2>1, <2>3
        <4>2. CASE k # m /\ k # 0
          BY <4>2, <2>1, <3>3
        <4>3. CASE k # m /\ k = 0
          BY <4>3, <2>1, <3>3
        <4> QED
          BY <4>1, <4>2, <4>3
      <3>5. g = [k \in 0..m |-> IF k = 0 THEN {Origin} ELSE NextBall(R, g[k - 1])]
        BY <3>4
      <3> HIDE DEF g
      <3> QED
        BY <2>1, <3>5 DEF GrowsTo
    <2> QED
      BY <2>2, <2>3
  <1> QED
    BY <1>1

LEMMA BallIs ==
  ASSUME NEW R, NEW n \in Nat
  PROVE  /\ Ball(R, n)[0] = {Origin}
         /\ \A k \in 1..n : Ball(R, n)[k] = NextBall(R, Ball(R, n)[k - 1])
  <1> DEFINE B == Ball(R, n)
  <1>1. B = CHOOSE f : GrowsTo(f, R, n)
    BY DEF Ball, GrowsTo, NextBall
  <1>2. GrowsTo(B, R, n)
    BY <1>1, BallGrows
  <1> HIDE DEF B
  <1>3. \A k \in 0..n : B[k] = IF k = 0 THEN {Origin} ELSE NextBall(R, B[k - 1])
    BY <1>2 DEF GrowsTo
  <1> QED
    BY <1>3 DEF B

\* The addresses a set of steps leads to, and the number of steps to each.
Reached(R) == {Origin} \cup {b \in Addr : \E a \in Addr : <<a, b>> \in R}

Distances(lev, R) ==
  /\ lev \in [Reached(R) -> Nat] /\ lev[Origin] = 0
  /\ \A p \in R : p[1] \in Reached(R) /\ lev[p[2]] <= lev[p[1]] + 1
  /\ \A b \in Reached(R) \ {Origin} :
       \E a \in Reached(R) : <<a, b>> \in R /\ lev[b] = lev[a] + 1

\* A set of steps with distances is walked ring by ring.
LEMMA BallOfDistances ==
  ASSUME NEW R \in SUBSET (Addr \X Addr), NEW lev, Distances(lev, R), NEW n \in Nat
  PROVE  \A k \in 0..n : Ball(R, n)[k] = {b \in Reached(R) : lev[b] <= k}
  <1> DEFINE B == Ball(R, n)
             Ring(k) == {b \in Reached(R) : lev[b] <= k}
             Wrong == {k \in 0..n : B[k] # Ring(k)}
  <1>1. /\ B[0] = {Origin}
        /\ \A k \in 1..n : B[k] = NextBall(R, B[k - 1])
    BY BallIs
  <1> HIDE DEF B
  <1>2. lev \in [Reached(R) -> Nat] /\ lev[Origin] = 0 /\ Origin \in Reached(R)
    BY DEF Distances, Reached
  <1>3. Ring(0) = {Origin}
    <2>1. ASSUME NEW b \in Reached(R), b # Origin PROVE lev[b] > 0
      <3>1. PICK a \in Reached(R) : lev[b] = lev[a] + 1
        BY <2>1 DEF Distances
      <3> QED
        BY <3>1, <1>2
    <2> QED
      BY <2>1, <1>2
  <1>4. ASSUME NEW k \in 1..n PROVE Ring(k) = NextBall(R, Ring(k - 1))
    <2>1. ASSUME NEW b \in Ring(k) PROVE b \in NextBall(R, Ring(k - 1))
      <3>1. CASE lev[b] <= k - 1
        BY <3>1, <2>1 DEF NextBall
      <3>2. CASE ~(lev[b] <= k - 1)
        <4>1. b # Origin /\ b \in Addr
          BY <3>2, <2>1, <1>2 DEF Reached
        <4>2. PICK a \in Reached(R) : <<a, b>> \in R /\ lev[b] = lev[a] + 1
          BY <4>1, <2>1 DEF Distances
        <4>3. a \in Ring(k - 1)
          BY <4>2, <2>1, <1>2
        <4> QED
          BY <4>1, <4>2, <4>3 DEF NextBall
      <3> QED
        BY <3>1, <3>2
    <2>2. ASSUME NEW b \in NextBall(R, Ring(k - 1)) PROVE b \in Ring(k)
      <3>1. CASE b \in Ring(k - 1)
        BY <3>1, <1>2
      <3>2. CASE b \notin Ring(k - 1)
        <4>1. b \in Addr
          BY <3>2, <2>2 DEF NextBall
        <4>2. PICK a \in Ring(k - 1) : <<a, b>> \in R
          BY <3>2, <2>2 DEF NextBall
        <4>3. b \in Reached(R)
          BY <4>1, <4>2 DEF Reached
        <4>4. lev[b] <= lev[a] + 1
          BY <4>2 DEF Distances
        <4> QED
          BY <4>2, <4>3, <4>4, <1>2
      <3> QED
        BY <3>1, <3>2
    <2> QED
      BY <2>1, <2>2
  <1> HIDE DEF Ring
  <1>5. Wrong = {}
    <2> SUFFICES ASSUME Wrong # {} PROVE FALSE
      OBVIOUS
    <2> HIDE DEF Wrong
    <2>1. PICK m \in Wrong : \A k \in Wrong : m <= k
      <3>1. Wrong \in SUBSET Nat
        BY DEF Wrong
      <3> QED
        BY <3>1, LeastNatural
    <2>2. m # 0
      BY <2>1, <1>1, <1>3 DEF Wrong
    <2>3. m - 1 \in 0..n /\ m - 1 \notin Wrong /\ m \in 1..n
      BY <2>1, <2>2 DEF Wrong
    <2> QED
      BY <2>1, <2>3, <1>1, <1>4 DEF Wrong
  <1> QED
    BY <1>5 DEF B, Ring

\* Where every step of W from an address nearer than n is in R, R leads to
\* everything W leads to within n steps, and no later.
LEMMA BallWithin ==
  ASSUME NEW R, NEW lev, Distances(lev, R), NEW n \in Nat,
         NEW W \in SUBSET (Addr \X Addr),
         \A p \in W : p[1] \in Reached(R) /\ lev[p[1]] < n => p \in R
  PROVE  \A k \in 0..n : \A b \in Ball(W, n)[k] : b \in Reached(R) /\ lev[b] <= k
  <1> DEFINE B == Ball(W, n)
             Wrong == {k \in 0..n : ~\A b \in B[k] : b \in Reached(R) /\ lev[b] <= k}
  <1>1. /\ B[0] = {Origin}
        /\ \A k \in 1..n : B[k] = NextBall(W, B[k - 1])
    BY BallIs
  <1> HIDE DEF B
  <1>2. lev \in [Reached(R) -> Nat] /\ lev[Origin] = 0 /\ Origin \in Reached(R)
    BY DEF Distances, Reached
  <1>3. ASSUME NEW k \in 1..n, \A b \in B[k - 1] : b \in Reached(R) /\ lev[b] <= k - 1,
               NEW b \in B[k]
        PROVE  b \in Reached(R) /\ lev[b] <= k
    <2>1. CASE b \in B[k - 1]
      BY <2>1, <1>3, <1>2
    <2>2. CASE b \notin B[k - 1]
      <3>1. b \in Addr /\ \E a \in B[k - 1] : <<a, b>> \in W
        BY <2>2, <1>3, <1>1 DEF NextBall
      <3>2. PICK a \in B[k - 1] : <<a, b>> \in W
        BY <3>1
      <3>3. a \in Reached(R) /\ lev[a] <= k - 1 /\ lev[a] \in Nat
        BY <3>2, <1>3, <1>2
      <3>4. <<a, b>> \in R
        BY <3>2, <3>3
      <3>5. b \in Reached(R) /\ a \in Addr
        BY <3>1, <3>2, <3>4 DEF Reached
      <3>6. lev[b] <= lev[a] + 1
        BY <3>4 DEF Distances
      <3> QED
        BY <3>3, <3>5, <3>6, <1>2
    <2> QED
      BY <2>1, <2>2
  <1>4. Wrong = {}
    <2> SUFFICES ASSUME Wrong # {} PROVE FALSE
      OBVIOUS
    <2> HIDE DEF Wrong
    <2>1. PICK m \in Wrong : \A k \in Wrong : m <= k
      <3>1. Wrong \in SUBSET Nat
        BY DEF Wrong
      <3> QED
        BY <3>1, LeastNatural
    <2>2. m # 0
      BY <2>1, <1>1, <1>2 DEF Wrong
    <2>3. m - 1 \in 0..n /\ m - 1 \notin Wrong /\ m \in 1..n
      BY <2>1, <2>2 DEF Wrong
    <2>4. \A b \in B[m - 1] : b \in Reached(R) /\ lev[b] <= m - 1
      BY <2>3 DEF Wrong
    <2> QED
      BY <2>1, <2>3, <2>4, <1>3 DEF Wrong
  <1> QED
    BY <1>4 DEF B

\* One more address at distance d is expanded, and nothing was farther than d + 1.
Extended(lev, R, S, d) ==
  [b \in S |-> IF b \in Reached(R) THEN lev[b] ELSE d + 1]

LEMMA DistancesExtended ==
  ASSUME NEW R \in SUBSET (Addr \X Addr), NEW lev, Distances(lev, R),
         NEW a \in Reached(R) \cap Addr, NEW T \in SUBSET Addr,
         \A b \in Reached(R) : lev[b] <= lev[a] + 1
  PROVE  /\ Reached(R \cup ({a} \X T)) = Reached(R) \cup T
         /\ Distances(Extended(lev, R, Reached(R) \cup T, lev[a]), R \cup ({a} \X T))
  <1> DEFINE R2 == R \cup ({a} \X T)
             S == Reached(R) \cup T
             d == lev[a]
             new == Extended(lev, R, S, d)
  <1>1. lev \in [Reached(R) -> Nat] /\ lev[Origin] = 0 /\ Origin \in Reached(R) /\ d \in Nat
    BY DEF Distances, Reached
  <1>2. Reached(R2) = S
    BY DEF Reached
  <1>3. /\ new \in [S -> Nat]
        /\ \A b \in Reached(R) : new[b] = lev[b]
        /\ \A b \in S \ Reached(R) : new[b] = d + 1
    BY <1>1 DEF Extended
  <1> HIDE DEF new, S
  <1>4. \A b \in S : new[b] <= d + 1
    <2>1. \A b \in Reached(R) : lev[b] <= d + 1
      OBVIOUS
    <2> HIDE DEF d
    <2> QED
      BY <1>1, <1>3, <2>1
  <1> HIDE DEF d
  <1>5. ASSUME NEW p \in R2 PROVE p[1] \in S /\ new[p[2]] <= new[p[1]] + 1
    <2>1. CASE p \in R
      <3>1. p[1] \in Reached(R) /\ p[2] \in Reached(R) /\ lev[p[2]] <= lev[p[1]] + 1
        <4>1. p[1] \in Addr /\ p[2] \in Addr /\ <<p[1], p[2]>> \in R
          BY <2>1
        <4>2. p[1] \in Reached(R) /\ lev[p[2]] <= lev[p[1]] + 1
          BY <2>1 DEF Distances
        <4> QED
          BY <4>1, <4>2 DEF Reached
      <3> QED
        BY <3>1, <1>3 DEF S
    <2>2. CASE p \notin R
      <3>1. p[1] = a /\ p[2] \in T
        BY <2>2, <1>5
      <3>2. new[a] = d /\ a \in S
        BY <1>3 DEF S, d
      <3> QED
        BY <3>1, <3>2, <1>1, <1>4 DEF S
    <2> QED
      BY <2>1, <2>2
  <1>6. ASSUME NEW b \in S \ {Origin}
        PROVE  \E x \in S : <<x, b>> \in R2 /\ new[b] = new[x] + 1
    <2>1. CASE b \in Reached(R)
      <3>1. PICK x \in Reached(R) : <<x, b>> \in R /\ lev[b] = lev[x] + 1
        BY <2>1, <1>6 DEF Distances
      <3> QED
        BY <2>1, <3>1, <1>3 DEF S
    <2>2. CASE b \notin Reached(R)
      <3>1. b \in T /\ new[b] = d + 1 /\ new[a] = d
        BY <2>2, <1>6, <1>3 DEF S, d
      <3> QED
        BY <3>1 DEF S
    <2> QED
      BY <2>1, <2>2
  <1>7. new[Origin] = 0
    BY <1>1, <1>3
  <1>8. Distances(new, R2)
    BY <1>2, <1>3, <1>5, <1>6, <1>7 DEF Distances
  <1> QED
    BY <1>2, <1>8 DEF new, S, d

-----------------------------------------------------------------------------
\* The graph's edges as steps.
Dir == {"out", "in"}
EdgeOf(dir, p) == IF dir = "out" THEN [from |-> p[1], to |-> p[2], dir |-> dir]
                                 ELSE [from |-> p[2], to |-> p[1], dir |-> dir]
EdgeSet == [from : Addr, to : Addr, dir : Dir]
Shown(es, dir) == {p \in Addr \X Addr : \E i \in 1..Len(es) : es[i] = EdgeOf(dir, p)}

LEMMA EdgeFields ==
  ASSUME NEW dir \in Dir, NEW p \in Addr \X Addr
  PROVE  /\ EdgeOf(dir, p) \in EdgeSet /\ EdgeOf(dir, p).dir = dir
         /\ dir = "out" => EdgeOf(dir, p).from = p[1] /\ EdgeOf(dir, p).to = p[2]
         /\ dir = "in" => EdgeOf(dir, p).from = p[2] /\ EdgeOf(dir, p).to = p[1]
  BY DEF EdgeOf, EdgeSet, Dir

LEMMA EdgesApart ==
  ASSUME NEW d1 \in Dir, NEW d2 \in Dir, NEW p1 \in Addr \X Addr, NEW p2 \in Addr \X Addr,
         EdgeOf(d1, p1) = EdgeOf(d2, p2)
  PROVE  d1 = d2 /\ p1 = p2
  <1>1. d1 = d2
    BY EdgeFields
  <1>2. p1[1] = p2[1] /\ p1[2] = p2[2]
    BY <1>1, EdgeFields DEF Dir
  <1> QED
    BY <1>1, <1>2

LEMMA EdgeIs ==
  ASSUME NEW e \in EdgeSet
  PROVE  \E p \in Addr \X Addr : e = EdgeOf(e.dir, p)
  <1>1. CASE e.dir = "out"
    <2>1. e = EdgeOf(e.dir, <<e.from, e.to>>)
      BY <1>1 DEF EdgeOf, EdgeSet
    <2> QED
      BY <2>1 DEF EdgeSet
  <1>2. CASE e.dir = "in"
    <2>1. e = EdgeOf(e.dir, <<e.to, e.from>>)
      BY <1>2 DEF EdgeOf, EdgeSet
    <2> QED
      BY <2>1 DEF EdgeSet
  <1> QED
    BY <1>1, <1>2 DEF EdgeSet, Dir

LEMMA ReportedIsShown ==
  ASSUME NEW es \in Seq(EdgeSet), NEW dir \in Dir
  PROVE  Steps(dir, {<<e.from, e.to>> : e \in {e \in Range(es) : e.dir = dir}}) = Shown(es, dir)
  <1>1. DOMAIN es = 1..Len(es) /\ \A i \in 1..Len(es) : es[i] \in EdgeSet
    BY LenProperties, ElementOfSeq
  <1> SUFFICES ASSUME NEW p \in Addr \X Addr
               PROVE  (IF dir = "out" THEN p ELSE <<p[2], p[1]>>)
                           \in {<<e.from, e.to>> : e \in {e \in Range(es) : e.dir = dir}}
                        <=> \E i \in 1..Len(es) : es[i] = EdgeOf(dir, p)
    BY DEF Steps, Shown
  <1>2. ASSUME NEW i \in 1..Len(es), es[i] = EdgeOf(dir, p)
        PROVE  (IF dir = "out" THEN p ELSE <<p[2], p[1]>>)
                           \in {<<e.from, e.to>> : e \in {e \in Range(es) : e.dir = dir}}
    <2>1. es[i] \in Range(es) /\ es[i].dir = dir
      BY <1>1, <1>2, EdgeFields DEF Range
    <2>2. (IF dir = "out" THEN p ELSE <<p[2], p[1]>>) = <<es[i].from, es[i].to>>
      <3>1. p = <<p[1], p[2]>>
        OBVIOUS
      <3> QED
        BY <1>2, <3>1, EdgeFields DEF Dir
    <2> QED
      BY <2>1, <2>2
  <1>3. ASSUME NEW e \in Range(es), e.dir = dir,
               (IF dir = "out" THEN p ELSE <<p[2], p[1]>>) = <<e.from, e.to>>
        PROVE  \E i \in 1..Len(es) : es[i] = EdgeOf(dir, p)
    <2>1. PICK i \in 1..Len(es) : es[i] = e
      BY <1>1 DEF Range
    <2>2. e \in EdgeSet
      BY <1>1, <2>1
    <2>3. PICK r \in Addr \X Addr : e = EdgeOf(dir, r)
      BY <1>3, <2>2, EdgeIs
    <2>4. r[1] = p[1] /\ r[2] = p[2]
      BY <1>3, <2>3, EdgeFields DEF Dir
    <2> QED
      BY <2>1, <2>3, <2>4
  <1> QED
    BY <1>2, <1>3

\* The edges of an expansion of a: those of one direction get the steps from a.
\* What new is when the edges from a to the first n of b are appended to es.
Appended(es, new, dir, a, b, n) ==
  /\ new \in Seq(EdgeSet) /\ Len(new) = Len(es) + n
  /\ \A i \in 1..(Len(es) + n) :
       new[i] = IF i <= Len(es) THEN es[i] ELSE EdgeOf(dir, <<a, b[i - Len(es)]>>)
  /\ Shown(new, dir) = Shown(es, dir) \cup ({a} \X {b[i] : i \in 1..n})
  /\ \A o \in Dir \ {dir} : Shown(new, o) = Shown(es, o)

LEMMA EdgesAppended ==
  ASSUME NEW es \in Seq(EdgeSet), NEW dir \in Dir, NEW a \in Addr,
         NEW b \in Seq(Addr), NEW n \in 0..Len(b),
         NEW more \in [1..n -> EdgeSet], \A i \in 1..n : more[i] = EdgeOf(dir, <<a, b[i]>>)
  PROVE  Appended(es, es \o more, dir, a, b, n)
  <1>1. Len(b) \in Nat /\ \A i \in 1..Len(b) : b[i] \in Addr
    BY LenProperties, ElementOfSeq
  <1>2. n \in Nat /\ \A i \in 1..n : b[i] \in Addr
    BY <1>1
  <1>3. more \in Seq(EdgeSet) /\ Len(more) = n
    BY <1>2, SequenceIs
  <1>4. Len(es) \in Nat
    BY LenProperties
  <1>5. /\ es \o more \in Seq(EdgeSet) /\ Len(es \o more) = Len(es) + n
        /\ \A i \in 1..(Len(es) + n) :
             (es \o more)[i] = IF i <= Len(es) THEN es[i] ELSE more[i - Len(es)]
    BY <1>3, ConcatProperties
  <1> DEFINE all == es \o more
  <1>6. \A i \in 1..(Len(es) + n) :
          all[i] = IF i <= Len(es) THEN es[i] ELSE EdgeOf(dir, <<a, b[i - Len(es)]>>)
    BY <1>2, <1>4, <1>5
  <1>7. /\ \A i \in 1..Len(es) : i \in 1..Len(all) /\ all[i] = es[i]
        /\ \A i \in 1..n : Len(es) + i \in 1..Len(all) /\ all[Len(es) + i] = EdgeOf(dir, <<a, b[i]>>)
        /\ \A i \in 1..Len(all) : i \in 1..Len(es) \/ i - Len(es) \in 1..n
        /\ \A i \in 1..Len(all) : i \notin 1..Len(es) => all[i] = EdgeOf(dir, <<a, b[i - Len(es)]>>)
    BY <1>2, <1>4, <1>5, <1>6
  <1> HIDE DEF all
  <1>8. ASSUME NEW p \in Addr \X Addr
        PROVE  p \in Shown(all, dir) <=> p \in Shown(es, dir) \/ \E i \in 1..n : p = <<a, b[i]>>
    <2>1. ASSUME NEW i \in 1..Len(all), all[i] = EdgeOf(dir, p), i \notin 1..Len(es)
          PROVE  \E j \in 1..n : p = <<a, b[j]>>
      <3>1. i - Len(es) \in 1..n /\ EdgeOf(dir, p) = EdgeOf(dir, <<a, b[i - Len(es)]>>)
        BY <2>1, <1>7
      <3>2. <<a, b[i - Len(es)]>> \in Addr \X Addr
        BY <1>2, <3>1
      <3>3. p = <<a, b[i - Len(es)]>>
        BY <3>1, <3>2, EdgesApart
      <3> QED
        BY <3>1, <3>3
    <2>2. p \in Shown(all, dir) => p \in Shown(es, dir) \/ \E i \in 1..n : p = <<a, b[i]>>
      BY <1>7, <2>1 DEF Shown
    <2>3. p \in Shown(es, dir) => p \in Shown(all, dir)
      BY <1>7 DEF Shown
    <2>4. ASSUME NEW i \in 1..n, p = <<a, b[i]>> PROVE p \in Shown(all, dir)
      BY <1>7, <2>4 DEF Shown
    <2> QED
      BY <2>2, <2>3, <2>4
  <1>9. Shown(all, dir) = Shown(es, dir) \cup ({a} \X {b[i] : i \in 1..n})
    <2>1. Shown(all, dir) \in SUBSET (Addr \X Addr) /\ Shown(es, dir) \in SUBSET (Addr \X Addr)
      BY DEF Shown
    <2>2. {a} \X {b[i] : i \in 1..n} = {p \in Addr \X Addr : \E i \in 1..n : p = <<a, b[i]>>}
      BY <1>2
    <2> QED
      BY <1>8, <2>1, <2>2
  <1>10. ASSUME NEW o \in Dir \ {dir} PROVE Shown(all, o) = Shown(es, o)
    <2>1. ASSUME NEW p \in Addr \X Addr, NEW i \in 1..Len(all), i \notin 1..Len(es)
          PROVE  all[i] # EdgeOf(o, p)
      <3>1. i - Len(es) \in 1..n /\ all[i] = EdgeOf(dir, <<a, b[i - Len(es)]>>)
        BY <2>1, <1>7
      <3>2. <<a, b[i - Len(es)]>> \in Addr \X Addr
        BY <1>2, <3>1
      <3>3. all[i].dir = dir /\ EdgeOf(o, p).dir = o
        BY <3>1, <3>2, EdgeFields
      <3> QED
        BY <3>3
    <2> QED
      BY <1>7, <2>1 DEF Shown
  <1> QED
    BY <1>5, <1>6, <1>9, <1>10 DEF all, Appended

-----------------------------------------------------------------------------
LEMMA LeastIsMin ==
  ASSUME NEW N \in SUBSET Nat, N # {}
  PROVE  Min(N) \in N /\ \A k \in N : Min(N) <= k
  <1>1. PICK m \in N : \A k \in N : m <= k
    BY LeastNatural
  <1> QED
    BY <1>1 DEF Min

\* What a query yields: different counterparties, and all of them if the
\* address is small and the limit not reached.
LEMMA RowsOfQuery ==
  ASSUME IsFiniteSet(Addr), args.limits.fanout \in Nat, walk \in Dir,
         NEW a \in Addr, NEW rows \in QueryRows(a)
  PROVE  /\ rows \in Seq(Addr)
         /\ \A i, j \in 1..Len(rows) : rows[i] = rows[j] => i = j
         /\ size[a] = "few" /\ ~Full(rows) =>
              \A b \in Addr : <<a, b>> \in Steps(walk, flow) => \E i \in 1..Len(rows) : rows[i] = b
  <1> DEFINE P == Peers(a, flow)
             fanout == args.limits.fanout
  <1>1. PICK V \in Visible(a) : \E k \in {Min({fanout, Cardinality(V)})} :
             rows \in {r \in [1..k -> V] : IsInjective(r)}
    BY DEF QueryRows
  <1>2. V \in SUBSET P /\ P \in SUBSET Addr /\ (size[a] = "few" => V = P)
    BY DEF Visible, Peers
  <1>3. IsFiniteSet(V) /\ Cardinality(V) \in Nat
    BY <1>2, FS_Subset, FS_CardinalityType
  <1>4. PICK k \in Nat : /\ rows \in {r \in [1..k -> V] : IsInjective(r)}
                         /\ k \in {fanout, Cardinality(V)} /\ k <= fanout /\ k <= Cardinality(V)
    <2>1. /\ Min({fanout, Cardinality(V)}) \in {fanout, Cardinality(V)}
          /\ \A k \in {fanout, Cardinality(V)} : Min({fanout, Cardinality(V)}) <= k
      BY <1>3, LeastIsMin
    <2> QED
      BY <1>1, <1>3, <2>1
  <1>5. rows \in [1..k -> V] /\ IsInjective(rows)
    BY <1>4
  <1>6. rows \in [1..k -> Addr]
    BY <1>2, <1>5
  <1>7. rows \in Seq(Addr) /\ Len(rows) = k
    BY <1>6, SequenceIs
  <1>8. \A i, j \in 1..Len(rows) : rows[i] = rows[j] => i = j
    BY <1>5, <1>7 DEF IsInjective
  <1>9. ASSUME size[a] = "few", ~Full(rows), NEW b \in Addr, <<a, b>> \in Steps(walk, flow)
        PROVE  \E i \in 1..Len(rows) : rows[i] = b
    <2>1. b \in V
      BY <1>2, <1>9 DEF Peers, Steps, Dir
    <2>2. k = Cardinality(V)
      BY <1>3, <1>4, <1>7, <1>9 DEF Full
    <2>3. rows \in Injection(1..k, V)
      BY <1>5 DEF Injection
    <2>4. IsFiniteSet(1..k) /\ Cardinality(1..k) = k
      BY FS_Interval
    <2>5. rows \in Surjection(1..k, V)
      BY <1>3, <2>2, <2>3, <2>4, FS_Injection
    <2> QED
      BY <1>7, <2>1, <2>5 DEF Surjection
  <1> QED
    BY <1>7, <1>8, <1>9

\* What is queued: the counterparties outside the cluster, if the depth allows.
Queues(more, rows, d) ==
  /\ more \in Seq(Addr \X Nat)
  /\ \A m \in 1..Len(more) : \E i \in 1..Len(rows) :
       more[m] = <<rows[i], d + 1>> /\ d + 1 < args.limits.depth /\ rows[i] \notin owner
  /\ \A i \in 1..Len(rows) : d + 1 < args.limits.depth /\ rows[i] \notin owner =>
       \E m \in 1..Len(more) : more[m] = <<rows[i], d + 1>>

LEMMA FurtherIs ==
  ASSUME args.limits.depth \in Nat, NEW rows \in Seq(Addr), NEW d \in Nat
  PROVE  Queues(Further(rows, d), rows, d)
  <1> DEFINE s == [i \in 1..Len(rows) |-> <<rows[i], d + 1>>]
             P == {i \in 1..Len(rows) : d + 1 < args.limits.depth /\ rows[i] \notin owner}
             f == Elements(s, P)
  <1>1. Further(rows, d) = f
    BY DEF Further
  <1>2. Len(rows) \in Nat /\ \A i \in 1..Len(rows) : rows[i] \in Addr
    BY LenProperties, ElementOfSeq
  <1>3. \A i \in 1..Len(rows) : s[i] = <<rows[i], d + 1>> /\ s[i] \in Addr \X Nat
    BY <1>2
  <1>4. /\ P \in SUBSET (1..Len(rows))
        /\ \A i \in 1..Len(rows) : i \in P <=> d + 1 < args.limits.depth /\ rows[i] \notin owner
    OBVIOUS
  <1> HIDE DEF s, P
  <1>5. P \in SUBSET Nat /\ IsFiniteSet(P)
    <2>1. IsFiniteSet(1..Len(rows))
      BY <1>2, FS_Interval
    <2>2. IsFiniteSet(P)
      BY <1>4, <2>1, FS_Subset
    <2>3. \A i \in P : i \in Nat
      BY <1>2, <1>4
    <2> QED
      BY <2>2, <2>3
  <1>6. f \in Seq(Addr \X Nat)
    <2>1. \A i \in P : s[i] \in Addr \X Nat
      BY <1>3, <1>4
    <2> QED
      BY <1>5, <2>1, ElementsType
  <1>7. /\ \A i \in P : \E m \in 1..Len(f) : f[m] = s[i]
        /\ \A m \in 1..Len(f) : \E i \in P : f[m] = s[i]
    <2>1. Covers(f, s, P)
      BY <1>5, ElementsCover
    <2> HIDE DEF f, s, P
    <2> QED
      BY <2>1 DEF Covers
  <1> HIDE DEF f
  <1>8. ASSUME NEW m \in 1..Len(f)
        PROVE  \E i \in 1..Len(rows) : /\ f[m] = <<rows[i], d + 1>>
                                       /\ d + 1 < args.limits.depth /\ rows[i] \notin owner
    <2>1. PICK i \in P : f[m] = s[i]
      BY <1>7, <1>8
    <2> QED
      BY <1>3, <1>4, <2>1
  <1>9. ASSUME NEW i \in 1..Len(rows), d + 1 < args.limits.depth, rows[i] \notin owner
        PROVE  \E m \in 1..Len(f) : f[m] = <<rows[i], d + 1>>
    <2>1. i \in P /\ s[i] = <<rows[i], d + 1>>
      BY <1>3, <1>4, <1>9
    <2> QED
      BY <1>7, <2>1
  <1> QED
    BY <1>1, <1>6, <1>8, <1>9 DEF Queues

\* The queue holds two depths at most, the lower one first.
Sorted(s) ==
  \A i, j \in 1..Len(s) : (i <= j => s[i][2] <= s[j][2]) /\ s[j][2] <= s[i][2] + 1

LEMMA QueueAdvances ==
  ASSUME NEW s \in Seq(Addr \X Nat), s # <<>>, Sorted(s), NEW more \in Seq(Addr \X Nat),
         \A m \in 1..Len(more) : more[m][2] = s[1][2] + 1
  PROVE  LET t == Tail(s) \o more
         IN  /\ t \in Seq(Addr \X Nat) /\ Sorted(t)
             /\ \A i \in 1..Len(t) : \/ \E j \in 1..Len(s) : t[i] = s[j]
                                     \/ \E m \in 1..Len(more) : t[i] = more[m]
             /\ \A j \in 2..Len(s) : \E i \in 1..Len(t) : t[i] = s[j]
             /\ \A m \in 1..Len(more) : \E i \in 1..Len(t) : t[i] = more[m]
             /\ \A i \in 1..Len(t) : t[i][2] >= s[1][2]
  <1> DEFINE t == Tail(s) \o more
             d == s[1][2]
             L == Len(s) - 1
             M == Len(more)
  <1>1. L \in Nat /\ Len(s) = L + 1 /\ \A i \in 1..(L + 1) : s[i] \in Addr \X Nat
    BY EmptySeq, ElementOfSeq
  <1>2. Tail(s) \in Seq(Addr \X Nat) /\ Len(Tail(s)) = L /\ \A i \in 1..L : Tail(s)[i] = s[i + 1]
    BY HeadTailProperties
  <1>3. M \in Nat /\ \A m \in 1..M : more[m] \in Addr \X Nat
    BY LenProperties, ElementOfSeq
  <1>4. /\ t \in Seq(Addr \X Nat) /\ Len(t) = L + M
        /\ \A i \in 1..(L + M) : t[i] = IF i <= L THEN Tail(s)[i] ELSE more[i - L]
    BY <1>2, ConcatProperties
  <1> HIDE DEF t
  <1>5. /\ \A i \in 1..L : t[i] = s[i + 1]
        /\ \A i \in (L + 1)..(L + M) : t[i] = more[i - L]
        /\ \A m \in 1..M : t[L + m] = more[m]
    <2>1. \A i \in 1..L : i \in 1..(L + M) /\ i <= L
      BY <1>1, <1>3
    <2>2. \A i \in (L + 1)..(L + M) : i \in 1..(L + M) /\ ~(i <= L)
      BY <1>1, <1>3
    <2>3. \A m \in 1..M : L + m \in 1..(L + M) /\ ~(L + m <= L) /\ (L + m) - L = m
      BY <1>1, <1>3
    <2> HIDE DEF L, M
    <2>4. \A i \in 1..L : t[i] = s[i + 1]
      BY <1>2, <1>4, <2>1
    <2>5. \A i \in (L + 1)..(L + M) : t[i] = more[i - L]
      BY <1>4, <2>2
    <2>6. \A m \in 1..M : t[L + m] = more[m]
      BY <1>4, <2>3
    <2> QED
      BY <2>4, <2>5, <2>6
  <1>6. d \in Nat /\ \A j \in 1..(L + 1) : s[j][2] \in Nat /\ d <= s[j][2] /\ s[j][2] <= d + 1
    BY <1>1 DEF Sorted
  <1>7. \A i \in 1..(L + M) : /\ t[i][2] \in Nat /\ d <= t[i][2] /\ t[i][2] <= d + 1
                              /\ i > L => t[i][2] = d + 1
    <2> TAKE i \in 1..(L + M)
    <2>1. CASE i <= L
      BY <2>1, <1>1, <1>5, <1>6
    <2>2. CASE i > L
      <3>1. t[i] = more[i - L] /\ i - L \in 1..M
        BY <2>2, <1>1, <1>3, <1>5
      <3>2. t[i][2] = d + 1
        BY <3>1
      <3> QED
        BY <3>2, <1>6, <2>2
    <2> QED
      BY <2>1, <2>2, <1>1, <1>3
  <1> HIDE DEF d, L, M
  <1>8. ASSUME NEW i \in 1..(L + M), NEW j \in 1..(L + M), i <= j PROVE t[i][2] <= t[j][2]
    <2>1. CASE j <= L
      <3>1. t[i] = s[i + 1] /\ t[j] = s[j + 1] /\ i + 1 \in 1..Len(s) /\ j + 1 \in 1..Len(s) /\ i + 1 <= j + 1
        BY <2>1, <1>1, <1>5, <1>8
      <3>2. s[i + 1][2] <= s[j + 1][2]
        BY <3>1 DEF Sorted
      <3> QED
        BY <3>1, <3>2
    <2>2. CASE j > L
      BY <2>2, <1>6, <1>7
    <2> QED
      BY <2>1, <2>2, <1>1, <1>3 DEF L, M
  <1>9. Sorted(t)
    <2>1. ASSUME NEW i \in 1..(L + M), NEW j \in 1..(L + M) PROVE t[j][2] <= t[i][2] + 1
      <3>1. d <= t[i][2] /\ t[j][2] <= d + 1 /\ t[i][2] \in Nat /\ t[j][2] \in Nat
        BY <1>7
      <3> QED
        BY <3>1, <1>6
    <2> QED
      BY <2>1, <1>4, <1>8 DEF Sorted
  <1>10. \A i \in 1..Len(t) : \/ \E j \in 1..Len(s) : t[i] = s[j]
                              \/ \E m \in 1..Len(more) : t[i] = more[m]
    <2> TAKE i \in 1..Len(t)
    <2>1. CASE i <= L
      <3>1. t[i] = s[i + 1] /\ i + 1 \in 1..Len(s)
        BY <2>1, <1>1, <1>4, <1>5
      <3> QED
        BY <3>1
    <2>2. CASE i > L
      <3>1. t[i] = more[i - L] /\ i - L \in 1..Len(more)
        BY <2>2, <1>1, <1>3, <1>4, <1>5 DEF M
      <3> QED
        BY <3>1
    <2> QED
      BY <2>1, <2>2, <1>1
  <1>11. \A j \in 2..Len(s) : \E i \in 1..Len(t) : t[i] = s[j]
    <2> TAKE j \in 2..Len(s)
    <2>1. j - 1 \in 1..L /\ j - 1 \in 1..Len(t) /\ t[j - 1] = s[j]
      BY <1>1, <1>3, <1>4, <1>5
    <2> QED
      BY <2>1
  <1>12. \A m \in 1..Len(more) : \E i \in 1..Len(t) : t[i] = more[m]
    <2> TAKE m \in 1..Len(more)
    <2>1. L + m \in 1..Len(t) /\ t[L + m] = more[m]
      BY <1>1, <1>3, <1>4, <1>5 DEF M
    <2> QED
      BY <2>1
  <1> QED
    BY <1>4, <1>7, <1>9, <1>10, <1>11, <1>12 DEF t, d

LEMMA QueueShrinks ==
  ASSUME NEW s \in Seq(Addr \X Nat), s # <<>>, Sorted(s)
  PROVE  LET t == Tail(s)
         IN  /\ t \in Seq(Addr \X Nat) /\ Sorted(t)
             /\ \A i \in 1..Len(t) : \E j \in 1..Len(s) : t[i] = s[j]
             /\ \A j \in 2..Len(s) : \E i \in 1..Len(t) : t[i] = s[j]
             /\ \A i \in 1..Len(t) : t[i][2] >= s[1][2]
  <1> DEFINE none == <<>>
  <1>1. Tail(s) \o none = Tail(s) /\ Tail(s) \in Seq(Addr \X Nat)
    BY HeadTailProperties, ConcatEmptySeq
  <1>2. none \in Seq(Addr \X Nat) /\ Len(none) = 0
    BY EmptySeq
  <1> HIDE DEF none
  <1>3. \A m \in 1..Len(none) : none[m][2] = s[1][2] + 1
    BY <1>2
  <1> DEFINE t == Tail(s) \o none
  <1>4. /\ t \in Seq(Addr \X Nat) /\ Sorted(t)
        /\ \A i \in 1..Len(t) : \/ \E j \in 1..Len(s) : t[i] = s[j]
                                \/ \E m \in 1..Len(none) : t[i] = none[m]
        /\ \A j \in 2..Len(s) : \E i \in 1..Len(t) : t[i] = s[j]
        /\ \A i \in 1..Len(t) : t[i][2] >= s[1][2]
    <2> HIDE DEF t
    <2>1. none \in Seq(Addr \X Nat) /\ \A m \in 1..Len(none) : none[m][2] = s[1][2] + 1
      BY <1>2, <1>3
    <2> QED
      BY <2>1, QueueAdvances DEF t
  <1>5. t = Tail(s)
    BY <1>1
  <1> HIDE DEF t
  <1>6. \A i \in 1..Len(t) : \E j \in 1..Len(s) : t[i] = s[j]
    BY <1>2, <1>4
  <1> QED
    BY <1>4, <1>5, <1>6

-----------------------------------------------------------------------------
TraceTypes ==
  /\ walk \in {"off", "done"} \cup Dir
  /\ edges \in Seq(EdgeSet) /\ q \in Seq(Addr \X Nat) /\ seen \in SUBSET Addr
  /\ Nodes \in SUBSET Addr /\ \A b \in Nodes : level[b] \in Int
  /\ walk = "off" => edges = <<>> /\ seen = {}
  /\ walk # "off" =>
       /\ args.limits.depth \in Nat \ {0} /\ args.limits.fanout \in Nat
       /\ args.limits.max_nodes \in Nat /\ args.direction \in Dir \cup {"both"}
       /\ \A b \in Nodes \ {Origin} : level[b] # 0
  /\ walk \in Dir => walk \in Passes

\* In a pass every edge starts from an address already taken from the queue.
Once ==
  /\ \A i, j \in 1..Len(edges) : edges[i] = edges[j] => i = j
  /\ walk \in Dir => \A p \in Shown(edges, walk) : p[1] \in seen
  /\ walk = "out" => Shown(edges, "in") = {}

Open(b) == b = Origin \/ b \notin owner
OnSide(dir, l) == IF dir = "out" THEN l > 0 ELSE l < 0
Signed(dir, n) == IF dir = "out" THEN n ELSE -n
In(dir) == Reached(Shown(edges, dir))

\* The levels on the side of a direction are distances over its edges.
Walked(lev, dir) ==
  /\ Distances(lev, Shown(edges, dir))
  /\ In(dir) \in SUBSET Nodes
  /\ \A b \in In(dir) : lev[b] <= args.limits.depth
  /\ \A b \in Nodes \ {Origin} : OnSide(dir, level[b]) => b \in In(dir) /\ level[b] = Signed(dir, lev[b])

\* Whoever is still to be expanded waits in the queue, with the distance.
Waits(lev, dir) ==
  q # <<>> \/ ~Capped(Nodes) =>
    \A b \in In(dir) \ seen : Open(b) /\ lev[b] < args.limits.depth =>
      \E i \in 1..Len(q) : q[i] = <<b, lev[b]>>

Going(lev, dir) ==
  walk = dir =>
    /\ Sorted(q) /\ seen \in SUBSET In(dir)
    /\ \A i \in 1..Len(q) : /\ q[i][1] \in In(dir) /\ Open(q[i][1])
                            /\ lev[q[i][1]] <= q[i][2] /\ q[i][2] < args.limits.depth
    /\ q # <<>> => \A b \in In(dir) : lev[b] <= q[1][2] + 1
    /\ Waits(lev, dir)

\* What is expanded without a mark has all its flows in the graph.
Over(dir) == dir \in Passes /\ (walk = "done" \/ (walk = "in" /\ dir = "out"))
Uncut == mark = {} /\ ~Capped(Nodes) /\ \A a \in Nodes : size[a] = "few"
Whole(lev, dir) ==
  Uncut /\ (walk = dir \/ Over(dir)) =>
    \A p \in Steps(dir, flow) :
      /\ p[1] \in In(dir) /\ Open(p[1]) /\ lev[p[1]] < args.limits.depth
      /\ walk = dir => p[1] \in seen
      => p \in Shown(edges, dir)

Pass(dir) == \E lev : Walked(lev, dir) /\ Going(lev, dir) /\ Whole(lev, dir)

TraceInv == TraceTypes /\ Once /\ (walk # "off" => \A dir \in Dir : Pass(dir))

-----------------------------------------------------------------------------
LEMMA TraceInitial == TraceInit => TraceInv
  <1> SUFFICES ASSUME TraceInit PROVE TraceInv
    OBVIOUS
  <1>1. edges \in Seq(EdgeSet) /\ q \in Seq(Addr \X Nat) /\ Len(edges) = 0
    BY EmptySeq DEF TraceInit
  <1>2. Nodes = {}
    BY DEF TraceInit, Nodes
  <1> QED
    BY <1>1, <1>2 DEF TraceInit, TraceInv, TraceTypes, Once, Dir

LEMMA NothingShown == ASSUME NEW dir PROVE Shown(<<>>, dir) = {}
  BY DEF Shown

LEMMA ReachedOfNothing == Reached({}) = {Origin}
  BY DEF Reached

LEMMA LimitsTypes ==
  ASSUME NEW l \in Limits
  PROVE  l.depth \in Nat \ {0} /\ l.fanout \in Nat /\ l.max_nodes \in Nat
  BY TraceAssumption

\* A queue of nothing but the origin.
LEMMA QueueOfOrigin ==
  ASSUME NEW s, s = <<<<Origin, 0>>>>
  PROVE  /\ s \in Seq(Addr \X Nat) /\ Len(s) = 1 /\ s # <<>> /\ Sorted(s)
         /\ s[1] = <<Origin, 0>> /\ \A i \in 1..Len(s) : s[i] = <<Origin, 0>>
  <1>1. Origin \in Addr
    BY TraceAssumption
  <1> QED
    BY <1>1 DEF Sorted

LEMMA StartStep == ASSUME TraceInv, TraceStart PROVE TraceInv'
  <1>1. PICK l \in Limits, dir \in {"out", "in", "both"} :
          args' = [limits |-> l, direction |-> dir] /\ walk' = First(dir)
    BY DEF TraceStart
  <1>2. /\ args'.limits = l /\ args'.direction = dir /\ walk' \in Dir /\ walk' # "off"
        /\ walk' \in Passes'
    BY <1>1 DEF First, Dir, Passes
  <1>3. l.depth \in Nat \ {0} /\ l.fanout \in Nat /\ l.max_nodes \in Nat
    BY LimitsTypes
  <1>4. edges' = <<>> /\ edges' \in Seq(EdgeSet) /\ seen' = {} /\ Len(edges') = 0
    BY EmptySeq DEF TraceStart, TraceInv, TraceTypes
  <1>5. Nodes' = {Origin} /\ level'[Origin] = 0 /\ Origin \in Addr
    BY TraceAssumption DEF TraceStart, Nodes
  <1>6. /\ q' \in Seq(Addr \X Nat) /\ Len(q') = 1 /\ q' # <<>> /\ Sorted(q')
        /\ q'[1] = <<Origin, 0>> /\ \A i \in 1..Len(q') : q'[i] = <<Origin, 0>>
    BY QueueOfOrigin DEF TraceStart
  <1>7. TraceTypes'
    BY <1>2, <1>3, <1>4, <1>5, <1>6 DEF TraceTypes, Dir
  <1>8. \A d : Shown(edges', d) = {} /\ In(d)' = {Origin}
    BY <1>4, NothingShown, ReachedOfNothing DEF In
  <1>9. Once'
    BY <1>4, <1>8 DEF Once
  <1>10. ASSUME NEW d \in Dir PROVE Pass(d)'
    <2> DEFINE lev == [b \in {Origin} |-> 0]
    <2>1. lev \in [{Origin} -> Nat] /\ lev[Origin] = 0
      OBVIOUS
    <2> HIDE DEF lev
    <2>2. Distances(lev, {})
      BY <2>1, ReachedOfNothing DEF Distances
    <2>3. Walked(lev, d)'
      BY <1>2, <1>3, <1>5, <1>8, <2>1, <2>2 DEF Walked
    <2>4. Waits(lev, d)'
      BY <1>6, <1>8, <2>1 DEF Waits
    <2>5. Going(lev, d)'
      BY <1>2, <1>3, <1>4, <1>6, <1>8, <2>1, <2>4 DEF Going, Open
    <2>6. Whole(lev, d)'
      <3>1. ~Over(d)' \/ d # walk'
        BY <1>2 DEF Over, Dir
      <3>2. ASSUME Over(d)' PROVE FALSE
        BY <3>2, <1>1, <1>2 DEF Over, Passes, First, Dir
      <3> QED
        BY <1>4, <3>2 DEF Whole
    <2> QED
      BY <2>3, <2>5, <2>6 DEF Pass
  <1> QED
    BY <1>7, <1>9, <1>10 DEF TraceInv

\* What a direction not under way needs of a step: neither its edges nor the
\* levels on its side change.
LEMMA OtherPass ==
  ASSUME TraceInv, walk # "off", UNCHANGED <<args, tables>>, NEW dir \in Dir,
         Shown(edges', dir) = Shown(edges, dir),
         Nodes \in SUBSET Nodes',
         \A b \in Nodes : level'[b] = level[b],
         \A b \in Nodes' \ Nodes : ~OnSide(dir, level'[b]),
         Uncut' => Uncut,
         NEW lev, Walked(lev, dir), Whole(lev, dir),
         walk' # dir, walk # dir, Over(dir)' => Over(dir)
  PROVE  Walked(lev, dir)' /\ Going(lev, dir)' /\ Whole(lev, dir)'
  <1>1. In(dir)' = In(dir) /\ args' = args /\ flow' = flow /\ owner' = owner
    BY DEF In, tables
  <1>2. Walked(lev, dir)'
    <2>1. ASSUME NEW b \in Nodes' \ {Origin}, OnSide(dir, level'[b])
          PROVE  b \in In(dir) /\ level'[b] = Signed(dir, lev[b])
      BY <2>1 DEF Walked
    <2> QED
      BY <1>1, <2>1 DEF Walked
  <1>3. Going(lev, dir)'
    BY DEF Going
  <1>4. Whole(lev, dir)'
    BY <1>1 DEF Whole, Open, Steps
  <1> QED
    BY <1>2, <1>3, <1>4

\* The first of the queue is taken from it and not expanded.
LEMMA TakenOff ==
  ASSUME TraceInv, Pop, q' = Tail(q), seen' \in SUBSET Addr, seen \in SUBSET seen', q[1][1] \in seen',
         seen' \in SUBSET (seen \cup {q[1][1]}),
         UNCHANGED <<walk, args, tables, level, edges>>, (mark' = mark /\ seen' = seen) \/ mark' # {}
  PROVE  TraceInv'
  <1>1. walk \in Dir /\ walk # "off" /\ q \in Seq(Addr \X Nat) /\ q # <<>> /\ Len(q) \in Nat \ {0}
    BY EmptySeq DEF TraceInv, TraceTypes, Pop, Dir
  <1>2. Nodes' = Nodes /\ \A d \in Dir : In(d)' = In(d)
    BY DEF Nodes, In
  <1>3. q' \in Seq(Addr \X Nat)
    BY <1>1, HeadTailProperties
  <1>4. TraceTypes'
    BY <1>1, <1>2, <1>3 DEF TraceInv, TraceTypes, Passes, tables
  <1>5. Once'
    BY <1>1 DEF TraceInv, Once
  <1>6. ASSUME NEW dir \in Dir PROVE Pass(dir)'
    <2>1. PICK lev : Walked(lev, dir) /\ Going(lev, dir) /\ Whole(lev, dir)
      BY <1>1 DEF TraceInv, Pass
    <2>2. Walked(lev, dir)'
      BY <1>2, <2>1 DEF Walked
    <2>3. Uncut' => Uncut /\ mark' = mark /\ seen' = seen
      BY <1>2 DEF Uncut, Capped, tables
    <2>4. Whole(lev, dir)'
      <3>1. Over(dir)' <=> Over(dir)
        BY DEF Over, Passes
      <3> QED
        BY <1>2, <2>1, <2>3, <3>1 DEF Whole, Open, Steps, tables
    <2>5. CASE walk = dir
      <3>1. /\ Sorted(q) /\ seen \in SUBSET In(dir)
            /\ \A i \in 1..Len(q) : /\ q[i][1] \in In(dir) /\ Open(q[i][1])
                                    /\ lev[q[i][1]] <= q[i][2] /\ q[i][2] < args.limits.depth
            /\ \A b \in In(dir) : lev[b] <= q[1][2] + 1
            /\ Waits(lev, dir)
        BY <1>1, <2>1, <2>5 DEF Going
      <3>2. /\ Sorted(q')
            /\ \A i \in 1..Len(q') : \E j \in 1..Len(q) : q'[i] = q[j]
            /\ \A j \in 2..Len(q) : \E i \in 1..Len(q') : q'[i] = q[j]
            /\ \A i \in 1..Len(q') : q'[i][2] >= q[1][2]
        BY <1>1, <3>1, QueueShrinks
      <3>3. \A i \in 1..Len(q') : /\ q'[i][1] \in In(dir) /\ Open(q'[i][1])
                                  /\ lev[q'[i][1]] <= q'[i][2] /\ q'[i][2] < args.limits.depth
        BY <3>1, <3>2
      <3>4. q' # <<>> => \A b \in In(dir) : lev[b] <= q'[1][2] + 1
        <4> SUFFICES ASSUME q' # <<>>, NEW b \in In(dir) PROVE lev[b] <= q'[1][2] + 1
          OBVIOUS
        <4>1. 1 \in 1..Len(q') /\ q'[1] \in Addr \X Nat
          BY <1>3, EmptySeq, ElementOfSeq
        <4>2. q[1] \in Addr \X Nat
          BY <1>1, ElementOfSeq
        <4>3. lev[b] \in Nat
          BY <2>1 DEF Walked, Distances, In
        <4>4. lev[b] <= q[1][2] + 1 /\ q'[1][2] >= q[1][2] /\ q'[1][2] \in Nat /\ q[1][2] \in Nat
          BY <3>1, <3>2, <4>1, <4>2
        <4> QED
          BY <4>3, <4>4
      <3>5. ASSUME NEW b \in In(dir) \ seen', Open(b), lev[b] < args.limits.depth
            PROVE  \E i \in 1..Len(q') : q'[i] = <<b, lev[b]>>
        <4>1. b \notin seen /\ b # q[1][1]
          BY <3>5
        <4>2. PICK j \in 1..Len(q) : q[j] = <<b, lev[b]>>
          BY <1>1, <3>1, <3>5, <4>1 DEF Waits
        <4>3. j \in 2..Len(q)
          BY <1>1, <4>1, <4>2
        <4> QED
          BY <3>2, <4>2, <4>3
      <3>6. Waits(lev, dir)'
        BY <1>2, <3>5 DEF Waits, Open, tables
      <3>7. seen' \in SUBSET In(dir)
        BY <1>1, <3>1
      <3>8. Going(lev, dir)'
        BY <1>2, <3>2, <3>3, <3>4, <3>6, <3>7 DEF Going, Open, tables
      <3> QED
        BY <2>2, <2>4, <3>8 DEF Pass
    <2>6. CASE walk # dir
      <3>1. Going(lev, dir)'
        BY <2>6 DEF Going
      <3> QED
        BY <2>2, <2>4, <3>1 DEF Pass
    <2> QED
      BY <2>5, <2>6
  <1> QED
    BY <1>1, <1>4, <1>5, <1>6 DEF TraceInv

LEMMA SkipStep == ASSUME TraceInv, TraceSkip PROVE TraceInv'
  <1>1. q \in Seq(Addr \X Nat) /\ walk \in Dir /\ walk # "off" /\ q # <<>> /\ seen \in SUBSET Addr
    BY DEF TraceInv, TraceTypes, TraceSkip, Pop, Dir
  <1>2. q[1][2] < args.limits.depth
    <2>1. PICK lev : Going(lev, walk)
      BY <1>1 DEF TraceInv, Pass
    <2>2. 1 \in 1..Len(q)
      BY <1>1, EmptySeq
    <2> QED
      BY <2>1, <2>2 DEF Going
  <1>3. args.limits.depth \in Nat /\ q[1] \in Addr \X Nat
    BY <1>1, EmptySeq, ElementOfSeq DEF TraceInv, TraceTypes
  <1>4. q[1][1] \in seen
    BY <1>2, <1>3 DEF TraceSkip, Passed
  <1> QED
    BY <1>1, <1>4, TakenOff DEF TraceSkip, graph

LEMMA LeaveStep == ASSUME TraceInv, TraceLeave PROVE TraceInv'
  <1>1. Pop /\ seen' = seen \cup {q[1][1]} /\ mark' # {} /\ q' = Tail(q)
        /\ UNCHANGED <<walk, args, tables, level, edges>>
    BY DEF TraceLeave
  <1>2. q \in Seq(Addr \X Nat) /\ q # <<>> /\ seen \in SUBSET Addr
    BY <1>1 DEF TraceInv, TraceTypes, Pop
  <1>3. q[1][1] \in Addr
    BY <1>2, EmptySeq, ElementOfSeq
  <1> QED
    BY <1>1, <1>2, <1>3, TakenOff

LEMMA EndPassStep == ASSUME TraceInv, TraceEndPass PROVE TraceInv'
  <1>1. /\ walk \in Dir /\ walk # "off" /\ walk \in Passes /\ q = <<>> /\ Len(q) = 0
        /\ UNCHANGED <<args, tables, graph>>
        /\ args.direction \in Dir \cup {"both"}
    BY EmptySeq DEF TraceEndPass, TraceInv, TraceTypes, Dir
  <1>2. /\ \/ walk = "out" /\ args.direction = "both" /\ walk' = "in"
              /\ q' = <<<<Origin, 0>>>> /\ seen' = {}
           \/ /\ ~(walk = "out" /\ args.direction = "both")
              /\ walk' = "done" /\ q' = q /\ seen' = seen
        /\ walk' # "off" /\ walk' # walk
    BY <1>1 DEF TraceEndPass, Dir
  <1>3. /\ Nodes' = Nodes /\ \A d : In(d)' = In(d) /\ Shown(edges', d) = Shown(edges, d)
        /\ args' = args /\ flow' = flow /\ owner' = owner /\ Passes' = Passes /\ Uncut' = Uncut
        /\ level' = level /\ edges' = edges /\ Capped(Nodes)' = Capped(Nodes)
    BY <1>1 DEF Nodes, In, graph, tables, Passes, Uncut, Capped
  <1>4. walk = "out" /\ args.direction = "both" => Shown(edges, "in") = {} /\ In("in") = {Origin}
    BY ReachedOfNothing DEF TraceInv, Once, In
  <1>5. TraceTypes'
    <2>1. q' \in Seq(Addr \X Nat) /\ seen' \in SUBSET Addr
      BY <1>2, QueueOfOrigin DEF TraceInv, TraceTypes
    <2>2. walk' \in {"off", "done"} \cup Dir /\ (walk' \in Dir => walk' \in Passes)
      BY <1>2 DEF Dir, Passes
    <2> QED
      BY <1>1, <1>2, <1>3, <2>1, <2>2 DEF TraceInv, TraceTypes
  <1>6. Once'
    BY <1>2, <1>3, <1>4 DEF TraceInv, Once, Dir
  <1>7. ASSUME NEW dir \in Dir PROVE Pass(dir)'
    <2>1. PICK lev : Walked(lev, dir) /\ Going(lev, dir) /\ Whole(lev, dir)
      BY <1>1 DEF TraceInv, Pass
    <2>2. Walked(lev, dir)'
      BY <1>3, <2>1 DEF Walked
    <2>3. Going(lev, dir)'
      <3>1. CASE walk' = dir
        <4>1. /\ walk = "out" /\ args.direction = "both" /\ dir = "in" /\ seen' = {}
              /\ In(dir) = {Origin} /\ args.limits.depth \in Nat \ {0}
          BY <1>1, <1>2, <1>4, <3>1 DEF Dir, TraceInv, TraceTypes
        <4>2. /\ Len(q') = 1 /\ q' # <<>> /\ Sorted(q')
              /\ q'[1] = <<Origin, 0>> /\ \A i \in 1..Len(q') : q'[i] = <<Origin, 0>>
          BY <1>2, <4>1, QueueOfOrigin
        <4>3. lev[Origin] = 0
          BY <2>1 DEF Walked, Distances
        <4>4. Waits(lev, dir)'
          BY <1>3, <4>1, <4>2, <4>3 DEF Waits
        <4> QED
          BY <1>3, <4>1, <4>2, <4>3, <4>4 DEF Going, Open
      <3>2. CASE walk' # dir
        BY <3>2 DEF Going
      <3> QED
        BY <3>1, <3>2
    <2>4. Whole(lev, dir)'
      <3> SUFFICES ASSUME Uncut, (walk = dir \/ Over(dir))', NEW p \in Steps(dir, flow),
                          p[1] \in In(dir), Open(p[1]), lev[p[1]] < args.limits.depth,
                          (walk = dir => p[1] \in seen)'
                   PROVE  p \in Shown(edges, dir)
        BY <1>3 DEF Whole, Open, Steps
      <3>1. CASE walk = dir
        <4>1. \A b \in In(dir) \ seen : Open(b) /\ lev[b] < args.limits.depth =>
                \E i \in 1..Len(q) : q[i] = <<b, lev[b]>>
          BY <2>1, <3>1 DEF Going, Waits, Uncut
        <4>2. p[1] \in seen
          BY <1>1, <4>1
        <4> QED
          BY <2>1, <3>1, <4>2 DEF Whole
      <3>2. CASE walk # dir /\ walk' = dir
        BY <1>2, <3>2 DEF Dir
      <3>3. CASE walk # dir /\ walk' # dir
        <4>1. Over(dir)' /\ dir \in Passes
          BY <1>3, <3>3 DEF Over
        <4>2. args.direction = "both"
          BY <1>1, <3>3, <4>1 DEF Passes, Dir
        <4>3. Over(dir)
          BY <1>1, <1>2, <3>3, <4>1, <4>2 DEF Over, Dir
        <4> QED
          BY <2>1, <3>3, <4>3 DEF Whole
      <3> QED
        BY <3>1, <3>2, <3>3
    <2> QED
      BY <2>2, <2>3, <2>4 DEF Pass
  <1> QED
    BY <1>2, <1>5, <1>6, <1>7 DEF TraceInv

-----------------------------------------------------------------------------
LEMMA CappedGrows ==
  ASSUME args.limits.max_nodes \in Nat, NEW B \in SUBSET Addr, NEW A \in SUBSET B, Capped(A)
  PROVE  Capped(B)
  <1>1. IsFiniteSet(B)
    BY TraceAssumption, FS_Subset
  <1>2. Cardinality(A) <= Cardinality(B) /\ IsFiniteSet(A)
    BY <1>1, FS_Subset
  <1>3. Cardinality(A) \in Nat /\ Cardinality(B) \in Nat
    BY <1>1, <1>2, FS_CardinalityType
  <1> QED
    BY <1>2, <1>3 DEF Capped

LEMMA TakenIs ==
  ASSUME NEW rows \in Seq(Addr)
  PROVE  /\ Taken(rows) \in 0..Len(rows)
         /\ ~Capped(Found(rows, Taken(rows))) => Taken(rows) = Len(rows)
         /\ rows = <<>> => Taken(rows) = Len(rows)
  <1> DEFINE N == {Len(rows)} \cup {i \in 1..Len(rows) : Capped(Found(rows, i))}
  <1>1. Len(rows) \in Nat
    BY LenProperties
  <1>2. N \in SUBSET Nat /\ N # {}
    BY <1>1
  <1>3. Min(N) \in N /\ \A k \in N : Min(N) <= k
    BY <1>2, LeastIsMin
  <1>4. Taken(rows) = Min(N)
    BY DEF Taken
  <1>5. \A k \in N : k \in 0..Len(rows) /\ (k = Len(rows) \/ Capped(Found(rows, k)))
    BY <1>1
  <1>6. rows = <<>> => Len(rows) = 0
    OBVIOUS
  <1> HIDE DEF N
  <1>7. Taken(rows) \in 0..Len(rows) /\ (Taken(rows) = Len(rows) \/ Capped(Found(rows, Taken(rows))))
    BY <1>3, <1>4, <1>5
  <1> QED
    BY <1>1, <1>6, <1>7

\* An address that is expanded waits with its distance: an entry with a greater
\* depth would stand behind that one.
LEMMA HeadIsNear ==
  ASSUME TraceInv, Pop, ~Passed(q[1][1], q[1][2]),
         NEW lev, Walked(lev, walk), Going(lev, walk)
  PROVE  /\ q[1] \in Addr \X Nat /\ q[1][1] \in In(walk) /\ Open(q[1][1])
         /\ q[1][1] \notin seen /\ lev[q[1][1]] = q[1][2] /\ q[1][2] < args.limits.depth
  <1>1. /\ walk \in Dir /\ walk # "off" /\ q \in Seq(Addr \X Nat) /\ q # <<>>
        /\ args.limits.depth \in Nat
    BY DEF TraceInv, TraceTypes, Pop, Dir
  <1>2. 1 \in 1..Len(q) /\ q[1] \in Addr \X Nat
    BY <1>1, EmptySeq, ElementOfSeq
  <1>3. /\ Sorted(q) /\ q[1][1] \in In(walk) /\ Open(q[1][1])
        /\ lev[q[1][1]] <= q[1][2] /\ q[1][2] < args.limits.depth
        /\ Waits(lev, walk)
    BY <1>2 DEF Going
  <1>4. q[1][1] \notin seen
    BY DEF Passed
  <1>5. lev[q[1][1]] \in Nat
    BY <1>3 DEF Walked, Distances, In
  <1>6. lev[q[1][1]] < args.limits.depth
    BY <1>1, <1>2, <1>3, <1>5
  <1>7. PICK i \in 1..Len(q) : q[i] = <<q[1][1], lev[q[1][1]]>>
    BY <1>1, <1>3, <1>4, <1>6 DEF Waits
  <1>8. q[1][2] <= q[i][2]
    BY <1>2, <1>3, <1>7 DEF Sorted
  <1>9. q[i][2] = lev[q[1][1]]
    BY <1>7
  <1> QED
    BY <1>2, <1>3, <1>4, <1>5, <1>8, <1>9

LEMMA ExpandStep == ASSUME TraceInv, TraceExpand PROVE TraceInv'
  <1> DEFINE a == q[1][1]
             d == q[1][2]
             R == Shown(edges, walk)
  <1>1. /\ Pop /\ ~Passed(a, d) /\ UNCHANGED <<walk, args, tables>>
        /\ walk \in Dir /\ walk # "off" /\ walk \in Passes
        /\ q \in Seq(Addr \X Nat) /\ q # <<>> /\ edges \in Seq(EdgeSet)
        /\ args.limits.depth \in Nat \ {0} /\ args.limits.fanout \in Nat /\ args.limits.max_nodes \in Nat
        /\ seen \in SUBSET Addr /\ Nodes \in SUBSET Addr
    BY DEF TraceInv, TraceTypes, TraceExpand, Pop, Dir
  <1>2. PICK rows \in QueryRows(a) :
          LET n == Taken(rows)
              N == Found(rows, n)
          IN  /\ seen' = seen \cup {a}
              /\ mark' = IF Full(rows) THEN mark \cup {<<a, "truncated">>} ELSE mark
              /\ level' = [b \in N |-> IF b \in Nodes THEN level[b] ELSE Sign * (d + 1)]
              /\ edges' = edges \o [i \in 1..n |-> Edge(a, rows[i])]
              /\ q' = IF rows # <<>> /\ Capped(N) THEN <<>> ELSE Queue(Tail(q), Further(rows, d))
    BY DEF TraceExpand
  <1> DEFINE n == Taken(rows)
             T == {rows[i] : i \in 1..n}
  <1>3. q[1] \in Addr \X Nat /\ a \in Addr /\ d \in Nat
    BY <1>1, EmptySeq, ElementOfSeq
  <1>4. /\ rows \in Seq(Addr)
        /\ \A i, j \in 1..Len(rows) : rows[i] = rows[j] => i = j
        /\ size[a] = "few" /\ ~Full(rows) =>
             \A b \in Addr : <<a, b>> \in Steps(walk, flow) => \E i \in 1..Len(rows) : rows[i] = b
    BY <1>1, <1>3, TraceAssumption, RowsOfQuery
  <1>5. Len(rows) \in Nat /\ \A i \in 1..Len(rows) : rows[i] \in Addr
    BY <1>4, LenProperties, ElementOfSeq
  <1>6. /\ n \in 0..Len(rows) /\ (~Capped(Found(rows, n)) => n = Len(rows))
        /\ (rows = <<>> => n = Len(rows))
    BY <1>4, TakenIs
  <1> HIDE DEF n
  <1>7. n \in Nat /\ T \in SUBSET Addr /\ \A i \in 1..n : i \in 1..Len(rows) /\ rows[i] \in Addr
    BY <1>5, <1>6
  <1>8. Nodes' = Nodes \cup T /\ Found(rows, n) = Nodes \cup T
        /\ \A b \in Nodes' : level'[b] = IF b \in Nodes THEN level[b] ELSE Sign * (d + 1)
    <2>1. Found(rows, n) = Nodes \cup T
      BY DEF Found
    <2>2. level' = [b \in Nodes \cup T |-> IF b \in Nodes THEN level[b] ELSE Sign * (d + 1)]
      BY <1>2, <2>1 DEF n
    <2> HIDE DEF T
    <2>3. Nodes' = Nodes \cup T
      BY <2>2 DEF Nodes
    <2> QED
      BY <2>1, <2>2, <2>3
  <1>9. /\ edges' \in Seq(EdgeSet) /\ Len(edges') = Len(edges) + n
        /\ \A i \in 1..(Len(edges) + n) :
             edges'[i] = IF i <= Len(edges) THEN edges[i] ELSE EdgeOf(walk, <<a, rows[i - Len(edges)]>>)
        /\ Shown(edges', walk) = R \cup ({a} \X T)
        /\ \A o \in Dir \ {walk} : Shown(edges', o) = Shown(edges, o)
    <2> DEFINE more == [i \in 1..n |-> EdgeOf(walk, <<a, rows[i]>>)]
    <2>1. edges' = edges \o more
      <3>1. \A b : Edge(a, b) = EdgeOf(walk, <<a, b>>)
        BY DEF Edge, EdgeOf
      <3> QED
        BY <1>2, <3>1 DEF n
    <2>2. more \in [1..n -> EdgeSet] /\ \A i \in 1..n : more[i] = EdgeOf(walk, <<a, rows[i]>>)
      <3>1. \A i \in 1..n : EdgeOf(walk, <<a, rows[i]>>) \in EdgeSet
        BY <1>1, <1>3, <1>7, EdgeFields
      <3> QED
        BY <3>1
    <2> HIDE DEF a, more
    <2>3. /\ edges \o more \in Seq(EdgeSet) /\ Len(edges \o more) = Len(edges) + n
          /\ \A i \in 1..(Len(edges) + n) :
               (edges \o more)[i] = IF i <= Len(edges) THEN edges[i]
                                    ELSE EdgeOf(walk, <<a, rows[i - Len(edges)]>>)
          /\ Shown(edges \o more, walk) = Shown(edges, walk) \cup ({a} \X {rows[i] : i \in 1..n})
          /\ \A o \in Dir \ {walk} : Shown(edges \o more, o) = Shown(edges, o)
      <3>1. /\ edges \in Seq(EdgeSet) /\ walk \in Dir /\ a \in Addr
            /\ rows \in Seq(Addr) /\ n \in 0..Len(rows)
        BY <1>1, <1>3, <1>4, <1>6
      <3>2. Appended(edges, edges \o more, walk, a, rows, n)
        BY <2>2, <3>1, EdgesAppended
      <3> QED
        BY <3>2 DEF Appended
    <2>4. Shown(edges \o more, walk) = R \cup ({a} \X T)
      BY <2>3, Zenon
    <2> HIDE DEF R, T
    <2> QED
      BY <2>1, <2>3, <2>4
  <1> HIDE DEF T, a, d, R
  <1>10. seen' = seen \cup {a}
         /\ mark' = (IF Full(rows) THEN mark \cup {<<a, "truncated">>} ELSE mark)
    BY <1>2
  <1> DEFINE more == Further(rows, d)
  <1>11. Queues(more, rows, d) /\ more \in Seq(Addr \X Nat)
    <2>1. args.limits.depth \in Nat /\ rows \in Seq(Addr) /\ d \in Nat
      BY <1>1, <1>3, <1>4
    <2>2. Queues(more, rows, d)
      BY <2>1, FurtherIs
    <2> HIDE DEF more
    <2> QED
      BY <2>2 DEF Queues
  <1>12. \/ q' = <<>> /\ Len(q') = 0 /\ Capped(Nodes')
         \/ q' = Tail(q) \o more /\ n = Len(rows)
    <2>1. q' = IF rows # <<>> /\ Capped(Found(rows, n)) THEN <<>> ELSE Queue(Tail(q), more)
      BY <1>2 DEF n, d
    <2> HIDE DEF more
    <2> QED
      BY <1>6, <1>8, <2>1, EmptySeq DEF Queue
  <1> HIDE DEF more
  <1>13. args' = args /\ walk' = walk /\ flow' = flow /\ size' = size /\ owner' = owner
         /\ Passes' = Passes /\ \A dir : Over(dir)' = Over(dir)
    BY <1>1 DEF tables, Passes, Over
  <1>14. Uncut' => Uncut /\ ~Capped(Nodes') /\ ~Full(rows) /\ size[a] = "few"
    <2> SUFFICES ASSUME Uncut' PROVE Uncut /\ ~Capped(Nodes') /\ ~Full(rows) /\ size[a] = "few"
      OBVIOUS
    <2>1. mark' = {} /\ ~Capped(Nodes') /\ \A b \in Nodes' : size[b] = "few"
      BY <1>13 DEF Uncut, Capped
    <2>2. ~Capped(Nodes)
      BY <1>1, <1>7, <1>8, <2>1, CappedGrows
    <2>3. mark = {} /\ ~Full(rows)
      BY <1>10, <2>1
    <2>4. a \in Nodes
      <3>1. PICK lev : Walked(lev, walk) /\ Going(lev, walk)
        BY <1>1 DEF TraceInv, Pass
      <3>2. a \in In(walk)
        BY <1>1, <3>1, HeadIsNear DEF a, d
      <3> QED
        BY <3>1, <3>2 DEF Walked
    <2> QED
      BY <1>8, <2>1, <2>2, <2>3, <2>4 DEF Uncut
  <1>15. Sign * (d + 1) \in Int /\ Sign * (d + 1) = Signed(walk, d + 1) /\ Sign * (d + 1) # 0
         /\ \A dir \in Dir : OnSide(dir, Sign * (d + 1)) <=> dir = walk
    <2>1. CASE walk = "out"
      <3>1. Sign = 1
        BY <2>1 DEF Sign
      <3> QED
        BY <1>3, <2>1, <3>1 DEF Signed, OnSide, Dir
    <2>2. CASE walk = "in"
      <3>1. Sign = -1
        BY <2>2 DEF Sign
      <3>2. Sign * (d + 1) = -(d + 1)
        BY <1>3, <3>1
      <3> QED
        BY <1>3, <2>2, <3>2 DEF Signed, OnSide, Dir
    <2> QED
      BY <1>1, <2>1, <2>2 DEF Dir
  <1>16. TraceTypes'
    <2>1. q' \in Seq(Addr \X Nat)
      <3>1. Tail(q) \in Seq(Addr \X Nat)
        BY <1>1, HeadTailProperties
      <3>2. Tail(q) \o more \in Seq(Addr \X Nat)
        BY <1>11, <3>1, ConcatProperties
      <3> QED
        BY <1>12, <3>2, EmptySeq
    <2>2. Nodes' \in SUBSET Addr /\ seen' \in SUBSET Addr
      BY <1>1, <1>3, <1>7, <1>8, <1>10
    <2>3. \A b \in Nodes' : level'[b] \in Int /\ (b # Origin => level'[b] # 0)
      <3>1. \A b \in Nodes : level[b] \in Int /\ (b # Origin => level[b] # 0)
        BY <1>1 DEF TraceInv, TraceTypes
      <3> QED
        BY <1>8, <1>15, <3>1
    <2> QED
      BY <1>1, <1>9, <1>13, <2>1, <2>2, <2>3 DEF TraceInv, TraceTypes
  <1>17. Once'
    <2>1. Len(edges) \in Nat
      BY <1>1, LenProperties
    <2>2. \A p \in R : p[1] \in seen
      BY <1>1 DEF TraceInv, Once, R
    <2>3. a \notin seen
      BY <1>1 DEF Passed
    <2> DEFINE Row(i) == <<a, rows[i - Len(edges)]>>
    <2>8. ASSUME NEW i \in 1..Len(edges')
          PROVE  /\ i \in Nat
                 /\ i <= Len(edges) => i \in 1..Len(edges) /\ edges'[i] = edges[i]
                 /\ i > Len(edges) => /\ i - Len(edges) \in 1..n /\ edges'[i] = EdgeOf(walk, Row(i))
      <3>1. i \in 1..(Len(edges) + n)
        BY <1>9, <2>8
      <3> QED
        BY <1>7, <1>9, <2>1, <3>1
    <2>9. ASSUME NEW i \in 1..Len(edges'), i > Len(edges)
          PROVE  Row(i) \in Addr \X Addr
      BY <1>3, <1>7, <2>8, <2>9
    <2> HIDE DEF Row
    <2>4. ASSUME NEW i \in 1..Len(edges'), NEW j \in 1..Len(edges'), i < j, edges'[i] = edges'[j]
          PROVE  FALSE
      <3>1. CASE j <= Len(edges)
        <4>1. i <= Len(edges)
          BY <2>1, <2>4, <2>8, <3>1
        <4>2. i \in 1..Len(edges) /\ j \in 1..Len(edges) /\ edges[i] = edges[j]
          BY <2>4, <2>8, <3>1, <4>1
        <4>3. i = j
          BY <4>2 DEF TraceInv, Once
        <4> QED
          BY <2>4, <2>8, <4>3
      <3>2. CASE j > Len(edges)
        <4>1. edges'[j] = EdgeOf(walk, Row(j)) /\ Row(j) \in Addr \X Addr
          BY <2>8, <2>9, <3>2
        <4>2. CASE i <= Len(edges)
          <5>1. i \in 1..Len(edges) /\ edges[i] = EdgeOf(walk, Row(j))
            BY <2>4, <2>8, <4>1, <4>2
          <5>2. Row(j) \in R
            BY <4>1, <5>1 DEF R, Shown
          <5>3. Row(j)[1] = a
            BY DEF Row
          <5> QED
            BY <2>2, <2>3, <5>2, <5>3
        <4>3. CASE i > Len(edges)
          <5>1. edges'[i] = EdgeOf(walk, Row(i)) /\ Row(i) \in Addr \X Addr
            BY <2>8, <2>9, <4>3
          <5>2. Row(i) = Row(j)
            BY <1>1, <2>4, <4>1, <5>1, EdgesApart
          <5>3. rows[i - Len(edges)] = rows[j - Len(edges)]
            BY <5>2 DEF Row
          <5>4. i - Len(edges) \in 1..Len(rows) /\ j - Len(edges) \in 1..Len(rows)
            BY <1>7, <2>8, <3>2, <4>3
          <5>5. i - Len(edges) = j - Len(edges)
            BY <1>4, <5>3, <5>4
          <5> QED
            BY <2>1, <2>4, <2>8, <5>5
        <4> QED
          BY <4>2, <4>3, <2>1, <2>8
      <3> QED
        BY <3>1, <3>2, <2>1, <2>8
    <2>5. \A i, j \in 1..Len(edges') : edges'[i] = edges'[j] => i = j
      <3>1. \A i, j \in 1..Len(edges') : i < j \/ i = j \/ j < i
        BY <1>7, <1>9, <2>1
      <3> QED
        BY <2>4, <3>1
    <2>6. \A p \in Shown(edges', walk) : p[1] \in seen'
      BY <1>9, <1>10, <2>2
    <2>7. walk = "out" => Shown(edges', "in") = {}
      BY <1>9 DEF TraceInv, Once, Dir
    <2> QED
      BY <1>13, <2>5, <2>6, <2>7 DEF Once
  <1>18. ASSUME NEW dir \in Dir, dir # walk PROVE Pass(dir)'
    <2>1. PICK lev : Walked(lev, dir) /\ Going(lev, dir) /\ Whole(lev, dir)
      BY <1>1 DEF TraceInv, Pass
    <2>2. \A b \in Nodes' \ Nodes : ~OnSide(dir, level'[b])
      BY <1>8, <1>15, <1>18
    <2>3. Walked(lev, dir)' /\ Going(lev, dir)' /\ Whole(lev, dir)'
      BY <1>1, <1>8, <1>9, <1>13, <1>14, <1>18, <2>1, <2>2, OtherPass
    <2> QED
      BY <2>3 DEF Pass
  <1>19. ASSUME NEW dir \in Dir, dir = walk PROVE Pass(dir)'
    <2>1. PICK lev : Walked(lev, dir) /\ Going(lev, dir) /\ Whole(lev, dir)
      BY <1>19, <1>1 DEF TraceInv, Pass
    <2>2. /\ a \in In(dir) /\ Open(a) /\ a \notin seen /\ lev[a] = d /\ d < args.limits.depth
      BY <1>19, <1>1, <2>1, HeadIsNear DEF a, d
    <2>3. /\ Sorted(q) /\ seen \in SUBSET In(dir)
          /\ \A i \in 1..Len(q) : /\ q[i][1] \in In(dir) /\ Open(q[i][1])
                                  /\ lev[q[i][1]] <= q[i][2] /\ q[i][2] < args.limits.depth
          /\ \A b \in In(dir) : lev[b] <= d + 1
          /\ \A b \in In(dir) \ seen : Open(b) /\ lev[b] < args.limits.depth =>
               \E i \in 1..Len(q) : q[i] = <<b, lev[b]>>
      BY <1>19, <1>1, <2>1 DEF Going, Waits, d
    <2>4. /\ Distances(lev, R) /\ In(dir) = Reached(R) /\ R \in SUBSET (Addr \X Addr)
          /\ lev \in [In(dir) -> Nat] /\ Origin \in In(dir) /\ In(dir) \in SUBSET Nodes
      <3>1. R = Shown(edges, dir) /\ R \in SUBSET (Addr \X Addr)
        BY <1>19 DEF R, Shown
      <3> HIDE DEF R
      <3>2. In(dir) = Reached(R)
        BY <3>1 DEF In
      <3>3. Distances(lev, R) /\ In(dir) \in SUBSET Nodes
        BY <2>1, <3>1 DEF Walked
      <3>4. lev \in [Reached(R) -> Nat]
        BY <3>3 DEF Distances
      <3>5. Origin \in Reached(R)
        BY DEF Reached
      <3> QED
        BY <3>1, <3>2, <3>3, <3>4, <3>5
    <2>10. PICK new : new = Extended(lev, R, In(dir) \cup T, d)
      OBVIOUS
    <2>5. In(dir)' = In(dir) \cup T /\ Distances(new, R \cup ({a} \X T))
      <3>1. \A b \in Reached(R) : lev[b] <= lev[a] + 1
        BY <2>2, <2>3, <2>4
      <3>2. a \in Reached(R) \cap Addr
        BY <1>3, <2>2, <2>4
      <3>3. /\ Reached(R \cup ({a} \X T)) = Reached(R) \cup T
            /\ Distances(Extended(lev, R, Reached(R) \cup T, lev[a]), R \cup ({a} \X T))
        BY <1>7, <2>4, <3>1, <3>2, DistancesExtended
      <3> QED
        BY <1>19, <1>9, <1>13, <2>2, <2>4, <2>10, <3>3 DEF In
    <2>6. /\ \A b \in In(dir) : new[b] = lev[b]
          /\ \A b \in T \ In(dir) : new[b] = d + 1
          /\ \A b \in In(dir) \cup T : new[b] \in Nat /\ new[b] <= d + 1
      <3>1. \A b \in In(dir) \cup T : new[b] = IF b \in In(dir) THEN lev[b] ELSE d + 1
        BY <2>4, <2>10 DEF Extended
      <3> QED
        BY <1>3, <2>3, <2>4, <3>1
    <2>7. Walked(new, dir)'
      <3>1. ASSUME NEW b \in Nodes' \ {Origin}, OnSide(dir, level'[b])
            PROVE  b \in In(dir) \cup T /\ level'[b] = Signed(dir, new[b])
        <4>1. CASE b \in Nodes
          <5>1. level'[b] = level[b]
            BY <1>8, <3>1, <4>1
          <5>2. b \in In(dir) /\ level[b] = Signed(dir, lev[b])
            BY <1>19, <2>1, <3>1, <4>1, <5>1 DEF Walked
          <5> QED
            BY <2>6, <5>1, <5>2
        <4>2. CASE b \notin Nodes
          <5>1. b \in T /\ b \notin In(dir) /\ level'[b] = Sign * (d + 1)
            BY <1>8, <2>4, <3>1, <4>2
          <5> QED
            BY <1>19, <1>15, <2>6, <5>1
        <4> QED
          BY <4>1, <4>2
      <3>2. \A b \in In(dir) \cup T : new[b] <= args.limits.depth
        BY <1>19, <1>1, <1>3, <2>2, <2>6
      <3>3. In(dir) \cup T \in SUBSET Nodes'
        BY <1>8, <2>4
      <3>4. Shown(edges, dir)' = R \cup ({a} \X T) /\ args' = args
        BY <1>9, <1>13, <1>19
      <3>5. Distances(new, Shown(edges, dir)')
        BY <2>5, <3>4
      <3> HIDE DEF R, T
      <3> QED
        BY <2>5, <3>1, <3>2, <3>3, <3>4, <3>5 DEF Walked
    <2>8. Going(new, dir)'
      <3>1. seen' \in SUBSET (In(dir) \cup T)
        BY <1>10, <2>2, <2>3
      <3>2. CASE q' = <<>> /\ Len(q') = 0 /\ Capped(Nodes')
        <4>1. Sorted(q')
          BY <3>2 DEF Sorted
        <4>2. ~(q' # <<>> \/ ~Capped(Nodes)')
          BY <1>19, <1>13, <3>2 DEF Capped
        <4>3. Waits(new, dir)'
          BY <4>2 DEF Waits
        <4> QED
          BY <2>5, <3>1, <3>2, <4>1, <4>3 DEF Going
      <3>3. CASE q' = Tail(q) \o more /\ n = Len(rows)
        <4>1. ASSUME NEW m \in 1..Len(more)
              PROVE  \E b \in T \ owner : more[m] = <<b, d + 1>> /\ d + 1 < args.limits.depth
          <5>1. PICK i \in 1..Len(rows) :
                  more[m] = <<rows[i], d + 1>> /\ d + 1 < args.limits.depth /\ rows[i] \notin owner
            BY <1>11, <4>1 DEF Queues
          <5>2. rows[i] \in T
            BY <3>3, <5>1 DEF T
          <5> QED
            BY <5>1, <5>2
        <4>2. ASSUME NEW b \in T \ owner, d + 1 < args.limits.depth
              PROVE  \E m \in 1..Len(more) : more[m] = <<b, d + 1>>
          <5>1. PICK i \in 1..Len(rows) : rows[i] = b
            BY <3>3, <4>2 DEF T
          <5> QED
            BY <1>11, <4>2, <5>1 DEF Queues
        <4>3. \A m \in 1..Len(more) : more[m][2] = q[1][2] + 1
          BY <4>1 DEF d
        <4>4. /\ Sorted(q') /\ q' \in Seq(Addr \X Nat)
              /\ \A i \in 1..Len(q') : \/ \E j \in 1..Len(q) : q'[i] = q[j]
                                      \/ \E m \in 1..Len(more) : q'[i] = more[m]
              /\ \A j \in 2..Len(q) : \E i \in 1..Len(q') : q'[i] = q[j]
              /\ \A m \in 1..Len(more) : \E i \in 1..Len(q') : q'[i] = more[m]
              /\ \A i \in 1..Len(q') : q'[i][2] >= d
          <5> DEFINE t == Tail(q) \o more
          <5>1. q' = t /\ d = q[1][2]
            BY <3>3 DEF d
          <5>2. /\ q \in Seq(Addr \X Nat) /\ q # <<>> /\ Sorted(q)
                /\ more \in Seq(Addr \X Nat)
            BY <1>1, <1>11, <2>3
          <5>3. /\ t \in Seq(Addr \X Nat) /\ Sorted(t)
                /\ \A i \in 1..Len(t) : \/ \E j \in 1..Len(q) : t[i] = q[j]
                                        \/ \E m \in 1..Len(more) : t[i] = more[m]
                /\ \A j \in 2..Len(q) : \E i \in 1..Len(t) : t[i] = q[j]
                /\ \A m \in 1..Len(more) : \E i \in 1..Len(t) : t[i] = more[m]
                /\ \A i \in 1..Len(t) : t[i][2] >= q[1][2]
            BY <4>3, <5>2, QueueAdvances
          <5> HIDE DEF t
          <5>4. Sorted(q')
            BY <5>1, <5>3
          <5> QED
            BY <5>1, <5>3, <5>4
        <4>5. ASSUME NEW i \in 1..Len(q')
              PROVE  /\ q'[i][1] \in In(dir) \cup T /\ Open(q'[i][1])
                     /\ new[q'[i][1]] <= q'[i][2] /\ q'[i][2] < args.limits.depth
          <5>1. CASE \E j \in 1..Len(q) : q'[i] = q[j]
            BY <2>3, <2>6, <5>1
          <5>2. CASE \E m \in 1..Len(more) : q'[i] = more[m]
            <6>1. PICK b \in T \ owner : q'[i] = <<b, d + 1>> /\ d + 1 < args.limits.depth
              BY <4>1, <5>2
            <6> QED
              BY <2>6, <6>1 DEF Open
          <5> QED
            BY <4>4, <5>1, <5>2
        <4>6. q' # <<>> => \A b \in In(dir) \cup T : new[b] <= q'[1][2] + 1
          <5> SUFFICES ASSUME q' # <<>>, NEW b \in In(dir) \cup T PROVE new[b] <= q'[1][2] + 1
            OBVIOUS
          <5>1. 1 \in 1..Len(q') /\ q'[1] \in Addr \X Nat
            BY <4>4, EmptySeq, ElementOfSeq
          <5>2. q'[1][2] >= d /\ q'[1][2] \in Nat
            BY <4>4, <5>1
          <5> QED
            BY <1>3, <2>6, <5>2
        <4>7. ASSUME NEW b \in (In(dir) \cup T) \ seen', Open(b), new[b] < args.limits.depth
              PROVE  \E i \in 1..Len(q') : q'[i] = <<b, new[b]>>
          <5>1. b \notin seen /\ b # a
            BY <1>10, <4>7
          <5>2. CASE b \in In(dir)
            <6>1. new[b] = lev[b] /\ lev[b] < args.limits.depth
              BY <2>6, <4>7, <5>2
            <6>2. PICK j \in 1..Len(q) : q[j] = <<b, lev[b]>>
              BY <2>3, <4>7, <5>1, <5>2, <6>1
            <6>3. j # 1
              BY <5>1, <6>2 DEF a
            <6>4. j \in 2..Len(q)
              BY <6>2, <6>3
            <6> QED
              BY <4>4, <6>1, <6>2, <6>4
          <5>3. CASE b \notin In(dir)
            <6>1. b \in T \ owner /\ new[b] = d + 1
              BY <2>4, <2>6, <4>7, <5>3 DEF Open
            <6> QED
              BY <4>2, <4>4, <4>7, <6>1
          <5> QED
            BY <5>2, <5>3
        <4>8. Waits(new, dir)'
          <5>1. /\ In(dir)' = In(dir) \cup T /\ args' = args
                /\ \A x : Open(x)' <=> Open(x)
            BY <1>13, <2>5 DEF Open
          <5> HIDE DEF T
          <5> SUFFICES ASSUME NEW b \in In(dir)' \ seen', Open(b)', new[b] < args'.limits.depth
                       PROVE  \E i \in 1..Len(q') : q'[i] = <<b, new[b]>>
            BY DEF Waits
          <5>2. b \in (In(dir) \cup T) \ seen' /\ Open(b) /\ new[b] < args.limits.depth
            BY <5>1
          <5> QED
            BY <4>7, <5>2
        <4>9. /\ In(dir)' = In(dir) \cup T /\ args' = args
              /\ \A x : Open(x)' <=> Open(x)
          BY <1>13, <2>5 DEF Open
        <4>10. /\ seen' \in SUBSET In(dir)'
               /\ q' # <<>> => \A b \in In(dir)' : new[b] <= q'[1][2] + 1
          BY <3>1, <4>6, <4>9
        <4>11. ASSUME NEW i \in 1..Len(q')
               PROVE  /\ q'[i][1] \in In(dir)' /\ Open(q[i][1])'
                      /\ new[q'[i][1]] <= q'[i][2] /\ q'[i][2] < args'.limits.depth
          <5>1. Open(q[i][1])' <=> Open(q'[i][1])
            BY <1>13 DEF Open
          <5>2. /\ q'[i][1] \in In(dir) \cup T /\ Open(q'[i][1])
                /\ new[q'[i][1]] <= q'[i][2] /\ q'[i][2] < args.limits.depth
            BY <4>5
          <5> HIDE DEF T
          <5> QED
            BY <4>9, <5>1, <5>2
        <4>12. Sorted(q)'
          BY <4>4 DEF Sorted
        <4> QED
          BY <4>8, <4>10, <4>11, <4>12 DEF Going
      <3> QED
        BY <1>12, <3>2, <3>3
    <2>9. Whole(new, dir)'
      <3> SUFFICES ASSUME Uncut', NEW p \in Steps(dir, flow),
                          p[1] \in In(dir) \cup T, Open(p[1]), new[p[1]] < args.limits.depth,
                          p[1] \in seen'
                   PROVE  p \in R \cup ({a} \X T)
        <4>1. /\ Shown(edges, dir)' = R \cup ({a} \X T)
              /\ In(dir)' = In(dir) \cup T /\ args' = args /\ walk' = dir
          BY <1>19, <1>9, <1>13, <2>5
        <4>2. /\ Steps(dir, flow)' = Steps(dir, flow)
              /\ \A x : Open(x)' <=> Open(x)
          BY <1>19, <1>13 DEF Steps, Open
        <4>3. Over(dir)' <=> Over(dir)
          BY <1>13
        <4> HIDE DEF R, T
        <4> SUFFICES ASSUME Uncut', NEW p \in Steps(dir, flow)',
                            p[1] \in In(dir)', Open(p[1])', new[p[1]] < args'.limits.depth,
                            walk' = dir => p[1] \in seen'
                     PROVE  p \in Shown(edges, dir)'
          BY DEF Whole
        <4> QED
          BY <4>1, <4>2
      <3>1. p \in Addr \X Addr /\ p = <<p[1], p[2]>> /\ p[2] \in Addr
        BY DEF Steps
      <3>2. CASE p[1] = a
        <4>1. size[a] = "few" /\ ~Full(rows) /\ ~Capped(Nodes')
          BY <1>14
        <4>2. PICK i \in 1..Len(rows) : rows[i] = p[2]
          BY <1>19, <1>4, <3>1, <3>2, <4>1
        <4>3. n = Len(rows)
          BY <1>6, <1>8, <1>13, <4>1 DEF Capped
        <4>4. p[2] \in T
          BY <4>2, <4>3 DEF T
        <4> QED
          BY <3>1, <3>2, <4>4
      <3>3. CASE p[1] # a
        <4>1. p[1] \in seen /\ p[1] \in In(dir)
          BY <1>10, <2>3, <3>3
        <4>2. lev[p[1]] < args.limits.depth
          BY <2>6, <4>1
        <4>3. p \in R
          BY <1>14, <1>19, <2>1, <4>1, <4>2 DEF Whole, R
        <4> QED
          BY <4>3
      <3> QED
        BY <3>2, <3>3
    <2> QED
      BY <1>19, <1>13, <2>7, <2>8, <2>9 DEF Pass
  <1> QED
    BY <1>1, <1>13, <1>16, <1>17, <1>18, <1>19 DEF TraceInv

LEMMA TracePreserved == TraceInv /\ [TraceNext]_traceVars => TraceInv'
  <1> SUFFICES ASSUME TraceInv, [TraceNext]_traceVars PROVE TraceInv'
    OBVIOUS
  <1>1. CASE TraceStart
    BY <1>1, StartStep
  <1>2. CASE TraceSkip
    BY <1>2, SkipStep
  <1>3. CASE TraceLeave
    BY <1>3, LeaveStep
  <1>4. CASE TraceExpand
    BY <1>4, ExpandStep
  <1>5. CASE TraceEndPass
    BY <1>5, EndPassStep
  <1>6. CASE UNCHANGED traceVars
    <2>1. /\ walk' = walk /\ args' = args /\ flow' = flow /\ size' = size /\ owner' = owner
          /\ level' = level /\ mark' = mark /\ edges' = edges /\ q' = q /\ seen' = seen
      BY <1>6 DEF traceVars, tables, graph
    <2>2. /\ Nodes' = Nodes /\ Passes' = Passes /\ \A d : In(d)' = In(d) /\ Shown(edges', d) = Shown(edges, d)
      BY <2>1 DEF Nodes, Passes, In
    <2>3. TraceTypes' /\ Once'
      BY <2>1, <2>2 DEF TraceInv, TraceTypes, Once
    <2>4. /\ \A d : Over(d)' <=> Over(d)
          /\ Uncut' <=> Uncut
          /\ Capped(Nodes)' <=> Capped(Nodes)
          /\ \A b : Open(b)' <=> Open(b)
          /\ \A d : Steps(d, flow)' = Steps(d, flow)
      BY <2>1, <2>2 DEF Over, Uncut, Capped, Open, Steps
    <2>5. ASSUME walk # "off", NEW dir \in Dir PROVE Pass(dir)'
      <3>1. PICK lev : Walked(lev, dir) /\ Going(lev, dir) /\ Whole(lev, dir)
        BY <2>5 DEF TraceInv, Pass
      <3>2. Walked(lev, dir)'
        BY <2>1, <2>2, <3>1 DEF Walked
      <3>3. Waits(lev, dir)' <=> Waits(lev, dir)
        BY <2>1, <2>2, <2>4 DEF Waits
      <3>4. Going(lev, dir)'
        BY <2>1, <2>2, <2>4, <3>1, <3>3 DEF Going
      <3>5. Whole(lev, dir)'
        BY <2>1, <2>2, <2>4, <3>1 DEF Whole
      <3> QED
        BY <3>2, <3>4, <3>5 DEF Pass
    <2> QED
      BY <2>1, <2>3, <2>5 DEF TraceInv
  <1> QED
    BY <1>1, <1>2, <1>3, <1>4, <1>5, <1>6 DEF TraceNext

\* No flow is reported twice in one direction, whatever the flows, the cluster,
\* the caps and the order of the rows: an address is taken from the queue once,
\* and both passes together list a flow under two directions.
THEOREM FlowsAreOnce == TraceSpec => []FlowsOnce
  <1>1. TraceInv => FlowsOnce
    <2> SUFFICES ASSUME TraceInv PROVE FlowsOnce
      OBVIOUS
    <2>1. DOMAIN edges = 1..Len(edges)
      BY LenProperties DEF TraceInv, TraceTypes
    <2> QED
      BY <2>1 DEF TraceInv, Once, FlowsOnce, IsInjective
  <1> QED
    BY <1>1, TraceInitial, TracePreserved, PTL DEF TraceSpec

\* The level of a node is its distance from the origin over the edges of its
\* side, at every moment of the walk and whatever cap cuts it.
THEOREM LevelsAreShortest == TraceSpec => []LevelsShortest
  <1>1. ASSUME TraceInv, walk # "off", NEW a \in Nodes \ {Origin}, NEW dir \in Dir,
               dir = IF level[a] > 0 THEN "out" ELSE "in", NEW hops,
               hops = IF level[a] > 0 THEN level[a] ELSE -level[a]
        PROVE  /\ a \in Ball(Reported(dir), args.limits.depth)[hops]
               /\ a \notin Ball(Reported(dir), args.limits.depth)[hops - 1]
    <2> DEFINE R == Reported(dir)
    <2>1. PICK lev : Walked(lev, dir)
      BY <1>1 DEF TraceInv, Pass
    <2>2. /\ level[a] \in Int /\ level[a] # 0 /\ args.limits.depth \in Nat \ {0}
          /\ edges \in Seq(EdgeSet)
      BY <1>1 DEF TraceInv, TraceTypes
    <2>3. R = Shown(edges, dir)
      BY <2>2, ReportedIsShown DEF Reported
    <2>4. OnSide(dir, level[a])
      BY <1>1, <2>2 DEF OnSide
    <2>5. a \in In(dir) /\ level[a] = Signed(dir, lev[a])
      BY <1>1, <2>1, <2>4 DEF Walked
    <2> HIDE DEF R
    <2>6. Distances(lev, R) /\ In(dir) = Reached(R) /\ R \in SUBSET (Addr \X Addr)
          /\ lev[a] <= args.limits.depth
      BY <2>1, <2>3, <2>5 DEF Walked, In, Shown
    <2>7. lev[a] \in Nat
      BY <2>5, <2>6 DEF Distances
    <2>8. hops = lev[a] /\ hops \in 1..args.limits.depth
      BY <1>1, <2>2, <2>5, <2>6, <2>7 DEF Signed
    <2>9. \A k \in 0..args.limits.depth :
            Ball(R, args.limits.depth)[k] = {b \in Reached(R) : lev[b] <= k}
      BY <2>2, <2>6, BallOfDistances
    <2>10. hops \in 0..args.limits.depth /\ hops - 1 \in 0..args.limits.depth /\ ~(lev[a] <= hops - 1)
      BY <2>2, <2>8
    <2>11. a \in Ball(R, args.limits.depth)[hops] /\ a \notin Ball(R, args.limits.depth)[hops - 1]
      BY <2>5, <2>6, <2>8, <2>9, <2>10
    <2> QED
      BY <2>11 DEF R
  <1>2. TraceInv => LevelsShortest
    <2>1. \A b \in Nodes : (IF level[b] > 0 THEN "out" ELSE "in") \in Dir
      BY DEF Dir
    <2> QED
      BY <1>1, <2>1 DEF LevelsShortest
  <1> QED
    BY <1>2, TraceInitial, TracePreserved, PTL DEF TraceSpec

\* A finished graph without a mark and below the node cap shows all flows the
\* walk could follow within its depth, where no address in it has more outputs
\* than the query reads.
THEOREM CutsAreAllReported == TraceSpec => []CutsAreReported
  <1>1. ASSUME TraceInv, Silent, \A a \in Nodes : size[a] = "few", NEW dir \in Passes,
               NEW open, open = {p \in Steps(dir, flow) : p[1] = Origin \/ p[1] \notin owner},
               NEW p \in open, p[1] \in Ball(open, args.limits.depth)[args.limits.depth - 1]
        PROVE  p \in Reported(dir)
    <2>1. walk = "done" /\ Uncut /\ dir \in Dir /\ Over(dir) /\ walk # dir
      BY <1>1 DEF Silent, Uncut, Over, Passes, TraceInv, TraceTypes, Dir
    <2>2. PICK lev : Walked(lev, dir) /\ Whole(lev, dir)
      BY <1>1, <2>1 DEF TraceInv, Pass
    <2>3. args.limits.depth \in Nat \ {0} /\ edges \in Seq(EdgeSet)
      BY <1>1, <2>1 DEF TraceInv, TraceTypes
    <2>4. Reported(dir) = Shown(edges, dir)
      BY <2>1, <2>3, ReportedIsShown DEF Reported
    <2> DEFINE R == Shown(edges, dir)
    <2>5. Distances(lev, R) /\ In(dir) = Reached(R)
      BY <2>2 DEF Walked, In
    <2>6. \A s \in open : s[1] \in In(dir) /\ lev[s[1]] < args.limits.depth => s \in R
      BY <1>1, <2>1, <2>2 DEF Whole, Open
    <2>7. open \in SUBSET (Addr \X Addr)
      BY <1>1 DEF Steps
    <2> HIDE DEF R
    <2>8. \A k \in 0..args.limits.depth : \A b \in Ball(open, args.limits.depth)[k] :
            b \in Reached(R) /\ lev[b] <= k
      BY <2>3, <2>5, <2>6, <2>7, BallWithin
    <2>9. p[1] \in Reached(R) /\ lev[p[1]] <= args.limits.depth - 1
      BY <1>1, <2>3, <2>8
    <2>10. lev[p[1]] \in Nat
      BY <2>5, <2>9 DEF Distances
    <2>11. p \in R
      BY <1>1, <2>3, <2>5, <2>6, <2>9, <2>10
    <2> QED
      BY <2>4, <2>11 DEF R
  <1>2. TraceInv => CutsAreReported
    BY <1>1 DEF CutsAreReported, Complete
  <1> QED
    BY <1>2, TraceInitial, TracePreserved, PTL DEF TraceSpec
=============================================================================
