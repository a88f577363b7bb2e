--------------------------- MODULE RuntimeProofs ---------------------------
(***************************************************************************)
(* Proofs about what a phase runs with: the pool of connections for every  *)
(* setting and any number of workers (Pool), the retries of the RPC client *)
(* (Rpc) and the row locks of concurrent address scans (DeltaLocks).       *)
(***************************************************************************)
EXTENDS Pool, Rpc, DeltaLocks, FiniteSetTheorems, TLAPS

LEMMA CeilDivInt == ASSUME NEW x \in Int, NEW y \in Nat \ {0} PROVE CeilDiv(x, y) \in Int
  BY DEF CeilDiv

\* The last adjustment of load_config: whatever the settings, the pool has two
\* connections more than there are writers (config.py:147).
LEMMA Headroom ==
  ASSUME NEW k \in Knobs
  PROVE  /\ Writers(k) \in Nat /\ PoolSize(k) \in Int
         /\ Writers(k) + 2 <= PoolSize(k)
<1>1. /\ k.workers \in Nat /\ k.processes \in Nat \ {0} /\ k.share \in Nat
      /\ k.conn \in Nat /\ k.write \in Nat
  BY PoolAssumption
<1>2. CeilDiv(60 * k.workers, 100) \in Int
  BY <1>1, CeilDivInt
<1>3. TotalConn(k) \in Int
  BY <1>1, <1>2 DEF TotalConn, Clamp, Larger, Smaller
<1>4. ConnShare(k) \in Int
  BY <1>1, <1>3, CeilDivInt DEF ConnShare, Larger
<1>5. Writers(k) \in Nat
  <2>1. CeilDiv(k.write, k.processes) \in Int
    BY <1>1, CeilDivInt
  <2>2. ConnShare(k) \div 2 \in Int
    BY <1>4
  <2> QED BY <1>1, <1>4, <2>1, <2>2 DEF Writers, Clamp, Larger, Smaller
<1> QED BY <1>4, <1>5 DEF PoolSize, Larger

-----------------------------------------------------------------------------
\* The types of the pool's state, for every setting.
THEOREM PoolTypeCorrect == PoolSpec => []PoolTypeOK
<1>1. PoolInit => PoolTypeOK
  BY DEF PoolInit, PoolTypeOK
<1>2. PoolTypeOK /\ [PoolNext]_poolVars => PoolTypeOK'
  <2> SUFFICES ASSUME PoolTypeOK, [PoolNext]_poolVars PROVE PoolTypeOK'
    OBVIOUS
  <2> USE DEF PoolTypeOK, Uses
  <2>1. CASE PoolStart
    BY <2>1 DEF PoolStart
  <2>2. CASE Grant
    BY <2>2 DEF Grant
  <2>3. CASE AskRead
    BY <2>3 DEF AskRead, Ask, Task
  <2>4. CASE EndRead
    BY <2>4 DEF EndRead, Become
  <2>5. ASSUME NEW w \in Worker, WorkerUse(w) PROVE PoolTypeOK'
    <3>0. w \in Task
      BY DEF Task
    <3>1. CASE AskClaim(w)
      BY <3>0, <3>1 DEF AskClaim, Ask
    <3>2. CASE EndClaim(w)
      BY <3>0, <3>2 DEF EndClaim, Become
    <3>3. CASE Parsed(w)
      BY <3>0, <3>3 DEF Parsed, Become, Ask
    <3>4. CASE AskWrite(w)
      BY <3>0, <3>4 DEF AskWrite, Ask
    <3>5. CASE EndWrite(w)
      BY <3>0, <3>5 DEF EndWrite, AfterError, Become, Ask
    <3>6. CASE EndMark(w)
      BY <3>0, <3>6 DEF EndMark, Become, Ask
    <3> QED BY <2>5, <3>1, <3>2, <3>3, <3>4, <3>5, <3>6 DEF WorkerUse
  <2>6. ASSUME NEW i \in 1..Len(line), PoolTimeout(i) PROVE PoolTypeOK'
    <3>1. RemoveAt(line, i) \in Seq(Task) /\ line[i] \in Task
      BY DEF RemoveAt
    <3> DEFINE rest == RemoveAt(line, i)
    <3>2. line' \in {rest, Append(rest, line[i])}
      BY <2>6 DEF PoolTimeout
    <3>3. \E p \in {"dead", "mark", "free", "working"} : place' = [place EXCEPT ![line[i]] = p]
      BY <2>6 DEF PoolTimeout, Become
    <3>4. line' \in Seq(Task)
      BY <3>1, <3>2
    <3>5. UNCHANGED <<knobs, held>>
      BY <2>6 DEF PoolTimeout
    <3> QED BY <3>1, <3>3, <3>4, <3>5
  <2>7. CASE UNCHANGED poolVars
    BY <2>7 DEF poolVars
  <2> QED BY <2>1, <2>2, <2>3, <2>4, <2>5, <2>6, <2>7 DEF PoolNext
<1> QED BY <1>1, <1>2, PTL DEF PoolSpec

-----------------------------------------------------------------------------
\* The tasks with a permit of db_write_sem are no more than it has.
PermitsKept ==
  /\ Running => Cardinality(At("write")) <= Writers(knobs)
  /\ ~Running => line = <<>> /\ held = {} /\ \A t \in Task : place[t] = "off"

LEMMA KnobsAreRecords == <<>> \notin Knobs
  BY PoolAssumption

LEMMA AtFinite == \A p : IsFiniteSet(At(p))
<1>1. IsFiniteSet(Task)
  <2>1. IsFiniteSet(Worker)
    BY FS_Interval, PoolAssumption DEF Worker
  <2> QED BY <2>1, FS_AddElement DEF Task
<1>2. \A p : At(p) \subseteq Task
  BY DEF At
<1> QED BY <1>1, <1>2, FS_Subset

\* A step after which no other task writes keeps the permits.
LEMMA FewerWriters ==
  ASSUME PoolTypeOK, PermitsKept, Running, knobs' = knobs, At("write")' \subseteq At("write")
  PROVE  PermitsKept'
<1>1. knobs \in Knobs
  BY DEF PoolTypeOK, Running
<1>2. Cardinality(At("write")') <= Cardinality(At("write"))
  BY AtFinite, FS_Subset
<1>3. Cardinality(At("write")') \in Nat /\ Cardinality(At("write")) \in Nat
  BY AtFinite, FS_Subset, FS_CardinalityType
<1> QED BY <1>1, <1>2, <1>3, Headroom DEF PermitsKept, Running

\* No more writers than permits, and nothing before the process has started.
THEOREM PermitsInvariant == PoolSpec => []PermitsKept
<1>1. PoolInit => PermitsKept
  BY DEF PoolInit, PermitsKept, Running
<1>2. PoolTypeOK /\ PermitsKept /\ [PoolNext]_poolVars => PermitsKept'
  <2> SUFFICES ASSUME PoolTypeOK, PermitsKept, [PoolNext]_poolVars PROVE PermitsKept'
    OBVIOUS
  <2>1. CASE PoolStart
    <3>1. At("write")' = {}
      BY <2>1 DEF PoolStart, At
    <3>2. knobs' \in Knobs /\ knobs' # <<>>
      BY <2>1, KnobsAreRecords DEF PoolStart
    <3>3. Writers(knobs') \in Nat
      BY <3>2, Headroom
    <3> QED BY <3>1, <3>2, <3>3, FS_EmptySet DEF PermitsKept, Running
  <2>2. CASE Running /\ knobs' = knobs /\ At("write")' \subseteq At("write")
    BY <2>2, FewerWriters
  <2>3. CASE Grant
    <3>1. Running
      BY <2>3 DEF Grant, PermitsKept
    <3> QED BY <2>2, <2>3, <3>1 DEF Grant, At
  <2>4. CASE AskRead
    BY <2>2, <2>4 DEF AskRead, Ask, At, PoolTypeOK
  <2>5. CASE EndRead
    <3>1. Running
      BY <2>5 DEF EndRead, PermitsKept
    <3> QED BY <2>2, <2>5, <3>1 DEF EndRead, Become, At, PoolTypeOK
  <2>6. ASSUME NEW w \in Worker, WorkerUse(w) PROVE PermitsKept'
    <3>0. w \in Task
      BY DEF Task
    <3>1. Running
      BY <2>6, <3>0 DEF WorkerUse, AskClaim, EndClaim, Parsed, AskWrite, EndWrite, EndMark,
                        PermitsKept
    <3>2. CASE AskWrite(w)
      <4>1. knobs \in Knobs /\ knobs' = knobs
        BY <3>1, <3>2 DEF AskWrite, PoolTypeOK, Running
      <4>2. At("write")' = At("write") \cup {w}
        BY <3>0, <3>2 DEF AskWrite, Ask, At, PoolTypeOK
      <4>3. w \notin At("write")
        BY <3>2 DEF AskWrite, At
      <4>4. /\ Cardinality(At("write")') = Cardinality(At("write")) + 1
            /\ Cardinality(At("write")) \in Nat
        BY <4>2, <4>3, AtFinite, FS_AddElement, FS_CardinalityType
      <4>5. Cardinality(At("write")) < Writers(knobs)
        BY <3>2 DEF AskWrite, Permit
      <4> QED BY <3>1, <4>1, <4>4, <4>5, Headroom DEF PermitsKept, Running
    <3>3. CASE AskClaim(w) \/ EndClaim(w)
      BY <2>2, <3>1, <3>3 DEF AskClaim, EndClaim, Ask, Become, At, PoolTypeOK
    <3>4. CASE Parsed(w)
      BY <2>2, <3>1, <3>4 DEF Parsed, Ask, Become, At, PoolTypeOK
    <3>5. CASE EndWrite(w) \/ EndMark(w)
      BY <2>2, <3>1, <3>5 DEF EndWrite, EndMark, Ask, Become, At, PoolTypeOK
    <3> QED BY <2>6, <3>2, <3>3, <3>4, <3>5 DEF WorkerUse
  <2>7. ASSUME NEW i \in 1..Len(line), PoolTimeout(i) PROVE PermitsKept'
    <3>1. Running
      BY <2>7 DEF PermitsKept
    <3>2. line[i] \in Task
      BY <2>7 DEF PoolTypeOK
    <3> QED BY <2>2, <2>7, <3>1, <3>2 DEF PoolTimeout, Become, At, PoolTypeOK
  <2>8. CASE UNCHANGED poolVars
    BY <2>8 DEF poolVars, PermitsKept, Running, At
  <2> QED BY <2>1, <2>3, <2>4, <2>5, <2>6, <2>7, <2>8 DEF PoolNext
<1> QED BY <1>1, <1>2, PoolTypeCorrect, PTL DEF PoolSpec

\* "The pool must hold every writer PLUS a spare connection" (config.py:142): two
\* connections are never taken or awaited by writers, for every setting.
THEOREM RoomForMonitor == PoolSpec => []WritersLeaveRoom
<1>1. PoolTypeOK /\ PermitsKept => WritersLeaveRoom
  <2> SUFFICES ASSUME PoolTypeOK, PermitsKept, Running
               PROVE  Cardinality(At("write")) <= PoolSize(knobs) - 2
    BY DEF WritersLeaveRoom
  <2>1. knobs \in Knobs
    BY DEF PoolTypeOK, Running
  <2>2. Cardinality(At("write")) \in Nat
    BY AtFinite, FS_CardinalityType
  <2> QED BY <2>1, <2>2, Headroom DEF PermitsKept
<1> QED BY <1>1, PermitsInvariant, PoolTypeCorrect, PTL

-----------------------------------------------------------------------------
\* A task is in line once, or has a connection, only while it uses one.
LineInv ==
  /\ \A i \in 1..Len(line) : line[i] \notin held /\ place[line[i]] \in Uses
  /\ \A i, j \in 1..Len(line) : line[i] = line[j] => i = j
  /\ \A t \in held : place[t] \in Uses

\* A step of one task that leaves the line alone.
LEMMA LineKept ==
  ASSUME PoolTypeOK, LineInv, NEW t \in Task, NEW p, \A i \in 1..Len(line) : line[i] # t,
         place' = [place EXCEPT ![t] = p], line' = line,
         held' = held \ {t}
  PROVE  LineInv'
  BY DEF PoolTypeOK, LineInv

\* A step by which a task that is not in line joins it, with no connection.
LEMMA LineJoined ==
  ASSUME PoolTypeOK, LineInv, NEW t \in Task, NEW use \in Uses,
         \A i \in 1..Len(line) : line[i] # t,
         Ask(t, use), held' = held \ {t}
  PROVE  LineInv'
<1>1. /\ line' = Append(line, t) /\ line \in Seq(Task)
      /\ place' = [place EXCEPT ![t] = use] /\ place \in [Task -> Uses \cup {"off", "free", "working", "blocked", "dead"}]
  BY DEF Ask, PoolTypeOK
<1>2. Len(line') = Len(line) + 1 /\ line'[Len(line) + 1] = t
  BY <1>1
<1>3. \A i \in 1..Len(line) : line'[i] = line[i] /\ line[i] \in Task
  BY <1>1
<1>4. \A u \in Task : place'[u] = IF u = t THEN use ELSE place[u]
  BY <1>1
<1>5. held \subseteq Task
  BY DEF PoolTypeOK
<1> QED BY <1>1, <1>2, <1>3, <1>4, <1>5 DEF LineInv

\* A step by which a task gives up its place in line, or moves to its end.
LEMMA LineLeft ==
  ASSUME PoolTypeOK, LineInv, NEW i \in 1..Len(line), PoolTimeout(i)
  PROVE  LineInv'
<1> DEFINE t == line[i]
           rest == RemoveAt(line, i)
<1>1. line \in Seq(Task) /\ t \in Task /\ t \notin held /\ held \subseteq Task
  BY DEF PoolTypeOK, LineInv
<1>2. /\ rest \in Seq(Task) /\ Len(rest) = Len(line) - 1 /\ Len(line) \in Nat
      /\ \A j \in 1..Len(rest) : rest[j] = IF j < i THEN line[j] ELSE line[j + 1]
  <2> DEFINE front == SubSeq(line, 1, i - 1)
             back == SubSeq(line, i + 1, Len(line))
  <2>0. i \in Nat /\ 1 <= i /\ i <= Len(line) /\ Len(line) \in Nat
    BY <1>1
  <2>1. /\ front \in Seq(Task) /\ Len(front) = i - 1
        /\ \A j \in 1..(i - 1) : front[j] = line[j]
    BY <1>1, <2>0
  <2>2. /\ back \in Seq(Task) /\ Len(back) = Len(line) - i
        /\ \A j \in 1..(Len(line) - i) : back[j] = line[i + j]
    BY <1>1, <2>0
  <2>3. rest = front \o back
    BY DEF RemoveAt
  <2> HIDE DEF front, back, rest
  <2>4. rest \in Seq(Task) /\ Len(rest) = Len(line) - 1
    BY <2>0, <2>1, <2>2, <2>3
  <2>5. ASSUME NEW j \in 1..Len(rest) PROVE rest[j] = IF j < i THEN line[j] ELSE line[j + 1]
    <3>1. rest[j] = IF j <= Len(front) THEN front[j] ELSE back[j - Len(front)]
      BY <2>0, <2>1, <2>2, <2>3, <2>4
    <3>2. CASE j < i
      BY <2>0, <2>1, <3>1, <3>2
    <3>3. CASE ~(j < i)
      <4>1. j - (i - 1) \in 1..(Len(line) - i) /\ i + (j - (i - 1)) = j + 1
        BY <2>0, <2>4, <3>3
      <4>2. back[j - (i - 1)] = line[j + 1]
        BY <2>2, <4>1
      <4> QED BY <2>0, <2>1, <3>1, <3>3, <4>2
    <3> QED BY <3>2, <3>3
  <2> QED BY <2>0, <2>4, <2>5
<1>3. /\ \A j \in 1..Len(rest) : rest[j] # t /\ rest[j] \notin held /\ place[rest[j]] \in Uses
      /\ \A j, k \in 1..Len(rest) : rest[j] = rest[k] => j = k
  <2> DEFINE from(j) == IF j < i THEN j ELSE j + 1
  <2>1. \A j \in 1..Len(rest) : from(j) \in 1..Len(line) /\ from(j) # i /\ rest[j] = line[from(j)]
    BY <1>2
  <2>2. \A j, k \in 1..Len(rest) : from(j) = from(k) => j = k
    BY <1>2
  <2> HIDE DEF from, rest
  <2> QED BY <2>1, <2>2 DEF LineInv
<1>4. held' = held /\ \E p : place' = [place EXCEPT ![t] = p]
  BY DEF PoolTimeout, Become
<1>5. \A u \in Task \ {t} : place'[u] = place[u]
  BY <1>4 DEF PoolTypeOK
<1> HIDE DEF rest
<1>6. CASE line' = rest
  BY <1>1, <1>2, <1>3, <1>4, <1>5, <1>6 DEF LineInv
<1>7. CASE line' = Append(rest, t) /\ place'[t] = "mark"
  <2>1. /\ Len(line') = Len(rest) + 1 /\ line'[Len(rest) + 1] = t
        /\ \A j \in 1..Len(rest) : line'[j] = rest[j] /\ rest[j] \in Task
    BY <1>2, <1>7
  <2> QED BY <1>1, <1>2, <1>3, <1>4, <1>5, <1>7, <2>1 DEF LineInv, Uses
<1> QED BY <1>1, <1>6, <1>7 DEF PoolTimeout, Become, PoolTypeOK, rest

\* No task waits for a connection while it has one, for every setting.
THEOREM NeverHoldAndWait == PoolSpec => []NoHoldAndWait
<1>1. PoolInit => LineInv
  BY DEF PoolInit, LineInv
<1>2. PoolTypeOK /\ PermitsKept /\ LineInv /\ [PoolNext]_poolVars => LineInv'
  <2> SUFFICES ASSUME PoolTypeOK, PermitsKept, LineInv, [PoolNext]_poolVars PROVE LineInv'
    OBVIOUS
  <2>0. ASSUME NEW t \in Task, place[t] \notin Uses \/ t \in held
        PROVE  \A i \in 1..Len(line) : line[i] # t
    BY <2>0 DEF LineInv
  <2>1. CASE PoolStart
    BY <2>1 DEF PoolStart, PermitsKept, Running, LineInv
  <2>2. CASE Grant
    <3>1. line # <<>> /\ line \in Seq(Task)
      BY <2>2 DEF Grant, PoolTypeOK
    <3>2. /\ Len(line') = Len(line) - 1 /\ Len(line) \in Nat
          /\ \A i \in 1..Len(line') : line'[i] = line[i + 1]
          /\ Head(line) = line[1] /\ 1 \in 1..Len(line)
      BY <2>2, <3>1 DEF Grant
    <3> QED BY <2>2, <3>2 DEF Grant, LineInv
  <2>3. CASE AskRead
    <3>1. \A i \in 1..Len(line) : line[i] # Monitor
      BY <2>0, <2>3 DEF AskRead, Task, Uses
    <3>2. held = held \ {Monitor}
      BY <2>3 DEF AskRead, LineInv, Uses
    <3> QED BY <2>3, <3>1, <3>2, LineJoined DEF AskRead, Task, Uses
  <2>4. CASE EndRead
    <3>1. \A i \in 1..Len(line) : line[i] # Monitor
      BY <2>0, <2>4 DEF EndRead, Task
    <3> QED BY <2>4, <3>1, LineKept DEF EndRead, Become, Task
  <2>5. ASSUME NEW w \in Worker, WorkerUse(w) PROVE LineInv'
    <3>0. w \in Task
      BY DEF Task
    <3>1. \A i \in 1..Len(line) : line[i] # w
      BY <2>0, <2>5, <3>0 DEF WorkerUse, AskClaim, EndClaim, Parsed, AskWrite, EndWrite, EndMark, Uses
    <3>2. held' = held \ {w}
      BY <2>5 DEF WorkerUse, AskClaim, EndClaim, Parsed, AskWrite, EndWrite, EndMark, AfterError,
                  LineInv, Uses
    <3>3. \/ \E use \in Uses : Ask(w, use)
          \/ \E p : Become(w, p) /\ UNCHANGED line
      BY <2>5 DEF WorkerUse, AskClaim, EndClaim, Parsed, AskWrite, EndWrite, EndMark, Uses
    <3> QED BY <3>0, <3>1, <3>2, <3>3, LineJoined, LineKept DEF Become
  <2>6. ASSUME NEW i \in 1..Len(line), PoolTimeout(i) PROVE LineInv'
    BY <2>6, LineLeft
  <2>7. CASE UNCHANGED poolVars
    BY <2>7 DEF poolVars, LineInv
  <2> QED BY <2>1, <2>2, <2>3, <2>4, <2>5, <2>6, <2>7 DEF PoolNext
<1>3. LineInv => NoHoldAndWait
  BY DEF LineInv, NoHoldAndWait
<1> QED BY <1>1, <1>2, <1>3, PoolTypeCorrect, PermitsInvariant, PTL DEF PoolSpec

-----------------------------------------------------------------------------
(* The RPC client (Rpc). *)

\* The attempt with a number comes after as many lost ones, one more when it is
\* lost itself; only a call that lost all of its attempts is given up.
Attempts ==
  /\ asking \in [Fetcher -> Asking \cup {"idle", "got3", "got2", "failed", "cancelled"}]
  /\ turn \in [Fetcher -> {"none", "waiting", "calling", "sleeping"}]
  /\ attempt \in [Fetcher -> Nat] /\ trouble \in [Fetcher -> Nat]
  /\ \A t \in Fetcher :
       /\ trouble[t] >= attempt[t]
       /\ turn[t] = "sleeping" => trouble[t] >= attempt[t] + 1
       /\ asking[t] \in {"v2", "got2", "failed"} => trouble[t] >= Retries

LEMMA AttemptsCallFor ==
  ASSUME Attempts, NEW t \in Fetcher, NEW s \in Asking, NEW n \in Nat, CallFor(t, s, n),
         trouble' \in [Fetcher -> Nat], \A u \in Fetcher \ {t} : trouble'[u] = trouble[u],
         trouble'[t] >= n, s = "v2" => trouble'[t] >= Retries
  PROVE  Attempts'
  <1>1. /\ asking' = [asking EXCEPT ![t] = s] /\ attempt' = [attempt EXCEPT ![t] = n]
        /\ turn' = [turn EXCEPT ![t] = "waiting"]
    BY DEF CallFor
  <1> QED
    BY <1>1 DEF Attempts, Asking

LEMMA AttemptsEndFetch ==
  ASSUME Attempts, NEW t \in Fetcher, NEW s \in {"got3", "got2", "failed"}, EndFetch(t, s),
         trouble' \in [Fetcher -> Nat], \A u \in Fetcher \ {t} : trouble'[u] = trouble[u],
         s # "got3" => trouble'[t] >= Retries
  PROVE  Attempts'
  <1>1. /\ asking' = [asking EXCEPT ![t] = s] /\ attempt' = [attempt EXCEPT ![t] = 0]
        /\ turn' = [turn EXCEPT ![t] = "none"]
    BY DEF EndFetch
  <1> QED
    BY <1>1 DEF Attempts, Asking

LEMMA AttemptsAnswer == ASSUME Attempts, NEW t \in Fetcher, Answer(t) PROVE Attempts'
  <1>1. trouble' = trouble
    BY DEF Answer
  <1>2. CASE asking[t] = "hash"
    <2>1. CallFor(t, "v3", 0)
      BY <1>2 DEF Answer
    <2> QED
      BY <1>1, <2>1, AttemptsCallFor DEF Attempts, Asking
  <1>3. CASE asking[t] = "v3"
    <2>1. EndFetch(t, "got3")
      BY <1>3 DEF Answer
    <2> QED
      BY <1>1, <2>1, AttemptsEndFetch DEF Attempts
  <1>4. CASE asking[t] = "v2"
    <2>1. EndFetch(t, "got2")
      BY <1>4 DEF Answer
    <2> QED
      BY <1>1, <1>4, <2>1, AttemptsEndFetch DEF Attempts
  <1> QED
    BY <1>2, <1>3, <1>4 DEF Answer

LEMMA AttemptsCallFails == ASSUME Attempts, NEW t \in Fetcher, CallFails(t) PROVE Attempts'
  <1>1. PICK kind \in {"error", "timeout", "other"} :
          /\ trouble' = [trouble EXCEPT ![t] = @ + IF kind = "other" THEN Retries ELSE 1]
          /\ IF Retried(t, kind)
             THEN turn' = [turn EXCEPT ![t] = "sleeping"] /\ UNCHANGED <<asking, attempt>>
             ELSE GiveUp(t)
    BY DEF CallFails
  <1>2. /\ trouble' \in [Fetcher -> Nat] /\ \A u \in Fetcher \ {t} : trouble'[u] = trouble[u]
        /\ trouble'[t] >= trouble[t] + 1
        /\ kind = "other" => trouble'[t] >= Retries
    BY <1>1 DEF Attempts, Retries
  <1>3. CASE Retried(t, kind)
    BY <1>1, <1>2, <1>3 DEF Attempts, Retries
  <1>4. CASE ~Retried(t, kind)
    <2>1. trouble'[t] >= Retries
      BY <1>2, <1>4 DEF Retried, Attempts, Retries
    <2>2. CallFor(t, "v2", 0) \/ EndFetch(t, "failed")
      BY <1>1, <1>4 DEF GiveUp
    <2> QED
      BY <1>2, <2>1, <2>2, AttemptsCallFor, AttemptsEndFetch DEF Attempts, Asking
  <1> QED
    BY <1>3, <1>4

LEMMA AttemptsStep == ASSUME Attempts, [RpcNext]_rpcVars PROVE Attempts'
  <1>1. CASE Admit
    BY <1>1 DEF Admit, Attempts
  <1>2. ASSUME NEW t \in Fetcher, BeginFetch(t) PROVE Attempts'
    BY <1>2, AttemptsCallFor DEF BeginFetch, Attempts, Asking
  <1>3. ASSUME NEW t \in Fetcher, Wake(t) PROVE Attempts'
    <2>1. trouble' = trouble /\ turn' = [turn EXCEPT ![t] = "waiting"]
          /\ asking' = asking /\ attempt' = [attempt EXCEPT ![t] = @ + 1] /\ turn[t] = "sleeping"
      BY <1>3 DEF Wake, CallFor, Attempts
    <2> QED
      BY <2>1 DEF Attempts
  <1>4. ASSUME NEW t \in Fetcher, CancelFetch(t) PROVE Attempts'
    BY <1>4 DEF CancelFetch, Attempts
  <1>5. CASE UNCHANGED rpcVars
    BY <1>5 DEF rpcVars, Attempts
  <1> QED
    BY <1>1, <1>2, <1>3, <1>4, <1>5, AttemptsAnswer, AttemptsCallFails DEF RpcNext, CallEnds

\* A fetch falls back to verbosity 2, or fails, only after a call of it lost all
\* three of its attempts or met what with_retry does not retry (rpc.py:16-40,
\* 82-90), for any number of tasks and places in the semaphore.
THEOREM TransientErrorsMasked == RpcSpec => []TransientMasked
  <1>1. RpcInit => Attempts
    BY DEF RpcInit, Attempts, Asking
  <1>2. Attempts /\ [RpcNext]_rpcVars => Attempts'
    BY AttemptsStep
  <1>3. Attempts => TransientMasked
    BY DEF Attempts, TransientMasked
  <1> QED
    BY <1>1, <1>2, <1>3, PTL DEF RpcSpec

-----------------------------------------------------------------------------
(* The rows of the watched addresses (DeltaLocks). *)

LEMMA MinIs == ASSUME NEW S \in SUBSET Nat, NEW m \in S, \A x \in S : m <= x PROVE Min(S) = m
  <1>1. Min(S) \in S /\ \A x \in S : Min(S) <= x
    BY DEF Min
  <1>2. Min(S) \in Nat /\ m \in Nat
    BY <1>1
  <1>3. Min(S) <= m /\ m <= Min(S)
    BY <1>1
  <1> QED
    BY <1>2, <1>3

LEMMA MaxIs == ASSUME NEW S \in SUBSET Nat, NEW m \in S, \A x \in S : x <= m PROVE Max(S) = m
  <1>1. Max(S) \in S /\ \A x \in S : x <= Max(S)
    BY DEF Max
  <1>2. Max(S) \in Nat /\ m \in Nat
    BY <1>1
  <1>3. Max(S) <= m /\ m <= Max(S)
    BY <1>1
  <1> QED
    BY <1>2, <1>3

\* The blocks whose scan is done and that touch the address.
DoneOn(a) == {h \in Delta : scan[h] = "done" /\ a \in Touches[h]}

\* The recorded times are the least and the greatest of these blocks, and the
\* recorded height is the greatest: stated without Min and Max.
Shows(a) ==
  IF DoneOn(a) = {}
  THEN watched[a] = [first_seen |-> {}, last_seen |-> {}, last_scanned |-> 0]
  ELSE \E f, l, n \in DoneOn(a) :
         /\ \A h \in DoneOn(a) : /\ BlockTime[f] <= BlockTime[h]
                                 /\ BlockTime[h] <= BlockTime[l] /\ h <= n
         /\ watched[a] = [first_seen |-> {BlockTime[f]}, last_seen |-> {BlockTime[l]},
                          last_scanned |-> n]

\* A block holds and waits for rows it touches, and only while it is scanned.
LockInv ==
  /\ scan \in [Delta -> {"todo", "running", "done", "failed"}]
  /\ locks \in [Delta -> SUBSET Watched] /\ blocked \in [Delta -> SUBSET Watched]
  /\ DOMAIN watched = Watched
  /\ \A h \in Delta : /\ locks[h] \subseteq Touches[h]
                      /\ blocked[h] \subseteq Left(h)
                      /\ scan[h] # "running" => blocked[h] = {}
  /\ \A a \in Watched : Shows(a)

LEMMA LockInvKept ==
  ASSUME LockInv, watched' = watched,
         scan' \in [Delta -> {"todo", "running", "done", "failed"}],
         \A h \in Delta : scan'[h] = "done" <=> scan[h] = "done"
  PROVE  \A a \in Watched : Shows(a)'
  <1>1. \A a \in Watched : DoneOn(a)' = DoneOn(a)
    BY DEF DoneOn
  <1> QED
    BY <1>1 DEF LockInv, Shows

LEMMA LockInvCommit == ASSUME LockInv, NEW h \in Delta, CommitDelta(h) PROVE LockInv'
  <1>1. /\ scan[h] = "running" /\ locks[h] = Touches[h] /\ blocked[h] = {}
        /\ scan' = [scan EXCEPT ![h] = "done"] /\ locks' = [locks EXCEPT ![h] = {}]
        /\ blocked' = blocked
        /\ watched' = [a \in Watched |-> IF a \in Touches[h] THEN Sighted(watched[a], h) ELSE watched[a]]
    BY DEF CommitDelta, LockInv, Left
  <1>2. ASSUME NEW a \in Watched PROVE Shows(a)'
    <2>1. BlockTime \in [Delta -> Nat] /\ Delta \subseteq Nat
      BY DeltaAssumption
    <2>2. CASE a \notin Touches[h]
      <3>1. DoneOn(a)' = DoneOn(a) /\ watched'[a] = watched[a]
        BY <1>1, <2>2 DEF DoneOn, LockInv
      <3> QED
        BY <3>1 DEF LockInv, Shows
    <2>3. CASE a \in Touches[h]
      <3>1. DoneOn(a)' = DoneOn(a) \cup {h} /\ watched'[a] = Sighted(watched[a], h)
        BY <1>1, <2>3 DEF DoneOn, LockInv
      <3>2. CASE DoneOn(a) = {}
        <4>1. watched[a] = [first_seen |-> {}, last_seen |-> {}, last_scanned |-> 0]
          BY <3>2 DEF LockInv, Shows
        <4>2. Min({} \cup {BlockTime[h]}) = BlockTime[h] /\ Max({} \cup {BlockTime[h]}) = BlockTime[h]
              /\ Max({0, h}) = h
          BY <2>1, MinIs, MaxIs
        <4> QED
          BY <2>1, <3>1, <3>2, <4>1, <4>2 DEF Shows, Sighted
      <3>3. CASE DoneOn(a) # {}
        <4>1. PICK f, l, n \in DoneOn(a) :
                /\ \A k \in DoneOn(a) : /\ BlockTime[f] <= BlockTime[k]
                                        /\ BlockTime[k] <= BlockTime[l] /\ k <= n
                /\ watched[a] = [first_seen |-> {BlockTime[f]}, last_seen |-> {BlockTime[l]},
                                 last_scanned |-> n]
          BY <3>3 DEF LockInv, Shows
        <4>2. DoneOn(a) \subseteq Delta
          BY DEF DoneOn
        <4> DEFINE f2 == IF BlockTime[f] <= BlockTime[h] THEN f ELSE h
                   l2 == IF BlockTime[h] <= BlockTime[l] THEN l ELSE h
                   n2 == IF h <= n THEN n ELSE h
        <4>3. /\ BlockTime[f] \in Nat /\ BlockTime[l] \in Nat /\ BlockTime[h] \in Nat
              /\ n \in Nat /\ h \in Nat
          BY <2>1, <4>2
        <4>4. Min({BlockTime[f]} \cup {BlockTime[h]}) = BlockTime[f2]
          BY <4>3, MinIs
        <4>5. Max({BlockTime[l]} \cup {BlockTime[h]}) = BlockTime[l2]
          BY <4>3, MaxIs
        <4>6. Max({n, h}) = n2
          BY <4>3, MaxIs
        <4> HIDE DEF f2, l2, n2
        <4>7. watched'[a] = [first_seen |-> {BlockTime[f2]}, last_seen |-> {BlockTime[l2]},
                             last_scanned |-> n2]
          <5>1. /\ watched[a].first_seen = {BlockTime[f]} /\ watched[a].last_seen = {BlockTime[l]}
                /\ watched[a].last_scanned = n
            BY <4>1
          <5> QED
            BY <3>1, <4>4, <4>5, <4>6, <5>1 DEF Sighted
        <4>8. f2 \in DoneOn(a)' /\ l2 \in DoneOn(a)' /\ n2 \in DoneOn(a)'
          BY <3>1 DEF f2, l2, n2
        <4>9. \A k \in DoneOn(a)' : /\ BlockTime[f2] <= BlockTime[k]
                                    /\ BlockTime[k] <= BlockTime[l2] /\ k <= n2
          <5>1. ASSUME NEW k \in DoneOn(a)
                PROVE  /\ BlockTime[f2] <= BlockTime[k]
                       /\ BlockTime[k] <= BlockTime[l2] /\ k <= n2
            <6>1. BlockTime[k] \in Nat /\ k \in Nat
              BY <2>1, <4>2
            <6> QED
              BY <4>1, <4>3, <6>1 DEF f2, l2, n2
          <5>2. /\ BlockTime[f2] <= BlockTime[h]
                /\ BlockTime[h] <= BlockTime[l2] /\ h <= n2
            BY <4>3 DEF f2, l2, n2
          <5> QED
            BY <3>1, <5>1, <5>2
        <4> QED
          BY <3>1, <4>7, <4>8, <4>9 DEF Shows
      <3> QED
        BY <3>2, <3>3
    <2> QED
      BY <2>2, <2>3
  <1> QED
    BY <1>1, <1>2 DEF LockInv, Left

LEMMA LockInvStep == ASSUME LockInv, [LocksNext]_lockVars PROVE LockInv'
  <1>1. ASSUME NEW h \in Delta, BeginDelta(h) PROVE LockInv'
    BY <1>1, LockInvKept DEF BeginDelta, LockInv, Left
  <1>2. ASSUME NEW h \in Delta, LockRow(h) PROVE LockInv'
    <2>1. PICK a \in NextRow(h) : locks' = [locks EXCEPT ![h] = @ \cup {a}]
      BY <1>2 DEF LockRow
    <2>2. a \in Touches[h] /\ a \in Watched
      BY <2>1, DeltaAssumption DEF NextRow, Left, LockInv
    <2> QED
      BY <1>2, <2>1, <2>2, LockInvKept DEF LockRow, LockInv, Left
  <1>3. ASSUME NEW h \in Delta, WaitForRow(h) PROVE LockInv'
    <2>1. PICK a \in NextRow(h) : blocked' = [blocked EXCEPT ![h] = {a}]
      BY <1>3 DEF WaitForRow
    <2>2. a \in Left(h) /\ a \in Watched
      BY <1>3, <2>1, DeltaAssumption DEF WaitForRow, NextRow, Left
    <2> QED
      BY <1>3, <2>1, <2>2, LockInvKept DEF WaitForRow, LockInv, Left
  <1>4. ASSUME NEW h \in Delta, RollBack(h), scan[h] = "running" PROVE LockInv'
    BY <1>4, LockInvKept DEF RollBack, Release, LockInv, Left
  <1>5. ASSUME NEW h \in Delta, DetectDeadlock(h) PROVE scan[h] = "running" /\ RollBack(h)
    BY <1>5 DEF DetectDeadlock, Deadlocked, LockInv
  <1>6. CASE UNCHANGED lockVars
    BY <1>6, LockInvKept DEF lockVars, LockInv, Left
  <1> QED
    BY <1>1, <1>2, <1>3, <1>4, <1>5, <1>6, LockInvCommit DEF LocksNext, DeltaStep, AbortDelta

\* The least and the greatest time and the greatest height of the blocks that
\* are done are what Min and Max say they are.
LEMMA ShowsRows ==
  ASSUME NEW a \in Watched, Shows(a)
  PROVE  LET times == {BlockTime[h] : h \in DoneOn(a)}
         IN  watched[a] = IF DoneOn(a) = {}
                          THEN [first_seen |-> {}, last_seen |-> {}, last_scanned |-> 0]
                          ELSE [first_seen |-> {Min(times)}, last_seen |-> {Max(times)},
                                last_scanned |-> Max(DoneOn(a) \cup {0})]
  <1> DEFINE times == {BlockTime[h] : h \in DoneOn(a)}
  <1>1. CASE DoneOn(a) = {}
    BY <1>1 DEF Shows
  <1>2. CASE DoneOn(a) # {}
    <2>1. PICK f, l, n \in DoneOn(a) :
            /\ \A k \in DoneOn(a) : /\ BlockTime[f] <= BlockTime[k]
                                    /\ BlockTime[k] <= BlockTime[l] /\ k <= n
            /\ watched[a] = [first_seen |-> {BlockTime[f]}, last_seen |-> {BlockTime[l]},
                             last_scanned |-> n]
      BY <1>2 DEF Shows
    <2>2. DoneOn(a) \subseteq Nat /\ times \subseteq Nat
      BY DeltaAssumption DEF DoneOn
    <2>3. BlockTime[f] \in times /\ BlockTime[l] \in times
      OBVIOUS
    <2>4. \A x \in times : BlockTime[f] <= x /\ x <= BlockTime[l]
      BY <2>1
    <2>5. Min(times) = BlockTime[f] /\ Max(times) = BlockTime[l]
      <3> HIDE DEF times
      <3> QED
        BY <2>2, <2>3, <2>4, MinIs, MaxIs
    <2>6. Max(DoneOn(a) \cup {0}) = n
      <3>1. \A x \in DoneOn(a) \cup {0} : x <= n
        BY <2>1, <2>2
      <3> QED
        BY <2>2, <3>1, MaxIs
    <2> QED
      BY <1>2, <2>1, <2>5, <2>6
  <1> QED
    BY <1>1, <1>2

\* The rows show exactly the blocks whose delta is committed, in whatever order
\* they locked, waited, deadlocked and were rolled back (address_scans.py:84-104,
\* 144-169), for any blocks, addresses and block times.
THEOREM RowsAreExact == LocksSpec => []RowsShowDone
  <1>1. LocksInit => LockInv
    BY DEF LocksInit, LockInv, Shows, DoneOn, Left
  <1>2. LockInv /\ [LocksNext]_lockVars => LockInv'
    BY LockInvStep
  <1>3. LockInv => RowsShowDone
    BY ShowsRows DEF LockInv, RowsShowDone, DoneOn
  <1> QED
    BY <1>1, <1>2, <1>3, PTL DEF LocksSpec
=============================================================================
