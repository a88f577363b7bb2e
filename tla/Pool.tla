------------------------------- MODULE Pool -------------------------------
(***************************************************************************)
(* core/config.py and the tasks of core/runner.py: how large a process'    *)
(* connection pool is made, and what its workers and its monitor use the   *)
(* connections for.  The pool serves its waiting line in order (psycopg);  *)
(* writes need a permit of db_write_sem before they ask for a connection.  *)
(***************************************************************************)
EXTENDS Integers, Sequences, FiniteSets, SequencesExt

CONSTANTS MaxWorkers,   \* bounds the workers of the process
          Knobs         \* the settings tried

\* workers and processes as given or derived, the share of the server's
\* connections the probe allows, and DB_MAX_CONN and DB_WRITE_CONCURRENCY, 0 if unset.
ASSUME PoolAssumption ==
  /\ MaxWorkers \in Nat
  /\ Knobs \subseteq [workers : Nat, processes : Nat \ {0}, share : Nat, conn : Nat, write : Nat]

Larger(a, b) == IF a > b THEN a ELSE b
Smaller(a, b) == IF a < b THEN a ELSE b
Clamp(v, lo, hi) == Larger(lo, Smaller(hi, v))
CeilDiv(a, b) == (a + b - 1) \div b

\* Per process: workers, connections before the last adjustment, writers.
NumWorkers(k) == Larger(1, CeilDiv(k.workers, k.processes))
TotalConn(k) ==
  IF k.conn # 0 THEN k.conn
  ELSE Smaller(Clamp(CeilDiv(60 * k.workers, 100), 8, 128), Larger(8, k.share))
ConnShare(k) == Larger(2, CeilDiv(TotalConn(k), k.processes))
Writers(k) ==
  IF k.write # 0 THEN Larger(1, CeilDiv(k.write, k.processes))
  ELSE Clamp(ConnShare(k) \div 2, 1, Larger(1, ConnShare(k) - 1))

\* MUTANT: the pool is not grown to hold the writers.
PoolSizeUngrown(k) == ConnShare(k)
PoolSize(k) == Larger(ConnShare(k), Writers(k) + 2)

Worker == 1..MaxWorkers
Monitor == 0
Task == Worker \cup {Monitor}

VARIABLES
  knobs,    \* the settings, <<>> before the process has started
  place,    \* what a task does, or what it wants a connection for
  line,     \* the tasks waiting for a connection
  held      \* the tasks that have one

poolVars == <<knobs, place, line, held>>

Uses == {"claim", "write", "mark", "read"}
At(p) == {t \in Task : place[t] = p}

PoolInit ==
  /\ knobs = <<>>
  /\ place = [t \in Task |-> "off"]
  /\ line = <<>> /\ held = {}

PoolStart ==
  /\ knobs = <<>>
  /\ knobs' \in Knobs
  /\ place' = [t \in Task |-> IF t = Monitor \/ t <= NumWorkers(knobs') THEN "free" ELSE "off"]
  /\ UNCHANGED <<line, held>>

Running == knobs # <<>>
Ask(t, use) == place' = [place EXCEPT ![t] = use] /\ line' = Append(line, t)
Become(t, p) == place' = [place EXCEPT ![t] = p]

\* The pool hands a connection to the first in line.
Grant ==
  /\ line # <<>> /\ Cardinality(held) < PoolSize(knobs)
  /\ held' = held \cup {Head(line)}
  /\ line' = Tail(line)
  /\ UNCHANGED <<knobs, place>>

AskClaim(w) == Running /\ place[w] = "free" /\ Ask(w, "claim") /\ UNCHANGED <<knobs, held>>

\* A claim returns, with a batch or without.
EndClaim(w) ==
  /\ w \in held /\ place[w] = "claim"
  /\ held' = held \ {w}
  /\ \/ Become(w, "working") \/ Become(w, "free")
  /\ UNCHANGED <<knobs, line>>

\* The block is there: to be written, or to be marked as it has no rows or has failed.
Parsed(w) ==
  /\ place[w] = "working"
  /\ \/ Become(w, "blocked") /\ UNCHANGED line
     \/ Ask(w, "mark")
  /\ UNCHANGED <<knobs, held>>

\* MUTANT: a writer does not take a permit of the semaphore.
PermitAlways == TRUE
Permit == Cardinality(At("write")) < Writers(knobs)

AskWrite(w) ==
  /\ place[w] = "blocked" /\ Permit
  /\ Ask(w, "write")
  /\ UNCHANGED <<knobs, held>>

AfterError(w) == held \ {w}

\* The transaction ends and connection and permit are given back; after an
\* error the worker asks for another connection to mark the job failed.
EndWrite(w) ==
  /\ w \in held /\ place[w] = "write"
  /\ \/ /\ held' = held \ {w} /\ UNCHANGED line
        /\ \E p \in {"free", "working"} : Become(w, p)
     \/ held' = AfterError(w) /\ Ask(w, "mark")
  /\ UNCHANGED knobs

\* A mark ends; a block without rows is marked twice, and a mark that raised is
\* followed by the one for failure.
EndMark(w) ==
  /\ w \in held /\ place[w] = "mark"
  /\ held' = held \ {w}
  /\ \/ \E p \in {"free", "working"} : Become(w, p) /\ UNCHANGED line
     \/ Ask(w, "mark")
  /\ UNCHANGED knobs

AskRead ==
  /\ Running /\ place[Monitor] = "free"
  /\ Ask(Monitor, "read")
  /\ UNCHANGED <<knobs, held>>

EndRead ==
  /\ Monitor \in held
  /\ held' = held \ {Monitor}
  /\ Become(Monitor, "free")
  /\ UNCHANGED <<knobs, line>>

\* A task in line gives up after db_pool_timeout: a claim ends its worker, a
\* write or a first mark is marked failed, a job no mark gets through for is
\* left, the monitor tries again.
PoolTimeout(i) ==
  /\ LET t == line[i]
         rest == RemoveAt(line, i)
     IN  \/ place[t] = "claim" /\ Become(t, "dead") /\ line' = rest
         \/ place[t] \in {"write", "mark"} /\ Become(t, "mark") /\ line' = Append(rest, t)
         \/ /\ place[t] \in {"mark", "read"} /\ line' = rest
            /\ \E p \in {"free", "working"} : (t = Monitor => p = "free") /\ Become(t, p)
  /\ UNCHANGED <<knobs, held>>

WorkerUse(w) == AskClaim(w) \/ EndClaim(w) \/ Parsed(w) \/ AskWrite(w) \/ EndWrite(w) \/ EndMark(w)

PoolNext ==
  \/ PoolStart \/ Grant \/ AskRead \/ EndRead
  \/ \E w \in Worker : WorkerUse(w)
  \/ \E i \in 1..Len(line) : PoolTimeout(i)

PoolSpec == PoolInit /\ [][PoolNext]_poolVars

\* Short statements end and the pool hands out what it has.  Nothing is
\* assumed of writes, which may take for ever, nor of timeouts.
PoolFairness ==
  /\ WF_poolVars(Grant) /\ WF_poolVars(EndRead)
  /\ \A w \in Worker : WF_poolVars(EndClaim(w)) /\ WF_poolVars(EndMark(w))

-----------------------------------------------------------------------------
PoolTypeOK ==
  /\ knobs \in Knobs \cup {<<>>}
  /\ place \in [Task -> Uses \cup {"off", "free", "working", "blocked", "dead"}]
  /\ line \in Seq(Task) /\ held \subseteq Task

\* No task waits for a connection while it has one: the failure of a write is
\* marked after its connection is back (extract.py:218-225), so that tasks cannot
\* wait for one another in a circle.
NoHoldAndWait == \A i \in 1..Len(line) : line[i] \notin held

\* "The pool must hold every writer PLUS a spare connection" (config.py:142-147):
\* however the settings are split, two connections are never taken or awaited
\* by writers.
WritersLeaveRoom ==
  Running => Cardinality(At("write")) <= PoolSize(knobs) - 2

\* The monitor does not wait for a write to end: it is served, or gives up,
\* even if the writes under way never finish.
MonitorServed == Monitor \in ToSet(line) ~> Monitor \notin ToSet(line)
=============================================================================
