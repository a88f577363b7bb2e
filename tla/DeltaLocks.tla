----------------------------- MODULE DeltaLocks -----------------------------
(***************************************************************************)
(* The UPDATE of _DELTA_SQL (phases/address_scans.py, and the same in      *)
(* scripts/02_address_scans.py) run for several blocks at once: it locks   *)
(* the rows of the watched addresses a block touches one by one and holds  *)
(* them to the end of its transaction.  The CTE `locked`, which would lock *)
(* them in the order of the address, is referenced by nothing, so          *)
(* PostgreSQL does not evaluate it, and the UPDATE locks in the order of   *)
(* its plan, which may be any.  Of the row, this module has the columns    *)
(* AddressScan leaves out; sums are there.                                 *)
(***************************************************************************)
EXTENDS Integers, FiniteSets, FiniteSetsExt

CONSTANTS Delta,      \* the blocks being scanned, as heights
          Watched,    \* the watched addresses
          Touches,    \* those that a block touches
          BlockTime   \* block times; not always later in later blocks

ASSUME DeltaAssumption ==
  /\ Delta \subseteq Nat /\ IsFiniteSet(Delta)
  /\ Touches \in [Delta -> SUBSET Watched]
  /\ BlockTime \in [Delta -> Nat]

VARIABLES
  scan,      \* "todo", "running", or how the delta of a block has ended
  locks,     \* the rows it has locked and written, not yet committed
  blocked,   \* the row it waits for, {} if none
  watched    \* the committed rows

lockVars == <<scan, locks, blocked, watched>>

LocksInit ==
  /\ scan = [h \in Delta |-> "todo"]
  /\ locks = [h \in Delta |-> {}]
  /\ blocked = [h \in Delta |-> {}]
  /\ watched = [a \in Watched |-> [first_seen |-> {}, last_seen |-> {}, last_scanned |-> 0]]

Owns(a) == {h \in Delta : a \in locks[h]}
Left(h) == Touches[h] \ locks[h]

\* Several heights at once: the workers of all processes, and in the legacy
\* script all heights of a batch.
BeginDelta(h) ==
  /\ scan[h] = "todo"
  /\ scan' = [scan EXCEPT ![h] = "running"]
  /\ UNCHANGED <<locks, blocked, watched>>

\* The rows the plan may come to next; a blocked UPDATE stays where it is.
NextRow(h) == IF blocked[h] # {} THEN blocked[h] ELSE Left(h)

\* After a wait READ COMMITTED reads the row again, as the other has left it.
LockRow(h) ==
  /\ scan[h] = "running"
  /\ \E a \in NextRow(h) :
       /\ Owns(a) = {}
       /\ locks' = [locks EXCEPT ![h] = @ \cup {a}]
  /\ blocked' = [blocked EXCEPT ![h] = {}]
  /\ UNCHANGED <<scan, watched>>

WaitForRow(h) ==
  /\ scan[h] = "running" /\ blocked[h] = {}
  /\ \E a \in NextRow(h) : Owns(a) # {} /\ blocked' = [blocked EXCEPT ![h] = {a}]
  /\ UNCHANGED <<scan, locks, watched>>

\* MUTANT: the height and time scanned last, not the greatest.
SightedLast(r, h) ==
  [first_seen   |-> {Min(r.first_seen \cup {BlockTime[h]})},
   last_seen    |-> {BlockTime[h]},
   last_scanned |-> h]

\* The SET list: LEAST, GREATEST, with NULL, the empty set, as no time.
Sighted(r, h) ==
  [first_seen   |-> {Min(r.first_seen \cup {BlockTime[h]})},
   last_seen    |-> {Max(r.last_seen \cup {BlockTime[h]})},
   last_scanned |-> Max({r.last_scanned, h})]

\* MUTANT: a transaction that failed keeps its locks.
ReleaseKept(h) == locks
Release(h) == [locks EXCEPT ![h] = {}]

\* The transaction commits, the status of the block with it.
CommitDelta(h) ==
  /\ scan[h] = "running" /\ Left(h) = {}
  /\ watched' = [a \in Watched |-> IF a \in locks[h] THEN Sighted(watched[a], h) ELSE watched[a]]
  /\ scan' = [scan EXCEPT ![h] = "done"]
  /\ locks' = [locks EXCEPT ![h] = {}]
  /\ UNCHANGED blocked

\* The transaction is rolled back and the except block marks the height failed.
RollBack(h) ==
  /\ scan' = [scan EXCEPT ![h] = "failed"]
  /\ locks' = Release(h)
  /\ blocked' = [blocked EXCEPT ![h] = {}]
  /\ UNCHANGED watched

AbortDelta(h) ==
  /\ scan[h] = "running"
  /\ RollBack(h)

\* Blocks each of which waits for a row of another of them, in a circle.
Circle(C) == C # {} /\ {h \in Delta : \E k \in C : blocked[k] \subseteq locks[h]} = C
Deadlocked(h) == \E C \in SUBSET {k \in Delta : blocked[k] # {}} : h \in C /\ Circle(C)

\* deadlock_timeout: the server ends one of the circle.
DetectDeadlock(h) ==
  /\ Deadlocked(h)
  /\ RollBack(h)

DeltaStep(h) == LockRow(h) \/ WaitForRow(h) \/ CommitDelta(h) \/ DetectDeadlock(h)

LocksNext == \E h \in Delta : BeginDelta(h) \/ DeltaStep(h) \/ AbortDelta(h)

\* Statements go on where they can, and the server looks for deadlocks.
LocksFairness == \A h \in Delta : WF_lockVars(DeltaStep(h))

LocksSpec == LocksInit /\ [][LocksNext]_lockVars /\ LocksFairness

-----------------------------------------------------------------------------
\* Every delta ends, though no order of the locks is kept: those in a circle
\* wait only until the server has ended one of them, and that one gives its
\* rows back (address_scans.py:84-90, 144-169).
DeltasEnd == \A h \in Delta : []<>(scan[h] # "running")

\* The rows show exactly the blocks that are done, whole, in whichever order
\* they came and whoever was ended in between (address_scans.py:91-104).
RowsShowDone ==
  \A a \in Watched :
    LET H == {h \in Delta : scan[h] = "done" /\ a \in Touches[h]}
        times == {BlockTime[h] : h \in H}
    IN  watched[a] = IF H = {} THEN [first_seen |-> {}, last_seen |-> {}, last_scanned |-> 0]
                     ELSE [first_seen |-> {Min(times)}, last_seen |-> {Max(times)},
                           last_scanned |-> Max(H \cup {0})]
=============================================================================
