-------------------------------- MODULE Rpc --------------------------------
(***************************************************************************)
(* core/rpc.py: how the worker tasks of a process fetch a block.  A fetch  *)
(* is up to three calls of with_retry, one after the other: getblockhash,  *)
(* getblock at verbosity 3 and, if that raised, getblock at verbosity 2.   *)
(* Each attempt needs a place in the semaphore of the client; the sleep    *)
(* before the next attempt does not.                                       *)
(***************************************************************************)
EXTENDS Integers, Sequences, FiniteSets, SequencesExt

CONSTANTS Fetcher,    \* the tasks that fetch blocks
          Slots,      \* the capacity of the semaphore, Config.rpc_concurrency
          MaxErrors   \* bounds the failed calls of a behaviour

ASSUME RpcAssumption == Slots \in Nat \ {0} /\ MaxErrors \in Nat

Retries == 3

VARIABLES
  asking,   \* what a task is asking the node for, or how its fetch has ended
  turn,     \* whether its call waits for the semaphore, is under way, or sleeps
  attempt,  \* of with_retry
  queued,   \* the tasks waiting for the semaphore, which serves them in order
  inside,   \* those it has let in
  trouble,  \* attempts this fetch has lost so far: bookkeeping
  errors    \* and all failed calls

rpcVars == <<asking, turn, attempt, queued, inside, trouble, errors>>

Asking == {"hash", "v3", "v2"}

RpcInit ==
  /\ asking = [t \in Fetcher |-> "idle"] /\ turn = [t \in Fetcher |-> "none"]
  /\ attempt = [t \in Fetcher |-> 0] /\ trouble = [t \in Fetcher |-> 0]
  /\ queued = <<>> /\ inside = {} /\ errors = 0

\* call: behind the others that wait for the semaphore.
CallFor(t, s, n) ==
  /\ asking' = [asking EXCEPT ![t] = s]
  /\ attempt' = [attempt EXCEPT ![t] = n]
  /\ turn' = [turn EXCEPT ![t] = "waiting"]
  /\ queued' = Append(queued, t)

\* The fetch ends: with a block, or with the exception of its last call.
EndFetch(t, s) ==
  /\ asking' = [asking EXCEPT ![t] = s]
  /\ attempt' = [attempt EXCEPT ![t] = 0]
  /\ turn' = [turn EXCEPT ![t] = "none"]
  /\ UNCHANGED queued

BeginFetch(t) ==
  /\ asking[t] \notin Asking
  /\ CallFor(t, "hash", 0)
  /\ trouble' = [trouble EXCEPT ![t] = 0]
  /\ UNCHANGED <<inside, errors>>

Admit ==
  /\ queued # <<>> /\ Cardinality(inside) < Slots
  /\ inside' = inside \cup {Head(queued)}
  /\ turn' = [turn EXCEPT ![Head(queued)] = "calling"]
  /\ queued' = Tail(queued)
  /\ UNCHANGED <<asking, attempt, trouble, errors>>

\* MUTANT: an exception skips the release of the semaphore.
InsideAfterKept(t) == IF turn'[t] = "sleeping" THEN inside ELSE inside \ {t}
InsideAfter(t) == inside \ {t}

Answer(t) ==
  /\ turn[t] = "calling"
  /\ \/ asking[t] = "hash" /\ CallFor(t, "v3", 0)
     \/ asking[t] = "v3" /\ EndFetch(t, "got3")
     \/ asking[t] = "v2" /\ EndFetch(t, "got2")
  /\ inside' = InsideAfter(t)
  /\ UNCHANGED <<trouble, errors>>

\* with_retry gives up: verbosity 2 after verbosity 3, else the fetch fails.
GiveUp(t) == IF asking[t] = "v3" THEN CallFor(t, "v2", 0) ELSE EndFetch(t, "failed")

\* MUTANT: timeouts are not among the exceptions of with_retry.
RetriedNever(t, kind) == kind = "error" /\ attempt[t] + 1 < Retries
\* Client and connection errors, timeouts (as RuntimeError), answers with an
\* error and malformed JSON (ValueError) are retried; a missing field is not.
Retried(t, kind) == kind \in {"error", "timeout"} /\ attempt[t] + 1 < Retries

CallFails(t) ==
  /\ turn[t] = "calling" /\ errors < MaxErrors
  /\ errors' = errors + 1
  /\ \E kind \in {"error", "timeout", "other"} :
       /\ trouble' = [trouble EXCEPT ![t] = @ + IF kind = "other" THEN Retries ELSE 1]
       /\ IF Retried(t, kind)
          THEN /\ turn' = [turn EXCEPT ![t] = "sleeping"]
               /\ UNCHANGED <<asking, attempt, queued>>
          ELSE GiveUp(t)
  /\ inside' = InsideAfter(t)

\* asyncio.sleep ends, the next attempt begins.
Wake(t) ==
  /\ turn[t] = "sleeping"
  /\ CallFor(t, asking[t], attempt[t] + 1)
  /\ UNCHANGED <<inside, trouble, errors>>

\* The task is cancelled at a shutdown, wherever it is.
CancelFetch(t) ==
  /\ asking[t] \in Asking
  /\ asking' = [asking EXCEPT ![t] = "cancelled"]
  /\ turn' = [turn EXCEPT ![t] = "none"]
  /\ attempt' = [attempt EXCEPT ![t] = 0]
  /\ queued' = SelectSeq(queued, LAMBDA u : u # t)
  /\ inside' = inside \ {t}
  /\ UNCHANGED <<trouble, errors>>

CallEnds(t) == Answer(t) \/ CallFails(t)

RpcNext ==
  \/ Admit
  \/ \E t \in Fetcher : BeginFetch(t) \/ CallEnds(t) \/ Wake(t) \/ CancelFetch(t)

\* Calls end, by an answer or their timeout; sleeps end; the semaphore serves.
RpcFairness ==
  /\ WF_rpcVars(Admit)
  /\ \A t \in Fetcher : WF_rpcVars(CallEnds(t)) /\ WF_rpcVars(Wake(t))

RpcSpec == RpcInit /\ [][RpcNext]_rpcVars /\ RpcFairness

-----------------------------------------------------------------------------
\* Two failures in a row, of whatever retried kind, cost a fetch nothing: only
\* a verbosity that lost all its attempts is given up, so a passing disturbance
\* neither fails a block nor makes it one without prevouts (rpc.py:16-40, 82-90).
TransientMasked ==
  \A t \in Fetcher : asking[t] \in {"v2", "got2", "failed"} => trouble[t] >= Retries

\* Every fetch ends, however many others fail and retry meanwhile: no failed or
\* sleeping call keeps a place in the semaphore (rpc.py:58).
FetchesEnd == \A t \in Fetcher : []<>(asking[t] \notin Asking)
=============================================================================
