--------------------------- MODULE MCAddressScan ---------------------------
(***************************************************************************)
(* A chain for AddressScan.  Block 0 pays o0 (5) to a.  Block 1 spends it, *)
(* pays o1 (3) to b and o2 (2) back to a.  Block 2 spends o2 and pays o3   *)
(* (2) to b, which a transaction of the same block spends again into o4.   *)
(* Block 3 spends o1 and pays o5 (3) to a.  So each address is credited    *)
(* and debited, over blocks and within one.                                *)
(***************************************************************************)
EXTENDS AddressScan, TLC

CONSTANTS w1, w2

MCHeight == 0..3
MCTx == {"c0", "t1", "t2", "u2", "t3"}
MCOut == {"o0", "o1", "o2", "o3", "o4", "o5"}

\* Without block 3.
SmallHeight == 0..2
SmallTx == MCTx \ {"t3"}
SmallOut == MCOut \ {"o5"}

MCBlockOf == [t \in MCTx |-> CASE t = "c0" -> 0 [] t = "t1" -> 1 [] t = "t3" -> 3
                                  [] OTHER -> 2]
MCTxOf == [o \in MCOut |-> CASE o = "o0" -> "c0" [] o \in {"o1", "o2"} -> "t1"
                             [] o = "o3" -> "t2" [] o = "o4" -> "u2"
                             [] o = "o5" -> "t3"]
MCSpentBy == [o \in MCOut |-> CASE o = "o0" -> "t1" [] o = "o2" -> "t2" [] o = "o3" -> "u2"
                                [] o = "o1" -> "t3"
                                [] OTHER -> "unspent"]
MCAddr == {"a", "b"}
MCAddrOf == [o \in MCOut |-> IF o \in {"o0", "o2", "o5"} THEN "a" ELSE "b"]
MCAmount == [o \in MCOut |-> CASE o = "o0" -> 5 [] o \in {"o1", "o5"} -> 3 [] OTHER -> 2]

SmallBlockOf == [t \in SmallTx |-> MCBlockOf[t]]
SmallTxOf == [o \in SmallOut |-> MCTxOf[o]]
SmallSpentBy == [o \in SmallOut |-> IF MCSpentBy[o] = "t3" THEN "unspent" ELSE MCSpentBy[o]]
SmallAddrOf == [o \in SmallOut |-> MCAddrOf[o]]
SmallAmount == [o \in SmallOut |-> MCAmount[o]]

OneWorker == {w1}
TwoWorkers == {w1, w2}

\* Nothing tells one worker from another.
WorkerSymmetry == Permutations(TwoWorkers)
=============================================================================
