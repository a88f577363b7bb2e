---------------------------- MODULE MCExtraction ----------------------------
(***************************************************************************)
(* A chain for Extraction.  Block 0 has a coinbase with one output.  Block *)
(* 1 has a coinbase and a transaction that spends the output of block 0    *)
(* and has an output without address (OP_RETURN excluded, so still valued) *)
(* next to one that a second transaction of the same block spends.  Block  *)
(* 2 is empty: nothing to store.                                           *)
(***************************************************************************)
EXTENDS Extraction

CONSTANTS e1, e2, b1

MCHeight == 0..2
MCTx == {"c0", "c1", "t1", "u1"}
MCOut == {"o0", "o1", "o2", "n1"}
MCBlockOf == [t \in MCTx |-> IF t = "c0" THEN 0 ELSE 1]
MCTxOf == [o \in MCOut |-> CASE o = "o0" -> "c0" [] o = "o1" -> "t1" [] o = "n1" -> "t1"
                             [] o = "o2" -> "u1"]
MCSpentBy == [o \in MCOut |-> CASE o = "o0" -> "t1" [] o = "o1" -> "u1" [] OTHER -> "unspent"]
MCAddressed == {"o0", "o1", "o2"}

TwoExtractors == {e1, e2}
OneExtractor == {e1}
OneBackfiller == {b1}
NoBackfiller == {}

\* The first two blocks only.
SmallHeight == 0..1
=============================================================================
