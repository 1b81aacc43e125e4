----------------------------- MODULE MC_EthClient -----------------------------
(* Two groups, two transactions, chains of up to two blocks; the callers   *)
(* ask for blocks 0, 1 and 49 (whose one-rune string is "1").  Group 1 has *)
(* no observers.                                                           *)
EXTENDS EthClient

CONSTANTS t1, t2

MCTxs == {t1, t2}
MCObservers == [g \in {1, 2} |-> IF g = 1 THEN <<>> ELSE <<"node3">>]
=============================================================================
