---------------------------- MODULE MCRpcFanout -----------------------------
(* RpcFanout for TLC: three new transactions that spend from each other    *)
(* and from two older ones; the newest spends from all sorts.              *)
EXTENDS RpcFanout

CONSTANTS t1, t2, t3, p, q

MCTxs == {t1, t2, t3, p, q}
MCParents == [t \in MCTxs |->
  CASE t = t1 -> {p} [] t = t2 -> {p, t1} [] t = t3 -> {p, q, t2} [] OTHER -> {}]
=============================================================================
