---------------------------- MODULE MCFifoLedger ----------------------------
(* FifoLedger for TLC: every history of up to two buys and two sales over  *)
(* three blocks, the first two of them on one day.                         *)
EXTENDS FifoLedger

CONSTANTS b1, b2, s1, s2

MCDayOf == [t \in 1 .. MaxTime |-> (t + 1) \div 2]
MCDayPrice == [d \in {MCDayOf[t] : t \in 1 .. MaxTime} |-> 3 * d - 1]

\* At most one event under each txid.
MCOf(kind, tx) == {{}} \cup {{e} : e \in {f \in kind : f.tx = tx}}
MCAll == {p \cup q \cup r \cup s :
  p \in MCOf(Buy, b1), q \in MCOf(Buy, b2), r \in MCOf(Sale, s1), s \in MCOf(Sale, s2)}

\* Of two histories that differ in who is first only, one is enough.
MCFirst(tx, other, history) ==
  \A e \in history : e.tx = other => \E f \in history : f.tx = tx /\ f.time <= e.time
MCHistories == {h \in MCAll : MCFirst(b1, b2, h) /\ MCFirst(s1, s2, h)}
=============================================================================
