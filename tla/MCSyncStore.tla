---------------------------- MODULE MCSyncStore -----------------------------
(* SyncStore for TLC: wallets that share an address, a payment received    *)
(* and a payment that spends it.                                           *)
EXTENDS SyncStore

CONSTANTS
  x1,             \* the value of a wallet with two chains
  addr1,          \* the value of a single-address wallet
  adrA, adrB,     \* addresses
  foreign,        \* somebody else's
  t1, t2          \* transactions

Io(address_, sats) == [address |-> address_, sats |-> sats]

\* t1 pays 3 sats to adrA; t2 spends them, 1 to somebody else, 1 to adrB, fee 1.
MCTx ==
  [t \in TxId |->
     IF t = t1 THEN [ins |-> <<Io(foreign, 4)>>, outs |-> <<Io(adrA, 3)>>]
               ELSE [ins |-> <<Io(adrA, 3)>>, outs |-> <<Io(foreign, 1), Io(adrB, 1)>>]]

MCParents == [t \in TxId |-> IF t = t1 THEN {} ELSE {t1} \cap TxId]

\* x1 derives adrA and adrB; the single address is adrB, too.
MCDerive == [v \in Values |->
  IF v = x1 THEN <<adrA, adrB>> ELSE <<adrB>>]
=============================================================================
