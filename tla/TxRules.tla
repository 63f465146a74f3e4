------------------------------ MODULE TxRules -------------------------------
(***************************************************************************)
(* What the ledger makes of one transaction: its fee (_build_tx of         *)
(* sync.py) and its class (ledger/classify.py).                            *)
(*                                                                         *)
(* A transaction is a record of its inputs and outputs, each with the      *)
(* address it belongs to and its amount in sats; `ins` is indexed by       *)
(* anything and may be empty, for a coinbase input is dropped before it is *)
(* stored.  A slot names one input or output, and what is owned is a set   *)
(* of slots.                                                               *)
(***************************************************************************)
EXTENDS Integers, Sequences, FiniteSets, Functions

Classes == {"internal", "external_in", "external_out", "unknown"}

Inputs(tx)  == {"in"} \X DOMAIN tx.ins
Outputs(tx) == {"out"} \X DOMAIN tx.outs
Slots(tx)   == Inputs(tx) \cup Outputs(tx)

\* The input or output a slot names.
IoAt(tx, slot) == IF slot[1] = "in" THEN tx.ins[slot[2]] ELSE tx.outs[slot[2]]

\* The slots that belong to one of the addresses.
SlotsOf(tx, addresses) == {slot \in Slots(tx) : IoAt(tx, slot).address \in addresses}

\* The sats of a set of slots.
Sats(tx, slots) == SumFunction([slot \in slots |-> IoAt(tx, slot).sats])

OwnedIn(tx, own)  == Sats(tx, own \cap Inputs(tx))
OwnedOut(tx, own) == Sats(tx, own \cap Outputs(tx))

\* What the transaction adds to the owned coins.
NetOwned(tx, own) == OwnedOut(tx, own) - OwnedIn(tx, own)

\* fee_sats: what the inputs hold beyond the outputs, 0 without inputs.
Fee(tx) ==
  LET totalIn  == Sats(tx, Inputs(tx))
      totalOut == Sats(tx, Outputs(tx))
  IN  IF totalIn > totalOut THEN totalIn - totalOut ELSE 0

\* Fault: a transaction with a foreign input counts as income whenever we are
\* paid at all, the owned inputs it spends forgotten.
ClassifyGross(tx, own) ==
  LET allInOwned  == Inputs(tx) # {} /\ Inputs(tx) \subseteq own
      allOutOwned == Outputs(tx) # {} /\ Outputs(tx) \subseteq own
  IN  CASE allInOwned /\ allOutOwned -> "internal"
        [] allInOwned /\ ~allOutOwned -> "external_out"
        [] ~allInOwned /\ OwnedOut(tx, own) > 0 -> "external_in"
        [] OTHER -> "unknown"

\* classify: the branches in the order the code tries them.
Classify(tx, own) ==
  LET anyUnownedIn  == ~(Inputs(tx) \subseteq own)
      anyUnownedOut == ~(Outputs(tx) \subseteq own)
      allInOwned    == Inputs(tx) # {} /\ ~anyUnownedIn
      allOutOwned   == Outputs(tx) # {} /\ ~anyUnownedOut
  IN  IF allInOwned /\ allOutOwned THEN "internal"
      ELSE IF anyUnownedIn /\ ~allInOwned /\ NetOwned(tx, own) > 0 THEN "external_in"
      ELSE IF allInOwned /\ anyUnownedOut THEN "external_out"
      ELSE IF OwnedIn(tx, own) = 0 /\ OwnedOut(tx, own) > 0 THEN "external_in"
      ELSE "unknown"

External == {"external_in", "external_out"}
=============================================================================
