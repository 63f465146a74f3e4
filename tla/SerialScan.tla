----------------------------- MODULE SerialScan -----------------------------
(***************************************************************************)
(* The gap-limit walk of one derivation chain, one address at a time, as   *)
(* chain/derive.py and chain/multisig.py write it (scan_chain_with_gap,    *)
(* scan_multisig_chain_with_gap).  It is the abstract specification that   *)
(* the windowed scanner of sync.py promises to match.                      *)
(*                                                                         *)
(* Address i of the chain is identified with its index.  What the server   *)
(* says of an address is the oracle of the walk: the blockchain moves      *)
(* while the scan runs, so each answer is free.                            *)
(***************************************************************************)
EXTENDS Naturals, Sequences

CONSTANTS
  GapLimit,       \* gap_limit: empties in a row that end the walk
  MaxAddresses    \* max_addresses: the hard end of the chain

VARIABLES
  discovered,     \* the answer for each address scanned so far, by index
  empties,        \* consecutive_empty
  place           \* is the walk in its loop, has it returned or raised?

vars == <<discovered, empties, place>>

Answer == {"used", "empty"}

Init ==
  /\ discovered = <<>>
  /\ empties = 0
  /\ place = "scanning"

\* The loop condition: while consecutive_empty < gap_limit and i < max_addresses.
MoreWanted == empties < GapLimit /\ Len(discovered) < MaxAddresses

\* One turn of the loop: ask for the next address, keep it, count the empties.
Probe(answer) ==
  /\ place = "scanning" /\ MoreWanted
  /\ discovered' = Append(discovered, answer)
  /\ empties' = IF answer = "used" THEN 0 ELSE empties + 1
  /\ UNCHANGED place

\* The awaited request raises, and the walk with it.
Raise ==
  /\ place = "scanning" /\ MoreWanted
  /\ place' = "raised"
  /\ UNCHANGED <<discovered, empties>>

\* The loop condition fails: return discovered.
Return ==
  /\ place = "scanning" /\ ~MoreWanted
  /\ place' = "returned"
  /\ UNCHANGED <<discovered, empties>>

Next == Raise \/ Return \/ \E answer \in Answer : Probe(answer)

Spec == Init /\ [][Next]_vars
=============================================================================
