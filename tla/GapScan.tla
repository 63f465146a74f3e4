------------------------------ MODULE GapScan -------------------------------
(***************************************************************************)
(* _gap_scan_parallel of sync.py: the gap-limit walk of one derivation     *)
(* chain in windows of gap_limit addresses, the histories of a window      *)
(* fetched concurrently.                                                   *)
(*                                                                         *)
(* Requests of a window are answered in any order, each with what the      *)
(* server knows at that moment; meanwhile other people pay to addresses of *)
(* the chain.  A history, once it has entries, keeps them.                 *)
(***************************************************************************)
EXTENDS Naturals, Sequences

CONSTANTS
  GapLimit,       \* gap_limit
  MaxAddresses    \* max_addresses

ASSUME GapScanAssumption == GapLimit \in Nat /\ MaxAddresses \in Nat

VARIABLES
  pc,             \* where the coroutine is
  start,          \* first index of the current window
  replies,        \* index of the window -> answer, or "pending"
  discovered,     \* the answers of the addresses walked, by index
  empties,        \* consecutive_empty
  active,         \* server: the indexes with a history
  activeAtStart   \* history variable: `active` when the scan was started

vars == <<pc, start, replies, discovered, empties, active, activeAtStart>>

Indexes == 0 .. MaxAddresses - 1

\* Fault: the last window is not cut short.
EndUncapped == start + GapLimit

\* end = min(start + gap_limit, max_addresses)
End == IF start + GapLimit < MaxAddresses THEN start + GapLimit
                                          ELSE MaxAddresses
Window == start .. End - 1

Init ==
  /\ pc = "window"
  /\ start = 0
  /\ replies = [i \in {} |-> "pending"]
  /\ discovered = <<>>
  /\ empties = 0
  /\ active \in SUBSET Indexes
  /\ activeAtStart = active

-----------------------------------------------------------------------------
(* The coroutine.                                                          *)

MoreWanted == empties < GapLimit /\ start < MaxAddresses

\* Derive the addresses of the next window and start their requests.
BeginWindow ==
  /\ pc = "window"
  /\ MoreWanted
  /\ replies' = [i \in Window |-> "pending"]
  /\ pc' = "gather"
  /\ UNCHANGED <<start, discovered, empties, active, activeAtStart>>

\* The loop condition fails: return discovered.
LoopEnds ==
  /\ pc = "window"
  /\ ~MoreWanted
  /\ pc' = "done"
  /\ UNCHANGED <<start, replies, discovered, empties, active, activeAtStart>>

\* The server answers one request of the window.
Reply(i) ==
  /\ pc = "gather"
  /\ i \in DOMAIN replies
  /\ replies[i] = "pending"
  /\ replies' = [replies EXCEPT ![i] = IF i \in active THEN "used" ELSE "empty"]
  /\ UNCHANGED <<pc, start, discovered, empties, active, activeAtStart>>

\* A request raises (an error answer, a timeout, a closed connection), and
\* gather raises with it: nothing of the window is kept.
Raise ==
  /\ pc = "gather"
  /\ \E i \in DOMAIN replies : replies[i] = "pending"
  /\ pc' = "failed"
  /\ UNCHANGED <<start, replies, discovered, empties, active, activeAtStart>>

\* Every request of the window is answered: gather returns.
Gathered ==
  /\ pc = "gather"
  /\ \A i \in DOMAIN replies : replies[i] # "pending"
  /\ pc' = "process"
  /\ UNCHANGED <<start, replies, discovered, empties, active, activeAtStart>>

\* Fault: a used address does not reset the count of empties.
WalkWithoutReset ==
  /\ pc = "process" /\ empties < GapLimit
  /\ Len(discovered) < End
  /\ LET answer == replies[Len(discovered)]
     IN  /\ discovered' = Append(discovered, answer)
         /\ empties' = IF answer = "used" THEN empties ELSE empties + 1
  /\ UNCHANGED <<pc, start, replies, active, activeAtStart>>

\* Fault: the for loop runs to the end of the window.
WalkWithoutEarlyReturn ==
  /\ pc = "process"
  /\ Len(discovered) < End
  /\ LET answer == replies[Len(discovered)]
     IN  /\ discovered' = Append(discovered, answer)
         /\ empties' = IF answer = "used" THEN 0 ELSE empties + 1
  /\ UNCHANGED <<pc, start, replies, active, activeAtStart>>

\* One turn of the for loop over the answers.
Walk ==
  /\ pc = "process" /\ empties < GapLimit
  /\ Len(discovered) < End
  /\ LET answer == replies[Len(discovered)]
     IN  /\ discovered' = Append(discovered, answer)
         /\ empties' = IF answer = "used" THEN 0 ELSE empties + 1
  /\ UNCHANGED <<pc, start, replies, active, activeAtStart>>

\* Fault: the count that ends the loop is off by one.
EarlyReturnSooner ==
  /\ pc = "process" /\ empties + 1 >= GapLimit
  /\ pc' = "done"
  /\ UNCHANGED <<start, replies, discovered, empties, active, activeAtStart>>

\* The turn that counted the gap_limit'th empty returns from within the loop.
EarlyReturn ==
  /\ pc = "process" /\ empties >= GapLimit
  /\ pc' = "done"
  /\ UNCHANGED <<start, replies, discovered, empties, active, activeAtStart>>

\* Fault: the next window begins where this one began.
NextWindowStuck ==
  /\ pc = "process" /\ empties < GapLimit
  /\ Len(discovered) = End
  /\ pc' = "window"
  /\ UNCHANGED <<start, replies, discovered, empties, active, activeAtStart>>

\* The for loop is through: start = end, and the while loop again.
NextWindow ==
  /\ pc = "process" /\ empties < GapLimit
  /\ Len(discovered) = End
  /\ start' = End
  /\ pc' = "window"
  /\ UNCHANGED <<replies, discovered, empties, active, activeAtStart>>

Coroutine ==
  \/ BeginWindow \/ LoopEnds \/ Raise \/ Gathered
  \/ Walk \/ EarlyReturn \/ NextWindow
  \/ \E i \in Indexes : Reply(i)

-----------------------------------------------------------------------------
(* The blockchain.                                                         *)

\* A first transaction of address i reaches the server.
Pay(i) ==
  /\ i \notin active
  /\ active' = active \cup {i}
  /\ UNCHANGED <<pc, start, replies, discovered, empties, activeAtStart>>

Next == Coroutine \/ \E i \in Indexes : Pay(i)

\* Each request is under a timeout (electrum.py), so it is answered or raises;
\* the event loop runs a coroutine that is ready.
Spec == Init /\ [][Next]_vars
FairSpec == Spec /\ WF_vars(Coroutine)

-----------------------------------------------------------------------------
(* Properties.                                                             *)

Answer == {"used", "empty"}

\* The types of the variables.
TypeOK ==
  /\ pc \in {"window", "gather", "process", "done", "failed"}
  /\ start \in 0 .. MaxAddresses
  /\ DOMAIN replies \subseteq Indexes
  /\ \A i \in DOMAIN replies : replies[i] \in Answer \cup {"pending"}
  /\ discovered \in Seq(Answer)
  /\ empties \in Nat
  /\ active \in SUBSET Indexes
  /\ activeAtStart \in SUBSET Indexes

\* The indexes that a wallet with the used addresses S may have given out:
\* those with no gap_limit unused ones in a row before them.
Reachable(S) ==
  {j \in Indexes : \A k \in 0 .. j : k + GapLimit <= j =>
                      \E i \in k .. k + GapLimit - 1 : i \in S}

\* A scan that ends has discovered, as used, every address that had a history
\* when it began and that the gap rule reaches, whatever was paid and in
\* whatever order the windows' requests were answered meanwhile.
NoUsedAddressMissed ==
  pc = "done" =>
    \A j \in Reachable(activeAtStart) \cap activeAtStart :
      j < Len(discovered) /\ discovered[j + 1] = "used"

\* The promise of the docstring: the windowed scan walks the addresses the
\* serial scanner walks, with the same count, and returns where that returns,
\* no address later and no address sooner.
Serial == INSTANCE SerialScan WITH
  place <- CASE pc = "done" -> "returned"
             [] pc = "failed" -> "raised"
             [] OTHER -> "scanning"
MatchesSerialScanner == Serial!Spec

\* A scan whose requests are all answered or time out comes to an end.
ScanEnds == <>(pc \in {"done", "failed"})
=============================================================================
