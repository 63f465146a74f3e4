--------------------------- MODULE GapScanProofs ----------------------------
(***************************************************************************)
(* What GapScan promises, for every gap limit and every length of chain.   *)
(***************************************************************************)
EXTENDS GapScan, SequenceTheorems, TLAPS

(* The coroutine's place and its window agree with what it has walked.     *)
Placed ==
  /\ Len(discovered) <= MaxAddresses
  /\ pc = "window" => Len(discovered) = start
  /\ pc \in {"gather", "process"} =>
       /\ start < MaxAddresses
       /\ DOMAIN replies = Window
  /\ pc = "gather" => Len(discovered) = start /\ empties < GapLimit
  /\ pc = "process" =>
       /\ start <= Len(discovered)
       /\ Len(discovered) <= End
       /\ \A i \in Window : replies[i] # "pending"
  /\ pc = "done" => empties >= GapLimit \/ Len(discovered) = MaxAddresses

(* consecutive_empty counts the empties at the end of the walk.            *)
Counted ==
  /\ empties <= Len(discovered)
  /\ \A k \in 1 .. Len(discovered) :
       k > Len(discovered) - empties => discovered[k] = "empty"

(* Only an address without history at the start can be found empty.        *)
Truthful ==
  /\ activeAtStart \subseteq active
  /\ \A i \in DOMAIN replies : replies[i] = "empty" => i \notin activeAtStart
  /\ \A k \in 1 .. Len(discovered) :
       discovered[k] = "empty" => k - 1 \notin activeAtStart

IInv == TypeOK /\ Placed /\ Counted /\ Truthful

(* The invariant holds when a scan is started.                             *)
LEMMA InitEstablishes == Init => IInv
  BY GapScanAssumption
     DEF Init, IInv, TypeOK, Placed, Counted, Truthful, Answer, Window, Indexes

(* A window's end lies between its start and the end of the chain.         *)
LEMMA EndBounds ==
  ASSUME start \in 0 .. MaxAddresses
  PROVE  /\ End \in start .. MaxAddresses
         /\ Window \subseteq Indexes
  BY GapScanAssumption DEF End, Window, Indexes

(* Every step of the coroutine and of the blockchain keeps the invariant.  *)
LEMMA StepPreserves == IInv /\ [Next]_vars => IInv'
<1> SUFFICES ASSUME IInv, [Next]_vars PROVE IInv'
  OBVIOUS
<1> USE GapScanAssumption
<1>0. End \in start .. MaxAddresses /\ Window \subseteq Indexes
  BY EndBounds DEF IInv, TypeOK
<1>1. CASE BeginWindow
  BY <1>0, <1>1
     DEF BeginWindow, MoreWanted, IInv, TypeOK, Placed, Counted, Truthful,
         Answer, Window, Indexes, End
<1>2. CASE LoopEnds
  BY <1>0, <1>2
     DEF LoopEnds, MoreWanted, IInv, TypeOK, Placed, Counted, Truthful,
         Answer, Window, Indexes, End
<1>3. CASE \E i \in Indexes : Reply(i)
  BY <1>0, <1>3
     DEF Reply, IInv, TypeOK, Placed, Counted, Truthful,
         Answer, Window, Indexes, End
<1>4. CASE Raise
  BY <1>0, <1>4
     DEF Raise, IInv, TypeOK, Placed, Counted, Truthful,
         Answer, Window, Indexes, End
<1>5. CASE Gathered
  BY <1>0, <1>5
     DEF Gathered, IInv, TypeOK, Placed, Counted, Truthful,
         Answer, Window, Indexes, End
<1>6. CASE Walk
  <2> DEFINE n == Len(discovered)
             answer == replies[n]
  <2>1. /\ n \in Window
        /\ n < End
        /\ answer \in Answer
        /\ discovered' = Append(discovered, answer)
        /\ empties' = IF answer = "used" THEN 0 ELSE empties + 1
        /\ pc = "process" /\ pc' = "process"
        /\ UNCHANGED <<start, replies, active, activeAtStart>>
    BY <1>0, <1>6 DEF Walk, IInv, TypeOK, Placed, Answer, Window, Indexes
  <2>2. /\ discovered' \in Seq(Answer)
        /\ Len(discovered') = n + 1
        /\ \A k \in 1 .. n : discovered'[k] = discovered[k]
        /\ discovered'[n + 1] = answer
    BY <2>1 DEF IInv, TypeOK
  <2>3. TypeOK'
    BY <2>1, <2>2 DEF IInv, TypeOK, Answer, Indexes
  <2>4. Placed'
    BY <1>0, <1>6, <2>1, <2>2
       DEF Walk, IInv, TypeOK, Placed, Answer, Window, Indexes, End
  <2>5. Counted'
    BY <2>1, <2>2 DEF IInv, TypeOK, Counted, Answer
  <2>6. Truthful'
    BY <1>6, <2>1, <2>2 DEF Walk, IInv, TypeOK, Placed, Truthful, Window
  <2>7. QED BY <2>3, <2>4, <2>5, <2>6 DEF IInv
<1>7. CASE EarlyReturn
  BY <1>0, <1>7
     DEF EarlyReturn, IInv, TypeOK, Placed, Counted, Truthful,
         Answer, Window, Indexes, End
<1>8. CASE NextWindow
  BY <1>0, <1>8
     DEF NextWindow, IInv, TypeOK, Placed, Counted, Truthful,
         Answer, Window, Indexes, End
<1>9. CASE \E i \in Indexes : Pay(i)
  BY <1>0, <1>9
     DEF Pay, IInv, TypeOK, Placed, Counted, Truthful,
         Answer, Window, Indexes, End
<1>10. CASE UNCHANGED vars
  BY <1>10
     DEF vars, IInv, TypeOK, Placed, Counted, Truthful,
         Answer, Window, Indexes, End
<1>11. QED
  BY <1>1, <1>2, <1>3, <1>4, <1>5, <1>6, <1>7, <1>8, <1>9, <1>10
     DEF Next, Coroutine

(* The invariant holds of every scan.                                      *)
LEMMA Invariance == Spec => []IInv
  BY InitEstablishes, StepPreserves, PTL DEF Spec

(* The variables of the scanner keep their types, for every gap limit and  *)
(* every length of chain (TypeOK).                                         *)
THEOREM TypeCorrect == Spec => []TypeOK
  BY Invariance, PTL DEF IInv

(* A scan of _gap_scan_parallel that ends has found every address that was *)
(* in use when it began and that the gap rule reaches, whatever happened   *)
(* on the chain meanwhile (NoUsedAddressMissed).                           *)
THEOREM FindsEveryUsedAddress == Spec => []NoUsedAddressMissed
<1>1. IInv => NoUsedAddressMissed
  <2> SUFFICES ASSUME IInv, pc = "done",
                      NEW j \in Reachable(activeAtStart) \cap activeAtStart
               PROVE  j < Len(discovered) /\ discovered[j + 1] = "used"
    BY DEF NoUsedAddressMissed
  <2> DEFINE n == Len(discovered)
  <2>1. j \in Nat /\ j < MaxAddresses /\ n \in Nat /\ GapLimit \in Nat
    BY GapScanAssumption DEF Reachable, Indexes, IInv, TypeOK
  <2>2. j < n
    <3> SUFFICES ASSUME j >= n PROVE FALSE
      BY <2>1
    <3>1. n < MaxAddresses /\ empties >= GapLimit /\ empties <= n /\ empties \in Nat
      BY <2>1, GapScanAssumption DEF IInv, TypeOK, Placed, Counted
    <3>2. n - GapLimit \in 0 .. j /\ (n - GapLimit) + GapLimit <= j
      BY <2>1, <3>1
    <3>3. PICK i \in (n - GapLimit) .. ((n - GapLimit) + GapLimit - 1) :
                 i \in activeAtStart
      BY <3>2 DEF Reachable
    <3>4. i \in Nat /\ i + 1 \in 1 .. n /\ i + 1 > n - empties
      BY <2>1, <3>1, <3>3
    <3>5. discovered[i + 1] = "empty"
      BY <3>4 DEF IInv, Counted
    <3>6. (i + 1) - 1 \notin activeAtStart
      BY <3>4, <3>5 DEF IInv, Truthful
    <3>7. QED BY <3>3, <3>4, <3>6
  <2>3. j + 1 \in 1 .. n /\ (j + 1) - 1 = j
    BY <2>1, <2>2
  <2>4. discovered[j + 1] # "empty"
    BY <2>3 DEF IInv, Truthful
  <2>5. discovered[j + 1] \in Answer
    BY <2>3 DEF IInv, TypeOK
  <2>6. QED BY <2>2, <2>4, <2>5 DEF Answer
<1>2. QED BY <1>1, Invariance, PTL

(* The windowed scanner implements the serial one: what it has walked at   *)
(* any moment is what scan_chain_with_gap would have walked on the same    *)
(* answers, and it returns exactly where that returns                      *)
(* (MatchesSerialScanner).                                                 *)
THEOREM ImplementsSerialScanner == Spec => MatchesSerialScanner
<1>1. Init => Serial!Init
  BY DEF Init, Serial!Init
<1>2. IInv /\ [Next]_vars => [Serial!Next]_(Serial!vars)
  <2> SUFFICES ASSUME IInv, [Next]_vars PROVE [Serial!Next]_(Serial!vars)
    OBVIOUS
  <2> USE DEF Serial!vars
  <2>1. CASE Raise
    BY <2>1, GapScanAssumption
       DEF Raise, Serial!Next, Serial!Raise, Serial!MoreWanted,
           IInv, TypeOK, Placed
  <2>2. CASE Walk
    <3> DEFINE answer == replies[Len(discovered)]
    <3>1. answer \in Serial!Answer
      BY <2>2, EndBounds
         DEF Walk, IInv, TypeOK, Placed, Window, Answer, Serial!Answer
    <3>2. Serial!MoreWanted
      BY <2>2, EndBounds, GapScanAssumption
         DEF Walk, Serial!MoreWanted, IInv, TypeOK, Placed
    <3>3. Serial!Probe(answer)
      BY <2>2, <3>2 DEF Walk, Serial!Probe
    <3>4. QED BY <3>1, <3>3 DEF Serial!Next
  <2>3. CASE LoopEnds
    BY <2>3, GapScanAssumption
       DEF LoopEnds, MoreWanted, Serial!Next, Serial!Return, Serial!MoreWanted,
           IInv, TypeOK, Placed
  <2>4. CASE EarlyReturn
    BY <2>4, GapScanAssumption
       DEF EarlyReturn, Serial!Next, Serial!Return, Serial!MoreWanted,
           IInv, TypeOK
  <2>5. CASE BeginWindow
    BY <2>5 DEF BeginWindow
  <2>6. CASE Gathered
    BY <2>6 DEF Gathered
  <2>7. CASE NextWindow
    BY <2>7 DEF NextWindow
  <2>8. CASE \E i \in Indexes : Reply(i)
    BY <2>8 DEF Reply
  <2>9. CASE \E i \in Indexes : Pay(i)
    BY <2>9 DEF Pay
  <2>10. CASE UNCHANGED vars
    BY <2>10 DEF vars
  <2>11. QED
    BY <2>1, <2>2, <2>3, <2>4, <2>5, <2>6, <2>7, <2>8, <2>9, <2>10
       DEF Next, Coroutine
<1>3. QED
  BY <1>1, <1>2, Invariance, PTL DEF Spec, MatchesSerialScanner, Serial!Spec
=============================================================================
