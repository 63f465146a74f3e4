-------------------------- MODULE RpcFanoutProofs ---------------------------
(***************************************************************************)
(* The ingest of a sync for any transactions, parents and concurrency.     *)
(***************************************************************************)
EXTENDS RpcFanout, FiniteSetTheorems, TLAPS

(* A task is the only one of its transaction: the one tx_tasks has; its    *)
(* transaction is new, or a parent of a new one that has arrived.          *)
Shared ==
  /\ \A t \in ToFetch : task[t] = t
  /\ \A f \in Tasks : fetch[f] # "none" =>
       /\ task[f[2]] = f[1]
       /\ f[1] # f[2] => f[2] \in Parents[f[1]] /\ fetch[<<f[1], f[1]>>] = "answered"

(* A coroutine goes on with what has been answered, and raises what has    *)
(* failed.                                                                 *)
Answered ==
  /\ \A t \in ToFetch : ingest[t] \in {"parents", "built"} => fetch[<<t, t>>] = "answered"
  /\ \A t \in ToFetch : ingest[t] = "built" =>
       \A p \in Parents[t] : task[p] # None /\ fetch[<<task[p], p>>] = "answered"
  /\ (\E t \in ToFetch : ingest[t] = "raised") \/ sync \in {"closing", "raised"} =>
       \E f \in Tasks : fetch[f] = "failed"
  /\ sync = "built" => \A t \in ToFetch : ingest[t] = "built"

IInv == TypeOK /\ Shared /\ Answered /\ PermitsAccounted

LEMMA TasksFinite == IsFiniteSet(Tasks) /\ IsFiniteSet(InFlight) /\ Cardinality(InFlight) \in Nat
<1>1. IsFiniteSet(ToFetch) /\ IsFiniteSet(Txs)
  BY FanoutAssumption, FS_Subset
<1>2. IsFiniteSet(Tasks)
  BY <1>1, FS_Product DEF Tasks
<1>3. InFlight \in SUBSET Tasks
  BY DEF InFlight
<1>4. IsFiniteSet(InFlight)
  BY <1>2, <1>3, FS_Subset
<1>5. QED BY <1>2, <1>4, FS_CardinalityType

(* What a task is named by.                                                *)
LEMMA TaskNames ==
  /\ \A f \in Tasks : f[1] \in ToFetch /\ f[2] \in Txs /\ f = <<f[1], f[2]>>
  /\ \A t \in ToFetch, tx \in Txs : <<t, tx>> \in Tasks
  /\ \A t \in ToFetch : <<t, t>> \in Tasks
  /\ \A t \in ToFetch : Parents[t] \subseteq Txs
  BY FanoutAssumption DEF Tasks

(* A request that is sent, answered or lost leaves the rest in order.      *)
LEMMA TaskMoves ==
  ASSUME IInv, NEW f \in Tasks, fetch[f] \in {"queued", "sent"},
         NEW state \in {"sent", "answered", "failed"},
         fetch' = [fetch EXCEPT ![f] = state],
         UNCHANGED <<task, ingest, sync>>
  PROVE  /\ fetch' \in [Tasks -> FetchStates]
         /\ Shared' /\ Answered'
<1> USE TaskNames DEF IInv
<1>1. fetch \in [Tasks -> FetchStates]
  BY DEF TypeOK
<1>2. fetch' \in [Tasks -> FetchStates]
  BY <1>1 DEF FetchStates
<1>3. \A g \in Tasks : fetch[g] = "answered" => fetch'[g] = "answered"
  BY <1>1
<1>4. \A g \in Tasks : fetch[g] = "failed" => fetch'[g] = "failed"
  BY <1>1
<1>5. \A g \in Tasks : fetch'[g] # "none" => fetch[g] # "none"
  BY <1>1
<1>6. Shared'
  BY <1>3, <1>5 DEF Shared
<1>7. Answered'
  <2>1. task \in [Txs -> ToFetch \cup {None}]
    BY DEF TypeOK
  <2>2. \A t \in ToFetch : ingest[t] \in {"parents", "built"} => fetch'[<<t, t>>] = "answered"
    BY <1>3 DEF Answered
  <2>3. \A t \in ToFetch : ingest[t] = "built" =>
          \A p \in Parents[t] : task[p] # None /\ fetch'[<<task[p], p>>] = "answered"
    BY <1>3, <2>1 DEF Answered
  <2>4. QED BY <1>4, <2>2, <2>3 DEF Answered
<1>8. QED BY <1>2, <1>6, <1>7

(* Only the permits tell what is in flight.                                *)
LEMMA FlightGrows ==
  ASSUME IInv, NEW f \in Tasks, fetch[f] # "sent", fetch' = [fetch EXCEPT ![f] = "sent"]
  PROVE  Cardinality(InFlight') = Cardinality(InFlight) + 1
<1>1. InFlight' = InFlight \cup {f} /\ f \notin InFlight
  BY DEF IInv, TypeOK, InFlight
<1>2. QED BY <1>1, TasksFinite, FS_AddElement

LEMMA FlightShrinks ==
  ASSUME IInv, NEW f \in Tasks, fetch[f] = "sent", NEW state, state # "sent",
         fetch' = [fetch EXCEPT ![f] = state]
  PROVE  Cardinality(InFlight') = Cardinality(InFlight) - 1
<1>1. InFlight' = InFlight \ {f} /\ f \in InFlight
  BY DEF IInv, TypeOK, InFlight
<1>2. QED BY <1>1, TasksFinite, FS_RemoveElement

LEMMA AcquireKeeps ==
  ASSUME IInv, NEW f \in Tasks, Acquire(f) PROVE IInv'
<1>1. fetch' \in [Tasks -> FetchStates] /\ Shared' /\ Answered'
  BY TaskMoves DEF Acquire
<1>2. Cardinality(InFlight') = Cardinality(InFlight) + 1
  BY FlightGrows DEF Acquire
<1>3. permits' \in 0 .. Concurrency /\ PermitsAccounted'
  BY <1>2, TasksFinite, FanoutAssumption DEF Acquire, IInv, TypeOK, PermitsAccounted
<1>4. TypeOK'
  BY <1>1, <1>3 DEF Acquire, IInv, TypeOK
<1>5. QED BY <1>1, <1>3, <1>4 DEF IInv

LEMMA AnswerKeeps ==
  ASSUME IInv, NEW f \in Tasks, Reply(f) \/ Fail(f) PROVE IInv'
<1>1. PICK state \in {"answered", "failed"} :
        /\ fetch[f] = "sent" /\ fetch' = [fetch EXCEPT ![f] = state]
        /\ permits' = permits + 1
        /\ UNCHANGED <<task, ingest, sync>>
  BY DEF Reply, Fail
<1>2. fetch' \in [Tasks -> FetchStates] /\ Shared' /\ Answered'
  BY <1>1, TaskMoves
<1>3. Cardinality(InFlight') = Cardinality(InFlight) - 1
  BY <1>1, FlightShrinks
<1>4. f \in InFlight
  BY <1>1 DEF InFlight
<1>5. Cardinality(InFlight) # 0
  BY <1>4, TasksFinite, FS_EmptySet
<1>6. permits' \in 0 .. Concurrency /\ PermitsAccounted'
  BY <1>1, <1>3, <1>5, TasksFinite, FanoutAssumption DEF IInv, TypeOK, PermitsAccounted
<1>7. TypeOK'
  BY <1>1, <1>2, <1>6 DEF IInv, TypeOK
<1>8. QED BY <1>2, <1>6, <1>7 DEF IInv

(* The parents without a task get one, and nobody else does.               *)
LEMMA NewTasksAre ==
  ASSUME IInv, NEW t \in ToFetch
  PROVE  /\ \A f \in NewTasks(t) : /\ f \in Tasks /\ f[1] = t /\ f[2] \in Parents[t]
                                   /\ task[f[2]] = None /\ fetch[f] = "none"
         /\ \A r \in ToFetch : <<r, r>> \notin NewTasks(t)
<1>1. ASSUME NEW f \in NewTasks(t)
      PROVE  /\ f \in Tasks /\ f[1] = t /\ f[2] \in Parents[t]
             /\ task[f[2]] = None /\ fetch[f] = "none"
  <2>1. PICK p \in Parents[t] : task[p] = None /\ f = <<t, p>>
    BY <1>1 DEF NewTasks
  <2>2. f \in Tasks /\ f[1] = t /\ f[2] = p
    BY <2>1, TaskNames
  <2>3. fetch[f] = "none"
    BY <2>1, <2>2, FanoutAssumption DEF IInv, Shared
  <2>4. QED BY <2>1, <2>2, <2>3
<1>2. ASSUME NEW r \in ToFetch, <<r, r>> \in NewTasks(t) PROVE FALSE
  <2>1. task[r] = None
    BY <1>1, <1>2
  <2>2. task[r] = r
    BY DEF IInv, Shared
  <2>3. QED BY <2>1, <2>2, FanoutAssumption
<1>3. QED BY <1>1, <1>2

LEMMA DereferenceKeeps ==
  ASSUME IInv, NEW t \in ToFetch, Dereference(t) PROVE IInv'
<1> USE TaskNames, FanoutAssumption
<1>1. /\ ingest[t] = "raw"
      /\ fetch' = [f \in Tasks |-> IF f \in NewTasks(t) THEN "queued" ELSE fetch[f]]
      /\ task' = [tx \in Txs |-> IF <<t, tx>> \in NewTasks(t) THEN t ELSE task[tx]]
      /\ ingest' = [ingest EXCEPT ![t] = "parents"]
      /\ UNCHANGED <<permits, sync>>
  BY DEF Dereference
<1>2. fetch[<<t, t>>] = "answered"
  BY DEF Dereference, Result, IInv, Shared
<1>3. TypeOK'
  BY <1>1 DEF IInv, TypeOK, FetchStates
<1>4. \A f \in Tasks : fetch[f] # "none" => fetch'[f] = fetch[f]
  BY <1>1, NewTasksAre
<1>5. \A tx \in Txs : task[tx] # None => task'[tx] = task[tx]
  BY <1>1, NewTasksAre
<1>6. Shared'
  <2>1. \A r \in ToFetch : task'[r] = r
    BY <1>5 DEF IInv, Shared
  <2>2. ASSUME NEW f \in NewTasks(t)
        PROVE  /\ task'[f[2]] = f[1]
               /\ f[2] \in Parents[f[1]] /\ fetch'[<<f[1], f[1]>>] = "answered"
    BY <1>1, <1>2, <1>4, NewTasksAre, <2>2
  <2>3. ASSUME NEW f \in Tasks \ NewTasks(t), fetch'[f] # "none"
        PROVE  /\ task'[f[2]] = f[1]
               /\ f[1] # f[2] => f[2] \in Parents[f[1]] /\ fetch'[<<f[1], f[1]>>] = "answered"
    <3>1. fetch[f] # "none"
      BY <1>1, <2>3
    <3>2. QED BY <1>4, <1>5, <3>1 DEF IInv, Shared
  <2>4. QED BY <2>1, <2>2, <2>3 DEF Shared
<1>7. Answered'
  <2>1. ingest \in [ToFetch -> {"raw", "parents", "built", "raised", "cancelled"}]
    BY DEF IInv, TypeOK
  <2>2. \A r \in ToFetch : ingest'[r] \in {"parents", "built"} => fetch'[<<r, r>>] = "answered"
    BY <1>1, <1>2, <1>4, <2>1 DEF IInv, Answered
  <2>3. ASSUME NEW r \in ToFetch, ingest'[r] = "built", NEW p \in Parents[r]
        PROVE  task'[p] # None /\ fetch'[<<task'[p], p>>] = "answered"
    <3>1. ingest[r] = "built"
      BY <1>1, <2>1, <2>3
    <3>2. task[p] # None /\ fetch[<<task[p], p>>] = "answered"
      BY <3>1 DEF IInv, Answered
    <3>3. task[p] \in ToFetch /\ p \in Txs
      BY <3>2 DEF IInv, TypeOK
    <3>4. QED BY <1>4, <1>5, <3>2, <3>3
  <2>4. \A f \in Tasks : fetch[f] = "failed" => fetch'[f] = "failed"
    BY <1>4
  <2>5. \A r \in ToFetch : ingest'[r] = "raised" => ingest[r] = "raised"
    BY <1>1, <2>1
  <2>6. sync' = sync /\ sync # "built"
    BY <1>1 DEF Dereference, Running
  <2>7. QED BY <2>2, <2>3, <2>4, <2>5, <2>6 DEF IInv, Answered
<1>8. InFlight' = InFlight
  BY <1>1, NewTasksAre DEF InFlight, IInv, TypeOK
<1>9. PermitsAccounted'
  BY <1>1, <1>8 DEF IInv, PermitsAccounted
<1>10. QED BY <1>3, <1>6, <1>7, <1>9 DEF IInv

(* The other steps of a coroutine change only its own place.               *)
LEMMA IngestKeeps ==
  ASSUME IInv, NEW t \in ToFetch, Build(t) \/ IngestRaises(t) PROVE IInv'
<1> USE TaskNames, FanoutAssumption
<1>1. UNCHANGED <<task, fetch, permits, sync>> /\ Running
  BY DEF Build, IngestRaises
<1>2. Shared' /\ PermitsAccounted'
  BY <1>1 DEF IInv, Shared, PermitsAccounted, InFlight
<1>3. PICK place \in {"built", "raised"} : ingest' = [ingest EXCEPT ![t] = place]
  BY DEF Build, IngestRaises
<1>4. TypeOK'
  BY <1>1, <1>3 DEF IInv, TypeOK
<1>5. CASE Build(t)
  <2>1. /\ ingest[t] = "parents" /\ ingest' = [ingest EXCEPT ![t] = "built"]
        /\ \A p \in Parents[t] : task[p] # None /\ fetch[<<task[p], p>>] = "answered"
    BY <1>5 DEF Build, Result
  <2>2. \A r \in ToFetch : /\ ingest'[r] \in {"parents", "built"} =>
                                ingest[r] \in {"parents", "built"}
                           /\ ingest'[r] = "built" => (r = t \/ ingest[r] = "built")
                           /\ ingest'[r] = "raised" => ingest[r] = "raised"
    BY <2>1 DEF IInv, TypeOK
  <2>3. sync # "built"
    BY <1>1 DEF Running
  <2>4. Answered'
    BY <1>1, <2>1, <2>2, <2>3 DEF IInv, Answered
  <2>5. QED BY <1>2, <1>4, <2>4 DEF IInv
<1>6. CASE IngestRaises(t)
  <2>1. PICK tx \in Awaited(t) : Result(tx) = "failed"
    BY <1>6 DEF IngestRaises
  <2>2. tx \in Txs
    BY DEF Awaited
  <2>3. task[tx] \in ToFetch /\ fetch[<<task[tx], tx>>] = "failed"
    BY <2>1, <2>2 DEF Result, IInv, TypeOK
  <2>4. \E f \in Tasks : fetch[f] = "failed"
    BY <2>2, <2>3
  <2>5. ingest' = [ingest EXCEPT ![t] = "raised"]
    BY <1>6 DEF IngestRaises
  <2>6. \A r \in ToFetch : ingest'[r] \in {"parents", "built"} => ingest'[r] = ingest[r]
    BY <2>5 DEF IInv, TypeOK
  <2>7. sync # "built"
    BY <1>1 DEF Running
  <2>8. Answered'
    BY <1>1, <2>4, <2>6, <2>7 DEF IInv, Answered
  <2>9. QED BY <1>2, <1>4, <2>8 DEF IInv
<1>7. QED BY <1>2, <1>4, <1>5, <1>6 DEF IInv

LEMMA GatherKeeps ==
  ASSUME IInv, GatherReturns \/ GatherRaises PROVE IInv'
<1>1. UNCHANGED <<task, fetch, permits, ingest>> /\ sync' \in {"built", "closing"}
  BY DEF GatherReturns, GatherRaises
<1>2. TypeOK' /\ Shared' /\ PermitsAccounted'
  BY <1>1 DEF IInv, TypeOK, Shared, PermitsAccounted, InFlight
<1>3. Answered'
  BY <1>1 DEF IInv, Answered, GatherReturns, GatherRaises
<1>4. QED BY <1>2, <1>3 DEF IInv

LEMMA CloseKeeps ==
  ASSUME IInv, Close PROVE IInv'
<1> USE TaskNames
<1>1. /\ sync = "closing" /\ sync' = "raised" /\ permits' = Concurrency /\ task' = task
      /\ fetch' = [f \in Tasks |-> CASE fetch[f] = "sent" -> "failed"
                                     [] fetch[f] = "queued" -> "cancelled"
                                     [] OTHER -> fetch[f]]
      /\ ingest' = [t \in ToFetch |-> IF ingest[t] \in {"raw", "parents"} THEN "cancelled"
                                      ELSE ingest[t]]
  BY DEF Close
<1>2. ASSUME NEW f \in Tasks
      PROVE  /\ fetch'[f] \in FetchStates \ {"sent"}
             /\ fetch[f] \in {"answered", "failed"} => fetch'[f] = fetch[f]
             /\ fetch'[f] # "none" => fetch[f] # "none"
  <2>1. fetch[f] \in FetchStates
    BY DEF IInv, TypeOK
  <2>2. fetch'[f] = CASE fetch[f] = "sent" -> "failed"
                      [] fetch[f] = "queued" -> "cancelled"
                      [] OTHER -> fetch[f]
    BY <1>1
  <2>3. CASE fetch[f] = "sent"
    BY <2>2, <2>3 DEF FetchStates
  <2>4. CASE fetch[f] = "queued"
    BY <2>2, <2>4 DEF FetchStates
  <2>5. CASE fetch[f] \notin {"sent", "queued"}
    BY <2>1, <2>2, <2>5
  <2>6. QED BY <2>3, <2>4, <2>5
<1>3. TypeOK'
  <2>1. fetch' = [f \in Tasks |-> fetch'[f]]
    BY <1>1
  <2>2. fetch' \in [Tasks -> FetchStates]
    BY <1>2, <2>1
  <2>3. ingest' \in [ToFetch -> {"raw", "parents", "built", "raised", "cancelled"}]
    BY <1>1 DEF IInv, TypeOK
  <2>4. permits' \in 0 .. Concurrency
    BY <1>1, FanoutAssumption
  <2>5. QED BY <1>1, <2>2, <2>3, <2>4 DEF IInv, TypeOK
<1>4. InFlight' = {}
  BY <1>2 DEF InFlight
<1>5. PermitsAccounted'
  BY <1>1, <1>4, FS_EmptySet, FanoutAssumption DEF PermitsAccounted
<1>6. Shared'
  BY <1>1, <1>2 DEF IInv, Shared
<1>7. Answered'
  <2>1. \A t \in ToFetch : ingest'[t] \notin {"raw", "parents"}
                          /\ (ingest'[t] = "built" => ingest[t] = "built")
    BY <1>1 DEF IInv, TypeOK
  <2>2. \A t \in ToFetch, p \in Txs : task[p] # None => <<task[p], p>> \in Tasks
    BY DEF IInv, TypeOK
  <2>3. QED BY <1>1, <1>2, <2>1, <2>2 DEF IInv, Answered
<1>8. QED BY <1>3, <1>5, <1>6, <1>7 DEF IInv

LEMMA Invariance == Spec => []IInv
<1>1. Init => IInv
  <2> SUFFICES ASSUME Init PROVE IInv
    OBVIOUS
  <2> USE TaskNames, FanoutAssumption DEF Init
  <2>1. TypeOK
    BY DEF TypeOK, FetchStates
  <2>2. Shared
    BY DEF Shared
  <2>3. Answered
    BY DEF Answered
  <2>4. InFlight = {}
    BY DEF InFlight
  <2>5. PermitsAccounted
    BY <2>4, FS_EmptySet DEF PermitsAccounted
  <2>6. QED BY <2>1, <2>2, <2>3, <2>5 DEF IInv
<1>2. IInv /\ [Next]_vars => IInv'
  <2> SUFFICES ASSUME IInv, [Next]_vars PROVE IInv'
    OBVIOUS
  <2>1. CASE Next
    BY <2>1, AcquireKeeps, AnswerKeeps, DereferenceKeeps, IngestKeeps, GatherKeeps,
       CloseKeeps DEF Next
  <2>2. CASE UNCHANGED vars
    BY <2>2 DEF vars, IInv, TypeOK, Shared, Answered, PermitsAccounted, InFlight
  <2>3. QED BY <2>1, <2>2
<1>3. QED BY <1>1, <1>2, PTL DEF Spec

(* Tasks, coroutines and permits have their types (TypeOK).                *)
THEOREM TypeCorrect == Spec => []TypeOK
  BY Invariance, PTL DEF IInv

(* No permit is lost, whichever request fails or is cancelled              *)
(* (PermitsAccounted).                                                     *)
THEOREM AccountsForPermits == Spec => []PermitsAccounted
  BY Invariance, PTL DEF IInv

(* A coroutine is built only when its transaction and all parents are there. *)
LEMMA BuiltIsComplete == IInv => NothingLeftBehind
<1> SUFFICES ASSUME IInv, sync = "built", NEW f \in Tasks, fetch[f] # "none"
             PROVE  fetch[f] = "answered"
  BY DEF NothingLeftBehind
<1> USE TaskNames DEF IInv
<1>1. f[1] \in ToFetch /\ ingest[f[1]] = "built"
  BY DEF Answered
<1>2. CASE f[1] = f[2]
  BY <1>1, <1>2 DEF Answered
<1>3. CASE f[1] # f[2]
  <2>1. task[f[2]] = f[1] /\ f[2] \in Parents[f[1]]
    BY <1>3 DEF Shared
  <2>2. QED BY <1>1, <2>1 DEF Answered
<1>4. QED BY <1>2, <1>3

(* Every request made has been answered when the rows are handed to the     *)
(* commit (NothingLeftBehind): none failed unseen, none is in flight.       *)
THEOREM LeavesNothingBehind == Spec => []NothingLeftBehind
  BY Invariance, BuiltIsComplete, PTL

-----------------------------------------------------------------------------
(* FetchOnce.                                                              *)

SentTasks == {f \in Tasks : Sent(f)}
Asked == {f[2] : f \in SentTasks}
Known == {f[2] : f \in {g \in Tasks : fetch[g] = "answered"}}
Lost == \E f \in Tasks : fetch[f] = "failed"
Outcome == CASE sync = "built" -> "all" [] sync = "raised" -> "error" [] OTHER -> "pending"

(* A step that leaves these alone is none of FetchOnce's.                  *)
LEMMA Stutters ==
  ASSUME UNCHANGED <<SentTasks, Known, Lost, Outcome>>
  PROVE  UNCHANGED Abstract!vars
  BY DEF Abstract!vars, SentTasks, Known, Lost, Outcome, Sent

LEMMA Pending ==
  ASSUME IInv, Running PROVE Outcome = "pending"
  BY DEF Running, Outcome

(* What a coroutine has a task for is wanted.                              *)
LEMMA TasksAreWanted ==
  ASSUME IInv, NEW f \in Tasks, fetch[f] # "none" PROVE f[2] \in Abstract!Wanted
<1> USE TaskNames DEF IInv
<1>1. CASE f[1] = f[2]
  BY <1>1 DEF Abstract!Wanted
<1>2. CASE f[1] # f[2]
  <2>1. f[2] \in Parents[f[1]] /\ fetch[<<f[1], f[1]>>] = "answered"
    BY <1>2 DEF Shared
  <2>2. <<f[1], f[1]>> \in Tasks /\ <<f[1], f[1]>>[2] = f[1]
    OBVIOUS
  <2>3. f[1] \in Known
    BY <2>1, <2>2 DEF Known
  <2>4. QED BY <2>1, <2>3 DEF Known, Abstract!Wanted
<1>3. QED BY <1>1, <1>2

LEMMA AcquireAsks ==
  ASSUME IInv, NEW f \in Tasks, Acquire(f) PROVE Abstract!Ask(f[2])
<1> USE TaskNames
<1>1. /\ Running /\ fetch[f] = "queued" /\ fetch' = [fetch EXCEPT ![f] = "sent"]
      /\ fetch \in [Tasks -> FetchStates] /\ sync' = sync
  BY DEF Acquire, IInv, TypeOK
<1>2. SentTasks' = SentTasks \cup {f} /\ f \notin SentTasks
  BY <1>1 DEF SentTasks, Sent
<1>3. SentTasks \in SUBSET Tasks /\ IsFiniteSet(SentTasks)
  <2>1. SentTasks \in SUBSET Tasks
    BY DEF SentTasks
  <2>2. QED BY <2>1, TasksFinite, FS_Subset
<1>4. Cardinality(SentTasks') = Cardinality(SentTasks) + 1
  BY <1>2, <1>3, FS_AddElement
<1>5. Asked' = Asked \cup {f[2]}
  BY <1>2 DEF Asked
<1>6. f[2] \notin Asked
  <2>1. ASSUME NEW g \in SentTasks, g[2] = f[2] PROVE FALSE
    <3>1. g \in Tasks /\ fetch[g] # "none"
      BY <2>1 DEF SentTasks, Sent
    <3>2. g[1] = task[g[2]] /\ f[1] = task[f[2]]
      BY <1>1, <3>1 DEF IInv, Shared
    <3>3. g = f
      BY <2>1, <3>1, <3>2
    <3>4. QED BY <1>2, <2>1, <3>3
  <2>2. QED BY <2>1 DEF Asked
<1>7. Known' = Known /\ Lost' = Lost /\ Outcome' = Outcome
  BY <1>1 DEF Known, Lost, Outcome
<1>8. f[2] \in Abstract!Wanted /\ Outcome = "pending"
  BY <1>1, TasksAreWanted, Pending
<1>9. QED BY <1>4, <1>5, <1>6, <1>7, <1>8
         DEF Abstract!Ask, SentTasks, Asked, Known, Lost, Outcome

LEMMA ReplyLearns ==
  ASSUME IInv, NEW f \in Tasks, Reply(f) PROVE Abstract!Learn(f[2])
<1> USE TaskNames
<1>1. /\ Running /\ fetch[f] = "sent" /\ fetch' = [fetch EXCEPT ![f] = "answered"]
      /\ fetch \in [Tasks -> FetchStates] /\ sync' = sync
  BY DEF Reply, IInv, TypeOK
<1>2. SentTasks' = SentTasks /\ f \in SentTasks
  BY <1>1 DEF SentTasks, Sent
<1>3. Known' = Known \cup {f[2]} /\ f[2] \in Asked
  BY <1>1, <1>2 DEF Known, Asked
<1>4. f[2] \notin Known
  <2>1. ASSUME NEW g \in Tasks, fetch[g] = "answered", g[2] = f[2] PROVE FALSE
    <3>1. g[1] = task[g[2]] /\ f[1] = task[f[2]]
      BY <1>1, <2>1 DEF IInv, Shared
    <3>2. g = f
      BY <2>1, <3>1
    <3>3. QED BY <1>1, <2>1, <3>2
  <2>2. QED BY <2>1 DEF Known
<1>5. Lost' = Lost /\ Outcome' = Outcome /\ Outcome = "pending"
  BY <1>1, Pending DEF Lost, Outcome
<1>6. QED BY <1>2, <1>3, <1>4, <1>5
         DEF Abstract!Learn, SentTasks, Asked, Known, Lost, Outcome

LEMMA FailLoses ==
  ASSUME IInv, NEW f \in Tasks, Fail(f) PROVE Abstract!Lose
<1>1. /\ Running /\ fetch[f] = "sent" /\ fetch' = [fetch EXCEPT ![f] = "failed"]
      /\ fetch \in [Tasks -> FetchStates] /\ sync' = sync
  BY DEF Fail, IInv, TypeOK
<1>2. SentTasks' = SentTasks
  BY <1>1 DEF SentTasks, Sent
<1>3. Known' = Known /\ Lost' = TRUE
  BY <1>1 DEF Known, Lost
<1>4. Outcome' = Outcome /\ Outcome = "pending"
  BY <1>1, Pending DEF Outcome
<1>5. QED BY <1>2, <1>3, <1>4 DEF Abstract!Lose, SentTasks, Known, Lost, Outcome

(* New tasks are not sent yet, and what the coroutines do with the answers *)
(* concerns no request.                                                    *)
LEMMA CoroutinesStutter ==
  ASSUME IInv, NEW t \in ToFetch, Dereference(t) \/ Build(t) \/ IngestRaises(t)
  PROVE  UNCHANGED Abstract!vars
<1>1. sync' = sync
  BY DEF Dereference, Build, IngestRaises
<1>2. \A f \in Tasks : fetch'[f] = fetch[f] \/ (fetch[f] = "none" /\ fetch'[f] = "queued")
  BY NewTasksAre DEF Dereference, Build, IngestRaises
<1>3. \A f \in Tasks : Sent(f)' <=> Sent(f)
  BY <1>2 DEF Sent
<1>4. SentTasks' = SentTasks
  BY <1>3 DEF SentTasks
<1>5. {g \in Tasks : fetch[g] = "answered"}' = {g \in Tasks : fetch[g] = "answered"}
  BY <1>2
<1>6. Known' = Known
  BY <1>5 DEF Known
<1>7. Lost' = Lost /\ Outcome' = Outcome
  BY <1>1, <1>2 DEF Lost, Outcome
<1>8. QED BY <1>4, <1>6, <1>7, Stutters

LEMMA ReturnFinishes ==
  ASSUME IInv, GatherReturns PROVE Abstract!Finish
<1> USE TaskNames DEF IInv
<1>1. /\ sync = "gathering" /\ sync' = "built" /\ UNCHANGED <<task, fetch, permits, ingest>>
      /\ \A t \in ToFetch : ingest[t] = "built"
  BY DEF GatherReturns
<1>2. ASSUME NEW tx \in Abstract!Wanted PROVE tx \in Known
  <2>1. CASE tx \in ToFetch
    <3>1. <<tx, tx>> \in Tasks /\ fetch[<<tx, tx>>] = "answered" /\ <<tx, tx>>[2] = tx
      BY <1>1, <2>1 DEF Answered
    <3>2. QED BY <3>1 DEF Known
  <2>2. CASE tx \notin ToFetch
    <3>1. PICK t \in ToFetch : tx \in Parents[t]
      BY <1>2, <2>2 DEF Abstract!Wanted
    <3>2. task[tx] # None /\ fetch[<<task[tx], tx>>] = "answered"
      BY <1>1, <3>1 DEF Answered
    <3>3. <<task[tx], tx>> \in Tasks /\ <<task[tx], tx>>[2] = tx
      BY <3>1, <3>2 DEF TypeOK
    <3>4. QED BY <3>2, <3>3 DEF Known
  <2>3. QED BY <2>1, <2>2
<1>3. Outcome = "pending" /\ Outcome' = "all"
  BY <1>1 DEF Outcome
<1>4. SentTasks' = SentTasks /\ Known' = Known /\ Lost' = Lost
  BY <1>1 DEF SentTasks, Sent, Known, Lost
<1>5. QED BY <1>2, <1>3, <1>4 DEF Abstract!Finish, SentTasks, Known, Lost, Outcome

LEMMA CloseFinishes ==
  ASSUME IInv, Close PROVE Abstract!Finish
<1>1. sync = "closing" /\ sync' = "raised"
  BY DEF Close
<1>2. ASSUME NEW f \in Tasks
      PROVE  /\ Sent(f)' <=> Sent(f)
             /\ fetch'[f] = "answered" <=> fetch[f] = "answered"
             /\ fetch[f] = "failed" => fetch'[f] = "failed"
  <2>1. fetch'[f] = CASE fetch[f] = "sent" -> "failed"
                      [] fetch[f] = "queued" -> "cancelled"
                      [] OTHER -> fetch[f]
    BY DEF Close
  <2>2. CASE fetch[f] = "sent"
    BY <2>1, <2>2 DEF Sent
  <2>3. CASE fetch[f] = "queued"
    BY <2>1, <2>3 DEF Sent
  <2>4. CASE fetch[f] \notin {"sent", "queued"}
    BY <2>1, <2>4 DEF Sent
  <2>5. QED BY <2>2, <2>3, <2>4
<1>3. SentTasks' = SentTasks
  BY <1>2 DEF SentTasks
<1>4. {g \in Tasks : fetch[g] = "answered"}' = {g \in Tasks : fetch[g] = "answered"}
  BY <1>2
<1>5. Known' = Known
  BY <1>4 DEF Known
<1>6. Lost /\ Lost'
  BY <1>1, <1>2 DEF Lost, IInv, Answered
<1>7. Outcome = "pending" /\ Outcome' = "error"
  BY <1>1 DEF Outcome
<1>8. QED BY <1>3, <1>5, <1>6, <1>7 DEF Abstract!Finish, SentTasks, Known, Lost, Outcome

(* The shared tasks make one request per transaction, none for one nobody  *)
(* wants, and the sync gets all of them or an error after one was lost     *)
(* (AsksOnce).                                                             *)
THEOREM ImplementsFetchOnce == Spec => AsksOnce
<1>1. Init => Abstract!Init
  <2> SUFFICES ASSUME Init PROVE Abstract!Init
    OBVIOUS
  <2>1. \A f \in Tasks : fetch[f] \in {"queued", "none"}
    BY DEF Init
  <2>2. SentTasks = {} /\ Known = {} /\ ~Lost
    BY <2>1 DEF SentTasks, Sent, Known, Lost
  <2>3. Asked = {} /\ Cardinality(SentTasks) = 0
    BY <2>2, FS_EmptySet DEF Asked
  <2>4. Outcome = "pending"
    BY DEF Init, Outcome
  <2>5. QED BY <2>2, <2>3, <2>4 DEF Abstract!Init, SentTasks, Asked, Known, Lost, Outcome
<1>2. IInv /\ [Next]_vars => [Abstract!Next]_(Abstract!vars)
  <2> SUFFICES ASSUME IInv, [Next]_vars PROVE Abstract!Next \/ UNCHANGED Abstract!vars
    OBVIOUS
  <2>1. ASSUME NEW f \in Tasks, Acquire(f) \/ Reply(f) \/ Fail(f) PROVE Abstract!Next
    <3>1. f[2] \in Txs
      BY TaskNames
    <3>2. QED BY <2>1, <3>1, AcquireAsks, ReplyLearns, FailLoses DEF Abstract!Next
  <2>2. ASSUME NEW t \in ToFetch, Dereference(t) \/ Build(t) \/ IngestRaises(t)
        PROVE  UNCHANGED Abstract!vars
    BY <2>2, CoroutinesStutter
  <2>3. CASE GatherReturns \/ Close
    BY <2>3, ReturnFinishes, CloseFinishes DEF Abstract!Next
  <2>4. CASE GatherRaises
    <3>1. SentTasks' = SentTasks /\ Known' = Known /\ Lost' = Lost /\ Outcome' = Outcome
      BY <2>4 DEF GatherRaises, SentTasks, Sent, Known, Lost, Outcome
    <3>2. QED BY <3>1, Stutters
  <2>5. CASE UNCHANGED vars
    <3>1. SentTasks' = SentTasks /\ Known' = Known /\ Lost' = Lost /\ Outcome' = Outcome
      BY <2>5 DEF vars, SentTasks, Sent, Known, Lost, Outcome
    <3>2. QED BY <3>1, Stutters
  <2>6. QED BY <2>1, <2>2, <2>3, <2>4, <2>5 DEF Next
<1>3. QED BY <1>1, <1>2, Invariance, PTL DEF Spec, AsksOnce, Abstract!Spec
=============================================================================
