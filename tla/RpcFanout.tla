----------------------------- MODULE RpcFanout ------------------------------
(***************************************************************************)
(* The ingest of a sync (_do_sync of sync.py, step 3): one coroutine per   *)
(* new transaction fetches it and then its parents, through tasks that all *)
(* coroutines share and under a semaphore that caps the requests in        *)
(* flight; ElectrumClient._call gives each request 30 seconds.             *)
(*                                                                         *)
(* A coroutine runs alone until it awaits; what it does in between is one  *)
(* action.  A task is named by the coroutine that created it and its       *)
(* transaction.  A parent that is spent twice, which gives the same task   *)
(* twice, is one parent here; the semaphore's queue has no order.          *)
(***************************************************************************)
EXTENDS Integers, FiniteSets

CONSTANTS
  Txs,            \* transactions of the chain
  ToFetch,        \* to_fetch: the ones the database does not have
  Parents,        \* transaction -> the ones its inputs spend from, no coinbase
  Concurrency,    \* _RPC_CONCURRENCY
  None            \* no task

ASSUME FanoutAssumption ==
  /\ IsFiniteSet(Txs) /\ ToFetch \subseteq Txs /\ ToFetch # {}
  /\ Parents \in [Txs -> SUBSET Txs]
  /\ Concurrency \in Nat \ {0}
  /\ None \notin ToFetch

VARIABLES
  task,           \* tx_tasks: transaction -> creator of its task, or None
  fetch,          \* <<creator, transaction>> -> state of that task
  permits,        \* the semaphore's value
  ingest,         \* new transaction -> place of ingest_one
  sync            \* "gathering", "built", "closing", "raised"

vars == <<task, fetch, permits, ingest, sync>>

Tasks == ToFetch \X Txs
InFlight == {f \in Tasks : fetch[f] = "sent"}
Result(tx) == IF task[tx] = None THEN "none" ELSE fetch[<<task[tx], tx>>]
Running == sync \in {"gathering", "closing"}

\* gather has started every coroutine, each of which awaits its own transaction.
Init ==
  /\ task = [tx \in Txs |-> IF tx \in ToFetch THEN tx ELSE None]
  /\ fetch = [f \in Tasks |-> IF f[1] = f[2] THEN "queued" ELSE "none"]
  /\ permits = Concurrency
  /\ ingest = [t \in ToFetch |-> "raw"]
  /\ sync = "gathering"

-----------------------------------------------------------------------------
(* fetch_tx_raw and ElectrumClient._call.                                  *)

\* Fault: the semaphore lets everybody pass.
AcquireUnchecked(f) ==
  /\ Running
  /\ fetch[f] = "queued"
  /\ fetch' = [fetch EXCEPT ![f] = "sent"]
  /\ permits' = permits - 1
  /\ UNCHANGED <<task, ingest, sync>>

\* async with sem: the request is sent, and its 30 seconds begin.
Acquire(f) ==
  /\ Running
  /\ fetch[f] = "queued"
  /\ permits > 0
  /\ fetch' = [fetch EXCEPT ![f] = "sent"]
  /\ permits' = permits - 1
  /\ UNCHANGED <<task, ingest, sync>>

\* Fault: the permit is kept for the parents that are still to be fetched.
ReplyKeepingPermit(f) ==
  /\ Running
  /\ fetch[f] = "sent"
  /\ fetch' = [fetch EXCEPT ![f] = "answered"]
  /\ permits' = IF f[1] = f[2] THEN permits ELSE permits + 1
  /\ UNCHANGED <<task, ingest, sync>>

Reply(f) ==
  /\ Running
  /\ fetch[f] = "sent"
  /\ fetch' = [fetch EXCEPT ![f] = "answered"]
  /\ permits' = permits + 1
  /\ UNCHANGED <<task, ingest, sync>>

\* The server reports an error, the connection breaks or the time is up.
Fail(f) ==
  /\ Running
  /\ fetch[f] = "sent"
  /\ fetch' = [fetch EXCEPT ![f] = "failed"]
  /\ permits' = permits + 1
  /\ UNCHANGED <<task, ingest, sync>>

-----------------------------------------------------------------------------
(* ingest_one.                                                             *)

\* Fault: get_tx makes a task for every caller.
NewTasksEach(t) == {<<t, p>> : p \in Parents[t]}

\* get_tx of each parent: a task for those that have none.
NewTasks(t) == {<<t, p>> : p \in {q \in Parents[t] : task[q] = None}}

\* The transaction is there: ask for its parents.
Dereference(t) ==
  /\ Running
  /\ ingest[t] = "raw"
  /\ Result(t) = "answered"
  /\ fetch' = [f \in Tasks |-> IF f \in NewTasks(t) THEN "queued" ELSE fetch[f]]
  /\ task' = [tx \in Txs |-> IF <<t, tx>> \in NewTasks(t) THEN t ELSE task[tx]]
  /\ ingest' = [ingest EXCEPT ![t] = "parents"]
  /\ UNCHANGED <<permits, sync>>

\* All parents are there: the rows are built.
Build(t) ==
  /\ Running
  /\ ingest[t] = "parents"
  /\ \A p \in Parents[t] : Result(p) = "answered"
  /\ ingest' = [ingest EXCEPT ![t] = "built"]
  /\ UNCHANGED <<task, fetch, permits, sync>>

Awaited(t) == IF ingest[t] = "raw" THEN {t} ELSE Parents[t]

\* The exception of a task reaches everybody who awaits it.
IngestRaises(t) ==
  /\ Running
  /\ ingest[t] \in {"raw", "parents"}
  /\ \E tx \in Awaited(t) : Result(tx) = "failed"
  /\ ingest' = [ingest EXCEPT ![t] = "raised"]
  /\ UNCHANGED <<task, fetch, permits, sync>>

-----------------------------------------------------------------------------
(* _do_sync.                                                               *)

\* Fault: gather returns its exceptions instead of raising them, and what was
\* built is committed.
GatherReturnsAnyway ==
  /\ sync = "gathering"
  /\ \A t \in ToFetch : ingest[t] \in {"built", "raised"}
  /\ sync' = "built"
  /\ UNCHANGED <<task, fetch, permits, ingest>>

GatherReturns ==
  /\ sync = "gathering"
  /\ \A t \in ToFetch : ingest[t] = "built"
  /\ sync' = "built"
  /\ UNCHANGED <<task, fetch, permits, ingest>>

\* The first exception leaves gather and enters __aexit__, which awaits the end
\* of the connection; the other coroutines go on meanwhile.
GatherRaises ==
  /\ sync = "gathering"
  /\ \E t \in ToFetch : ingest[t] = "raised"
  /\ sync' = "closing"
  /\ UNCHANGED <<task, fetch, permits, ingest>>

\* The connection is closed, and asyncio.run cancels what is left.
Close ==
  /\ sync = "closing"
  /\ sync' = "raised"
  /\ fetch' = [f \in Tasks |-> CASE fetch[f] = "sent" -> "failed"
                                 [] fetch[f] = "queued" -> "cancelled"
                                 [] OTHER -> fetch[f]]
  /\ permits' = Concurrency
  /\ ingest' = [t \in ToFetch |-> IF ingest[t] \in {"raw", "parents"} THEN "cancelled"
                                  ELSE ingest[t]]
  /\ UNCHANGED task

Next ==
  \/ \E f \in Tasks : Acquire(f) \/ Reply(f) \/ Fail(f)
  \/ \E t \in ToFetch : Dereference(t) \/ Build(t) \/ IngestRaises(t)
  \/ GatherReturns \/ GatherRaises \/ Close

Spec == Init /\ [][Next]_vars

\* The event loop runs what is ready; a request is answered or times out.
FairSpec ==
  /\ Spec
  /\ \A f \in Tasks : WF_vars(Acquire(f)) /\ WF_vars(Reply(f) \/ Fail(f))
  /\ \A t \in ToFetch : WF_vars(Dereference(t) \/ Build(t) \/ IngestRaises(t))
  /\ WF_vars(GatherReturns \/ GatherRaises \/ Close)

-----------------------------------------------------------------------------
(* Properties.                                                             *)

FetchStates == {"none", "queued", "sent", "answered", "failed", "cancelled"}

\* The tasks, the coroutines and the semaphore have their types.
TypeOK ==
  /\ task \in [Txs -> ToFetch \cup {None}]
  /\ fetch \in [Tasks -> FetchStates]
  /\ permits \in 0 .. Concurrency
  /\ ingest \in [ToFetch -> {"raw", "parents", "built", "raised", "cancelled"}]
  /\ sync \in {"gathering", "built", "closing", "raised"}

\* The permits handed out are those of the requests in flight, however they
\* ended: no failure, timeout or cancellation loses one, so at most Concurrency
\* requests are in flight ("Cap on in-flight RPCs", sync.py).
PermitsAccounted ==
  /\ permits \in 0 .. Concurrency
  /\ permits + Cardinality(InFlight) = Concurrency

\* When the rows are handed to the commit, every request that was made has been
\* answered: none failed unseen, none is queued or in flight on a connection
\* that is about to be closed.
NothingLeftBehind ==
  sync = "built" =>
    \A f \in Tasks : fetch[f] \in {"none", "answered"}

\* The shared tasks are one request per transaction, and the result is complete.
Sent(f) == fetch[f] \in {"sent", "answered", "failed"}
Abstract == INSTANCE FetchOnce WITH
  requests <- Cardinality({f \in Tasks : Sent(f)}),
  asked <- {f[2] : f \in {g \in Tasks : Sent(g)}},
  known <- {f[2] : f \in {g \in Tasks : fetch[g] = "answered"}},
  lost <- \E f \in Tasks : fetch[f] = "failed",
  outcome <- CASE sync = "built" -> "all" [] sync = "raised" -> "error"
               [] OTHER -> "pending"
AsksOnce == Abstract!Spec

\* No coroutine waits for ever, in particular not for a permit held by another
\* one that waits: the ingest returns or raises.
IngestEnds == <>(sync \in {"built", "raised"})
=============================================================================
