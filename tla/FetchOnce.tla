----------------------------- MODULE FetchOnce ------------------------------
(***************************************************************************)
(* What the ingest of a sync promises about its requests ("one RPC per     *)
(* txid even when many vins share the same parent", sync.py): a            *)
(* transaction is asked for once, only if it is new or a parent of a new   *)
(* one, and the outcome is all of them, or an error after one of the       *)
(* requests failed.                                                        *)
(***************************************************************************)
EXTENDS Naturals, FiniteSets

CONSTANTS
  Txs,          \* transactions of the chain
  ToFetch,      \* those the database does not have yet
  Parents       \* transaction -> the ones its inputs spend from

VARIABLES
  requests,     \* number of requests sent
  asked,        \* transactions asked for
  known,        \* transactions received
  lost,         \* has a request failed?
  outcome       \* "pending", "all" or "error"

vars == <<requests, asked, known, lost, outcome>>

Wanted == ToFetch \cup UNION {Parents[t] : t \in ToFetch \cap known}

Init ==
  /\ requests = 0 /\ asked = {} /\ known = {}
  /\ lost = FALSE
  /\ outcome = "pending"

Ask(t) ==
  /\ outcome = "pending"
  /\ t \in Wanted \ asked
  /\ asked' = asked \cup {t}
  /\ requests' = requests + 1
  /\ UNCHANGED <<known, lost, outcome>>

Learn(t) ==
  /\ outcome = "pending"
  /\ t \in asked \ known
  /\ known' = known \cup {t}
  /\ UNCHANGED <<requests, asked, lost, outcome>>

Lose ==
  /\ outcome = "pending"
  /\ lost' = TRUE
  /\ UNCHANGED <<requests, asked, known, outcome>>

Finish ==
  /\ outcome = "pending"
  /\ \/ Wanted \subseteq known /\ outcome' = "all"
     \/ lost /\ outcome' = "error"
  /\ UNCHANGED <<requests, asked, known, lost>>

Next ==
  \/ \E t \in Txs : Ask(t) \/ Learn(t)
  \/ Lose \/ Finish

Spec == Init /\ [][Next]_vars
=============================================================================
