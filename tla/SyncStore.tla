----------------------------- MODULE SyncStore ------------------------------
(***************************************************************************)
(* The database of sync.py and everyone who writes it: syncs (run_sync),   *)
(* each in a thread of its own, and the wallet page (add_wallet,           *)
(* remove_wallet), over a blockchain that keeps moving.                    *)
(*                                                                         *)
(* A table is a function from primary keys to rows.  SQLite hands out      *)
(* max(rowid) + 1, so the id of a deleted last row is used again.  A       *)
(* SELECT sees the database of its moment and holds no lock; the writes of *)
(* a session_scope() become visible together at its commit.  Hence a       *)
(* session that reads, computes and writes is two steps here whenever      *)
(* another actor can write between them to some effect.                    *)
(*                                                                         *)
(* A chain scan discovers the addresses `Derive` gives for the wallet's    *)
(* value (how it finds them is the subject of GapScan).  What a wallet is  *)
(* called, the derivation index and the amounts of money are left out.     *)
(***************************************************************************)
EXTENDS TxRules, FiniteSetsExt

CONSTANTS
  Syncs,         \* threads that may run a sync
  Values,        \* what wallets are made of: xpubs, descriptors, addresses
  Single,        \* those of Values that are single addresses
  Derive,        \* value -> its addresses, receive chain then change chain
  TxId,          \* transactions of the blockchain
  Tx,            \* txid -> its inputs and outputs
  Parents,       \* txid -> the transactions whose outputs it spends
  Quoted,        \* the txids whose day the bundled price snapshot covers
  Currencies,    \* what BASE_CURRENCY may be set to
  None,          \* NULL
  MaxEdits,      \* bound: imports and removals of wallets
  MaxFaults      \* bound: syncs that raise, and restarts

Addresses == UNION {Range(Derive[v]) : v \in Values}

ASSUME StoreAssumption ==
  /\ \A v \in Values : Derive[v] \in Seq(Addresses)
  /\ Single \subseteq Values
  /\ \A v \in Single : Len(Derive[v]) = 1
  /\ None \notin Currencies
  /\ None \notin Nat
  /\ MaxEdits \in Nat /\ MaxFaults \in Nat

VARIABLES
  wallet,        \* table: id -> the value the wallet was made from
  address,       \* table: id -> [wallet, address, used]
  transaction,   \* table: txid -> [class, timed, price]
  txio,          \* table: txid -> slot -> [owned, wallet]
  chain,         \* txid -> "absent", "mempool" or "mined"
  currency,      \* the base currency this process was started with
  sync,          \* each sync: its place and what it has read
  edits,         \* how often the user changed the wallets
  faults         \* how often something broke

tables == <<wallet, address, transaction, txio>>
vars == <<tables, chain, currency, sync, edits, faults>>

Empty == [i \in {} |-> None]

\* A table with rows added to it (or a map with entries replaced).
Extend(table, rows) ==
  [key \in DOMAIN table \cup DOMAIN rows |->
     IF key \in DOMAIN rows THEN rows[key] ELSE table[key]]

\* A sync that is not running.
Idle == [pc |-> "idle", specs |-> Empty, seen |-> Empty, existing |-> {},
         own |-> Empty, fetch |-> {}, ios |-> Empty, rows |-> {}, quiet |-> TRUE]

Running(s) == sync[s].pc # "idle"

-----------------------------------------------------------------------------
(* The blockchain, as the Electrum server shows it.                        *)

IosOf(t) == {IoAt(Tx[t], slot).address : slot \in Slots(Tx[t])}

\* blockchain.scripthash.get_history: what touches the address, mempool too.
History(a) == {t \in TxId : chain[t] # "absent" /\ a \in IosOf(t)}

\* An environment step: nobody's sync runs undisturbed any more.  (`quiet` is
\* a history variable, read by the properties only.)
Disturb(syncs) == [s \in Syncs |-> IF syncs[s].pc = "idle" THEN syncs[s]
                                   ELSE [syncs[s] EXCEPT !.quiet = FALSE]]

Broadcast(t) ==
  /\ chain[t] = "absent"
  /\ \A p \in Parents[t] : chain[p] # "absent"
  /\ chain' = [chain EXCEPT ![t] = "mempool"]
  /\ sync' = Disturb(sync)
  /\ UNCHANGED <<tables, currency, edits, faults>>

Mine(t) ==
  /\ chain[t] = "mempool"
  /\ \A p \in Parents[t] : chain[p] = "mined"
  /\ chain' = [chain EXCEPT ![t] = "mined"]
  /\ sync' = Disturb(sync)
  /\ UNCHANGED <<tables, currency, edits, faults>>

-----------------------------------------------------------------------------
(* The wallet page.                                                        *)

\* Fault: ids are numbered by the rows there are.
NextIdByCount(table) == Cardinality(DOMAIN table)

\* The id SQLite gives to the next row of a table.
NextId(table) == IF DOMAIN table = {} THEN 1 ELSE Max(DOMAIN table) + 1

\* add_wallet: wallet.value is UNIQUE, a second import of it is refused.
AddWallet(v) ==
  /\ edits < MaxEdits
  /\ \A id \in DOMAIN wallet : wallet[id] # v
  /\ wallet' = Extend(wallet, [id \in {NextId(wallet)} |-> v])
  /\ edits' = edits + 1
  /\ sync' = Disturb(sync)
  /\ UNCHANGED <<address, transaction, txio, chain, currency, faults>>

\* remove_wallet: the ORM deletes the wallet and its address rows.  Nothing
\* enforces the foreign key of tx_io, whose wallet_id stays as it is.
RemoveWallet(id) ==
  /\ edits < MaxEdits
  /\ id \in DOMAIN wallet
  /\ wallet' = RestrictDomain(wallet, LAMBDA i : i # id)
  /\ address' = RestrictDomain(address, LAMBDA r : address[r].wallet # id)
  /\ edits' = edits + 1
  /\ sync' = Disturb(sync)
  /\ UNCHANGED <<transaction, txio, chain, currency, faults>>

-----------------------------------------------------------------------------
(* run_sync, step by step.                                                 *)

\* Read the wallets and start.
Begin(s) ==
  /\ sync[s].pc = "idle"
  /\ sync' = [sync EXCEPT ![s] =
       [Idle EXCEPT !.pc = "scan", !.specs = wallet,
                    !.quiet = \A r \in Syncs : sync[r].quiet]]
  /\ UNCHANGED <<tables, chain, currency, edits, faults>>

\* The wallet whose turn it is: they are taken in the order of their ids.
Current(s) == CHOOSE id \in DOMAIN sync[s].specs :
                \A other \in DOMAIN sync[s].specs : id <= other

HistoriesOf(addresses) == [a \in addresses |-> History(a)]

\* Walk both chains of the wallet, keeping the histories, and read the rows it
\* has in `address`.  A single address is not looked up yet.
Scan(s) ==
  /\ sync[s].pc = "scan"
  /\ sync[s].specs # Empty
  /\ LET id    == Current(s)
         value == sync[s].specs[id]
     IN sync' = [sync EXCEPT
          ![s].pc = "persist",
          ![s].seen = IF value \in Single THEN @
                      ELSE Extend(@, HistoriesOf(Range(Derive[value]))),
          ![s].existing = {address[r].address :
                             r \in {q \in DOMAIN address : address[q].wallet = id}}]
  /\ UNCHANGED <<tables, chain, currency, edits, faults>>

\* What is to be added: the places, in the order of the chains, whose address
\* has no row yet.  The set of existing addresses is not extended on the way.
Added(s) == LET derived == Derive[sync[s].specs[Current(s)]]
            IN  {i \in DOMAIN derived : derived[i] \notin sync[s].existing}

\* UNIQUE (wallet_id, address) refuses the rows.
AddressConflict(s) ==
  LET derived == Derive[sync[s].specs[Current(s)]]
  IN  \/ \E i, j \in Added(s) : i # j /\ derived[i] = derived[j]
      \/ \E r \in DOMAIN address, i \in Added(s) :
           address[r].wallet = Current(s) /\ address[r].address = derived[i]

\* The rows added get ids one after the other.
AddressRows(s) ==
  LET id      == Current(s)
      derived == Derive[sync[s].specs[id]]
      RowId(i) == NextId(address) + Cardinality({j \in Added(s) : j < i})
  IN  [r \in {RowId(i) : i \in Added(s)} |->
         [wallet  |-> id,
          address |-> derived[CHOOSE i \in Added(s) : RowId(i) = r],
          used    |-> FALSE]]

\* _persist_addresses (and its twin for a single address, which then fetches
\* the history of the address unless an earlier wallet already has).
PersistAddresses(s) ==
  /\ sync[s].pc = "persist"
  /\ ~AddressConflict(s)
  /\ address' = Extend(address, AddressRows(s))
  /\ LET id    == Current(s)
         value == sync[s].specs[id]
     IN sync' = [sync EXCEPT
          ![s].pc = "scan",
          ![s].specs = RestrictDomain(@, LAMBDA i : i # id),
          ![s].seen = IF value \in Single
                      THEN Extend(HistoriesOf(Range(Derive[value])), @) ELSE @,
          ![s].existing = {}]
  /\ UNCHANGED <<wallet, transaction, txio, chain, currency, edits, faults>>

\* _all_owned_addresses: address -> wallet_id; of two rows for one address the
\* last one read, with the highest id, counts.
OwnedAddresses(rows) ==
  LET Newest(a) == Max({r \in DOMAIN rows : rows[r].address = a})
  IN  [a \in {rows[r].address : r \in DOMAIN rows} |-> rows[Newest(a)].wallet]

\* The snapshot of the owned addresses that this sync ingests with.
ReadOwned(s) ==
  /\ sync[s].pc = "scan"
  /\ sync[s].specs = Empty
  /\ sync' = [sync EXCEPT ![s].pc = "discover",
                          ![s].own = OwnedAddresses(address)]
  /\ UNCHANGED <<tables, chain, currency, edits, faults>>

\* Fault: only histories of this run's scans count, address rows left over from
\* a removed wallet are forgotten.
DiscoverScannedOnly(s) ==
  /\ sync[s].pc = "discover"
  /\ LET scanned == DOMAIN sync[s].own \cap DOMAIN sync[s].seen
         toFetch == (UNION {sync[s].seen[a] : a \in scanned}) \ DOMAIN transaction
     IN sync' = [sync EXCEPT
          ![s].pc = IF toFetch = {} THEN "refresh" ELSE "ingest",
          ![s].seen = Empty,
          ![s].fetch = toFetch]
  /\ UNCHANGED <<tables, chain, currency, edits, faults>>

\* Fault: without new transactions the reclassification is skipped.
DiscoverSkipsRefresh(s) ==
  /\ sync[s].pc = "discover"
  /\ LET owned    == DOMAIN sync[s].own
         complete == Extend(HistoriesOf(owned), sync[s].seen)
         toFetch  == (UNION {complete[a] : a \in owned}) \ DOMAIN transaction
     IN sync' = [sync EXCEPT
          ![s].pc = IF toFetch = {} THEN "price" ELSE "ingest",
          ![s].seen = Empty,
          ![s].fetch = toFetch]
  /\ UNCHANGED <<tables, chain, currency, edits, faults>>

\* Fetch the histories of owned addresses that no wallet led to, collect the
\* txids of all of them and see which are not stored.
Discover(s) ==
  /\ sync[s].pc = "discover"
  /\ LET owned    == DOMAIN sync[s].own
         complete == Extend(HistoriesOf(owned), sync[s].seen)
         toFetch  == (UNION {complete[a] : a \in owned}) \ DOMAIN transaction
     IN sync' = [sync EXCEPT
          ![s].pc = IF toFetch = {} THEN "refresh" ELSE "ingest",
          ![s].seen = Empty,
          ![s].fetch = toFetch]
  /\ UNCHANGED <<tables, chain, currency, edits, faults>>

\* owned and wallet_id of a tx_io row, by a map of the owned addresses.
Flag(own, t, slot) ==
  LET a == IoAt(Tx[t], slot).address
  IN  [owned  |-> a \in DOMAIN own,
       wallet |-> IF a \in DOMAIN own THEN own[a] ELSE None]

Flags(own, t) == [slot \in Slots(Tx[t]) |-> Flag(own, t, slot)]

\* Fetch the transactions with their prevouts, build the rows (_build_tx: one
\* that is not mined has no block time) and add all of them in one commit.
Ingest(s) ==
  /\ sync[s].pc = "ingest"
  /\ sync[s].fetch \cap DOMAIN transaction = {}
  /\ transaction' = Extend(transaction,
       [t \in sync[s].fetch |->
          [class |-> "unknown", timed |-> chain[t] = "mined", price |-> None]])
  /\ txio' = Extend(txio, [t \in sync[s].fetch |-> Flags(sync[s].own, t)])
  /\ sync' = [sync EXCEPT ![s].pc = "refresh", ![s].own = Empty, ![s].fetch = {}]
  /\ UNCHANGED <<wallet, address, chain, currency, edits, faults>>

\* reclassify_all: the owned addresses, read again ...
ReadCurrentOwned(s) ==
  /\ sync[s].pc = "refresh"
  /\ sync' = [sync EXCEPT ![s].pc = "read_ios",
                          ![s].own = OwnedAddresses(address)]
  /\ UNCHANGED <<tables, chain, currency, edits, faults>>

\* ... then all of tx_io ...
ReadIos(s) ==
  /\ sync[s].pc = "read_ios"
  /\ sync' = [sync EXCEPT ![s].pc = "reclassify", ![s].ios = txio]
  /\ UNCHANGED <<tables, chain, currency, edits, faults>>

OwnedSlots(flags) == {slot \in DOMAIN flags : flags[slot].owned}

\* ... and the write.  Only a column that differs from what was read is updated.
\* A transaction stored since tx_io was read is classified without its rows.
Refreshed(s, t) ==
  LET read  == sync[s].ios[t]
      fresh == Flags(sync[s].own, t)
  IN  [slot \in Slots(Tx[t]) |->
         [owned  |-> IF read[slot].owned # fresh[slot].owned
                     THEN fresh[slot].owned ELSE txio[t][slot].owned,
          wallet |-> IF read[slot].wallet # fresh[slot].wallet
                     THEN fresh[slot].wallet ELSE txio[t][slot].wallet]]

NoIos == [ins |-> <<>>, outs |-> <<>>]

\* Fault: the classes are computed from the flags as they were read.
ReclassifyStale(s) ==
  /\ sync[s].pc = "reclassify"
  /\ LET read == DOMAIN sync[s].ios
         Class(t) == IF t \in read THEN Classify(Tx[t], OwnedSlots(sync[s].ios[t]))
                     ELSE Classify(NoIos, {})
     IN /\ txio' = [t \in DOMAIN txio |-> IF t \in read THEN Refreshed(s, t)
                                                        ELSE txio[t]]
        /\ transaction' = [t \in DOMAIN transaction |->
                             [transaction[t] EXCEPT !.class = Class(t)]]
  /\ sync' = [sync EXCEPT ![s].pc = "price", ![s].own = Empty, ![s].ios = Empty]
  /\ UNCHANGED <<wallet, address, chain, currency, edits, faults>>

\* Write flags and classes in one transaction.
Reclassify(s) ==
  /\ sync[s].pc = "reclassify"
  /\ LET read == DOMAIN sync[s].ios
         Class(t) == IF t \in read
                     THEN Classify(Tx[t], SlotsOf(Tx[t], DOMAIN sync[s].own))
                     ELSE Classify(NoIos, {})
     IN /\ txio' = [t \in DOMAIN txio |-> IF t \in read THEN Refreshed(s, t)
                                                        ELSE txio[t]]
        /\ transaction' = [t \in DOMAIN transaction |->
                             [transaction[t] EXCEPT !.class = Class(t)]]
  /\ sync' = [sync EXCEPT ![s].pc = "price", ![s].own = Empty, ![s].ios = Empty]
  /\ UNCHANGED <<wallet, address, chain, currency, edits, faults>>

\* Fault: a price that is there is looked up again.
UnpricedOrNot(t) == /\ transaction[t].class \in External
                    /\ transaction[t].timed

\* External transactions with a block time and without a price get the price
\* of their day in the base currency, if the snapshot has one.
Unpriced(t) == /\ transaction[t].class \in External
               /\ transaction[t].timed
               /\ transaction[t].price = None

FillPrices(s) ==
  /\ sync[s].pc = "price"
  /\ transaction' = [t \in DOMAIN transaction |->
                       IF Unpriced(t) /\ t \in Quoted
                       THEN [transaction[t] EXCEPT !.price = currency]
                       ELSE transaction[t]]
  /\ sync' = [sync EXCEPT ![s].pc = "read_used"]
  /\ UNCHANGED <<wallet, address, txio, chain, currency, edits, faults>>

\* The address rows to mark as used: those whose address is in tx_io.
ReadUsed(s) ==
  /\ sync[s].pc = "read_used"
  /\ sync' = [sync EXCEPT
       ![s].pc = "set_used",
       ![s].rows = {r \in DOMAIN address :
                      ~address[r].used
                      /\ \E t \in DOMAIN txio : address[r].address \in IosOf(t)}]
  /\ UNCHANGED <<tables, chain, currency, edits, faults>>

\* Mark them, by id, and finish.
SetUsed(s) ==
  /\ sync[s].pc = "set_used"
  /\ sync[s].rows \subseteq DOMAIN address
  /\ address' = [r \in DOMAIN address |->
                   IF r \in sync[s].rows THEN [address[r] EXCEPT !.used = TRUE]
                                         ELSE address[r]]
  /\ sync' = [sync EXCEPT ![s] = Idle]
  /\ UNCHANGED <<wallet, transaction, txio, chain, currency, edits, faults>>

-----------------------------------------------------------------------------
(* What breaks.                                                            *)

\* The write of a session is refused: UNIQUE or PRIMARY KEY, or an UPDATE whose
\* row is gone.  The session rolls back and the exception ends the sync.
Refused(s) ==
  /\ \/ sync[s].pc = "persist" /\ AddressConflict(s)
     \/ sync[s].pc = "ingest" /\ sync[s].fetch \cap DOMAIN transaction # {}
     \/ sync[s].pc = "set_used" /\ ~(sync[s].rows \subseteq DOMAIN address)
  /\ sync' = [sync EXCEPT ![s] = Idle]
  /\ UNCHANGED <<tables, chain, currency, edits, faults>>

\* A request fails or times out, the database is locked, the thread is stopped:
\* what is committed stays, the rest of the sync does not happen.
Abort(s) ==
  /\ faults < MaxFaults
  /\ Running(s)
  /\ sync' = [sync EXCEPT ![s] = Idle]
  /\ faults' = faults + 1
  /\ UNCHANGED <<tables, chain, currency, edits>>

\* The container is restarted, perhaps with another BASE_CURRENCY.
Restart(c) ==
  /\ faults < MaxFaults
  /\ currency' = c
  /\ sync' = [s \in Syncs |-> Idle]
  /\ faults' = faults + 1
  /\ UNCHANGED <<tables, chain, edits>>

-----------------------------------------------------------------------------

Init ==
  /\ wallet = Empty
  /\ address = Empty
  /\ transaction = Empty
  /\ txio = Empty
  /\ chain = [t \in TxId |-> "absent"]
  /\ currency \in Currencies
  /\ sync = [s \in Syncs |-> Idle]
  /\ edits = 0
  /\ faults = 0

\* A step of a running sync.
SyncStep(s) ==
  \/ Scan(s) \/ PersistAddresses(s) \/ ReadOwned(s) \/ Discover(s) \/ Ingest(s)
  \/ ReadCurrentOwned(s) \/ ReadIos(s) \/ Reclassify(s) \/ FillPrices(s)
  \/ ReadUsed(s) \/ SetUsed(s) \/ Refused(s)

User == (\E v \in Values : AddWallet(v)) \/ \E id \in DOMAIN wallet : RemoveWallet(id)

Blockchain == \E t \in TxId : Broadcast(t) \/ Mine(t)

Next ==
  \/ \E s \in Syncs : Begin(s) \/ SyncStep(s) \/ Abort(s)
  \/ User
  \/ Blockchain
  \/ \E c \in Currencies : Restart(c)

Spec == Init /\ [][Next]_vars

\* Every request is under a timeout and the interpreter runs every thread, so a
\* sync that is running goes on; and the user comes back to press "Run sync".
FairSpec == Spec /\ \A s \in Syncs : WF_vars(Begin(s)) /\ WF_vars(SyncStep(s))

-----------------------------------------------------------------------------
(* Properties.                                                             *)

Ids == Nat \ {0}

\* f maps some of the keys to values of that kind; a table is a finite map.
IsMap(f, keys, values) == DOMAIN f \subseteq keys /\ f \in [DOMAIN f -> values]
IsTable(f, rows) == IsMap(f, Ids, rows) /\ IsFiniteSet(DOMAIN f)

AddressRow == [wallet : Ids, address : Addresses, used : BOOLEAN]
TransactionRow == [class : Classes, timed : BOOLEAN, price : Currencies \cup {None}]
IoFlags == [owned : BOOLEAN, wallet : Ids \cup {None}]

IsTxIo(f) == /\ DOMAIN f \subseteq TxId
             /\ \A t \in DOMAIN f : f[t] \in [Slots(Tx[t]) -> IoFlags]

Places == {"idle", "scan", "persist", "discover", "ingest", "refresh", "read_ios",
           "reclassify", "price", "read_used", "set_used"}

\* What a sync keeps.
IsSync(x) ==
  /\ DOMAIN x = DOMAIN Idle
  /\ x.pc \in Places
  /\ IsMap(x.specs, Ids, Values)
  /\ x.pc = "persist" => DOMAIN x.specs # {}
  /\ IsMap(x.seen, Addresses, SUBSET TxId)
  /\ x.existing \subseteq Addresses
  /\ IsMap(x.own, Addresses, Ids)
  /\ x.fetch \subseteq TxId
  /\ IsTxIo(x.ios)
  /\ x.rows \subseteq Ids
  /\ x.quiet \in BOOLEAN

TablesOK ==
  /\ IsTable(wallet, Values)
  /\ IsTable(address, AddressRow)
  /\ DOMAIN transaction \subseteq TxId
  /\ transaction \in [DOMAIN transaction -> TransactionRow]
  /\ IsTxIo(txio)
  /\ DOMAIN txio = DOMAIN transaction

\* The types of the tables, of the environment and of what the syncs keep.
TypeOK ==
  /\ TablesOK
  /\ chain \in [TxId -> {"absent", "mempool", "mined"}]
  /\ currency \in Currencies
  /\ edits \in 0 .. MaxEdits /\ faults \in 0 .. MaxFaults
  /\ DOMAIN sync = Syncs
  /\ \A s \in Syncs : IsSync(sync[s])

\* Every wallet has a row for each address it derives.
AllDerived == \A id \in DOMAIN wallet : \A a \in Range(Derive[wallet[id]]) :
  \E r \in DOMAIN address : address[r].wallet = id /\ address[r].address = a

\* Every transaction that touches an owned address is stored.
AllStored == \A r \in DOMAIN address : History(address[r].address) \subseteq DOMAIN transaction

\* The flags of every input and output are those of the owned addresses.
AllFlagged == \A t \in DOMAIN txio : txio[t] = Flags(OwnedAddresses(address), t)

\* Every stored transaction has the class its flags give it.
AllClassified == \A t \in DOMAIN transaction :
  transaction[t].class = Classify(Tx[t], OwnedSlots(txio[t]))

\* Every external transaction with a block time has the price of its day.
AllPriced == \A t \in Quoted \cap DOMAIN transaction : ~Unpriced(t)

\* Every address that a stored transaction touches is marked as used.
AllMarked == \A r \in DOMAIN address :
  (\E t \in DOMAIN txio : address[r].address \in IosOf(t)) => address[r].used

Settled == AllDerived /\ AllStored /\ AllFlagged /\ AllClassified /\ AllPriced /\ AllMarked

\* A sync that goes through leaves nothing half done: if neither the wallets
\* nor the chain moved while it, and whatever other sync overlapped it, were
\* running, the database is settled when it finishes - whichever crashes,
\* removals, refused writes and overlapping syncs left their traces before,
\* and whatever part of its work another sync did first.
QuietSyncSettles ==
  [][\A s \in Syncs : SetUsed(s) /\ sync[s].quiet => Settled']_vars

\* What reclassify_all commits is consistent: while only one sync at a time
\* runs, a transaction is either still unclassified or has the class that the
\* ownership flags in the database give it, whenever somebody looks.
ClassMatchesFlags == \A t \in DOMAIN transaction :
  \/ transaction[t].class = "unknown"
  \/ transaction[t].class = Classify(Tx[t], OwnedSlots(txio[t]))

\* A price, once filled in, is never changed: not by a restart with another
\* base currency, not by a second sync that filled it too.
PriceIsFinal ==
  [][\A t \in DOMAIN transaction :
       transaction[t].price # None => transaction'[t].price = transaction[t].price]_vars

\* When the user stops editing and the chain stops moving, the database
\* becomes settled and stays so, however many syncs run side by side and get
\* into each other's way.
EventuallySettled == <>[]Settled
=============================================================================
