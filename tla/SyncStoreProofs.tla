-------------------------- MODULE SyncStoreProofs ---------------------------
(***************************************************************************)
(* What holds of the database of sync.py for any number of syncs, wallets, *)
(* addresses and transactions.                                             *)
(***************************************************************************)
EXTENDS SyncStore, FiniteSetTheorems, WellFoundedInduction, TLAPS

-----------------------------------------------------------------------------
(* Tables and ids.                                                         *)

(* A nonempty finite set of naturals has a greatest element.               *)
LEMMA GreatestExists ==
  ASSUME NEW S, IsFiniteSet(S), S \subseteq Nat, S # {}
  PROVE  \E m \in S : \A y \in S : m >= y
<1> DEFINE HasGreatest(T) == \E m \in T : \A y \in T : m >= y
           Bad == {T \in SUBSET S : T # {} /\ ~HasGreatest(T)}
<1> SUFFICES ASSUME Bad # {} PROVE FALSE
  BY DEF Bad
<1>1. \A T \in SUBSET S : IsFiniteSet(T)
  BY FS_Subset
<1>2. Bad \subseteq FiniteSubsetsOf(S)
  BY <1>1 DEF FiniteSubsetsOf
<1>3. PICK T \in Bad : \A U \in Bad : <<U, T>> \notin StrictSubsetOrdering(S)
  <2> HIDE DEF Bad
  <2> QED BY <1>2, FS_StrictSubsetOrderingWellFounded, WFMin
<1>4. PICK x \in T : x \in Nat
  BY <1>3
<1>5. T \ {x} \notin Bad
  BY <1>3, <1>4 DEF StrictSubsetOrdering
<1>6. T \ {x} # {}
  BY <1>3, <1>4
<1>7. PICK m \in T \ {x} : \A y \in T \ {x} : m >= y
  BY <1>3, <1>5, <1>6
<1>8. HasGreatest(T)
  <2>1. CASE m >= x
    BY <1>7, <2>1
  <2>2. CASE ~(m >= x)
    <3>1. m \in Nat /\ x \in Nat /\ \A y \in T : y \in Nat
      BY <1>3, <1>4, <1>7
    <3>2. \A y \in T : x >= y
      BY <1>7, <2>2, <3>1
    <3>3. QED BY <1>4, <3>2
  <2>3. QED BY <2>1, <2>2
<1>9. QED BY <1>3, <1>8

(* Max of such a set is an element of it, and no element is greater.       *)
LEMMA MaxIsGreatest ==
  ASSUME NEW S, IsFiniteSet(S), S \subseteq Nat, S # {}
  PROVE  Max(S) \in S /\ \A y \in S : Max(S) >= y
  BY GreatestExists DEF Max

(* A nonempty set of naturals has a least element.                         *)
LEMMA LeastExists ==
  ASSUME NEW S, S \subseteq Nat, S # {}
  PROVE  \E m \in S : \A y \in S : m <= y
<1>1. PICK m \in S : \A y \in S : <<y, m>> \notin OpToRel(<, Nat)
  BY NatLessThanWellFounded, WFMin
<1>2. \A y \in S : ~(y < m)
  BY <1>1 DEF OpToRel
<1>3. QED BY <1>2

(* The id of a new row is an id, and greater than any in use.              *)
LEMMA NextIdIsFresh ==
  ASSUME NEW table, NEW rows, IsTable(table, rows)
  PROVE  NextId(table) \in Ids /\ \A id \in DOMAIN table : id < NextId(table)
<1>1. CASE DOMAIN table = {}
  BY <1>1 DEF NextId, Ids
<1>2. CASE DOMAIN table # {}
  <2>1. DOMAIN table \subseteq Nat /\ IsFiniteSet(DOMAIN table)
    BY DEF IsTable, IsMap, Ids
  <2>2. Max(DOMAIN table) \in DOMAIN table
        /\ \A id \in DOMAIN table : Max(DOMAIN table) >= id
    BY <1>2, <2>1, MaxIsGreatest
  <2>3. QED BY <1>2, <2>1, <2>2 DEF NextId, Ids
<1>3. QED BY <1>1, <1>2

(* A map extended with entries of its kind is a map of that kind.          *)
LEMMA ExtendIsMap ==
  ASSUME NEW keys, NEW values, NEW f, NEW g,
         IsMap(f, keys, values), IsMap(g, keys, values)
  PROVE  IsMap(Extend(f, g), keys, values)
  BY DEF IsMap, Extend

(* A table extended with finitely many rows of its kind is such a table.   *)
LEMMA ExtendIsTable ==
  ASSUME NEW rows, NEW f, NEW g,
         IsTable(f, rows), IsMap(g, Ids, rows), IsFiniteSet(DOMAIN g)
  PROVE  IsTable(Extend(f, g), rows)
<1>1. IsFiniteSet(DOMAIN f \cup DOMAIN g)
  BY FS_Union DEF IsTable
<1>2. DOMAIN Extend(f, g) = DOMAIN f \cup DOMAIN g
  BY DEF Extend
<1>3. QED BY <1>1, <1>2, ExtendIsMap DEF IsTable

(* Deleting rows leaves a table.                                           *)
LEMMA PartIsTable ==
  ASSUME NEW rows, NEW f, IsTable(f, rows), NEW K \in SUBSET DOMAIN f
  PROVE  IsTable(Restrict(f, K), rows)
  BY FS_Subset DEF IsTable, IsMap, Restrict

(* The empty table is a table of any kind.                                 *)
LEMMA EmptyIsMap ==
  ASSUME NEW keys, NEW values
  PROVE  IsMap(Empty, keys, values) /\ IsTable(Empty, values)
  BY FS_EmptySet DEF IsTable, IsMap, Empty

(* _all_owned_addresses maps every address that has a row to a wallet id.  *)
LEMMA OwnedAddressesType ==
  ASSUME NEW table, IsTable(table, AddressRow)
  PROVE  IsMap(OwnedAddresses(table), Addresses, Ids)
<1> DEFINE of(a) == {r \in DOMAIN table : table[r].address = a}
           known == {table[r].address : r \in DOMAIN table}
<1>1. \A a \in known : table[Max(of(a))].wallet \in Ids
  <2> SUFFICES ASSUME NEW a \in known PROVE table[Max(of(a))].wallet \in Ids
    OBVIOUS
  <2>1. IsFiniteSet(of(a)) /\ of(a) \subseteq Nat /\ of(a) # {}
    BY FS_Subset DEF IsTable, IsMap, Ids
  <2>2. Max(of(a)) \in DOMAIN table
    BY <2>1, MaxIsGreatest
  <2>3. QED BY <2>2 DEF IsTable, IsMap, AddressRow
<1>2. known \subseteq Addresses
  BY DEF IsTable, IsMap, AddressRow
<1>3. QED BY <1>1, <1>2 DEF OwnedAddresses, IsMap

-----------------------------------------------------------------------------
(* The parts of a sync.                                                    *)

(* The rows built for a transaction are rows of tx_io.                     *)
LEMMA FlagsType ==
  ASSUME NEW own, IsMap(own, Addresses, Ids), NEW t
  PROVE  Flags(own, t) \in [Slots(Tx[t]) -> IoFlags]
  BY DEF Flags, Flag, IoFlags, IsMap

(* A sync that is not running keeps nothing.                               *)
LEMMA IdleIsSync == IsSync(Idle)
  BY EmptyIsMap DEF IsSync, Idle, Places, IsTxIo, Empty

(* The wallet whose turn it is is one of those still to be scanned.        *)
LEMMA CurrentType ==
  ASSUME NEW s, IsMap(sync[s].specs, Ids, Values), DOMAIN sync[s].specs # {}
  PROVE  Current(s) \in DOMAIN sync[s].specs
<1>1. DOMAIN sync[s].specs \subseteq Nat
  BY DEF IsMap, Ids
<1>2. QED BY <1>1, LeastExists DEF Current

(* What the server says of addresses.                                      *)
LEMMA HistoriesType ==
  ASSUME NEW A \in SUBSET Addresses
  PROVE  IsMap(HistoriesOf(A), Addresses, SUBSET TxId)
  BY DEF HistoriesOf, History, IsMap

(* The addresses of a wallet's value are addresses.                        *)
LEMMA DerivedType ==
  ASSUME NEW v \in Values PROVE Range(Derive[v]) \subseteq Addresses
  BY DEF Addresses

(* The rows that are added are rows of `address`.                          *)
LEMMA AddressRowsType ==
  ASSUME NEW s, TablesOK, IsMap(sync[s].specs, Ids, Values),
         DOMAIN sync[s].specs # {}
  PROVE  IsMap(AddressRows(s), Ids, AddressRow) /\ IsFiniteSet(DOMAIN AddressRows(s))
<1> DEFINE id == Current(s)
           derived == Derive[sync[s].specs[id]]
           first == NextId(address)
           rank(i) == Cardinality({j \in Added(s) : j < i})
           keys == {first + rank(i) : i \in Added(s)}
<1>1. id \in DOMAIN sync[s].specs /\ id \in Ids /\ sync[s].specs[id] \in Values
  BY CurrentType DEF IsMap
<1>2. derived \in Seq(Addresses) /\ Added(s) \subseteq 1 .. Len(derived)
  BY <1>1, StoreAssumption DEF Added
<1>3. IsFiniteSet(Added(s))
  BY <1>2, FS_Interval, FS_Subset
<1>4. \A i \in Added(s) : rank(i) \in Nat
  <2> SUFFICES ASSUME NEW i \in Added(s) PROVE rank(i) \in Nat
    OBVIOUS
  <2>1. IsFiniteSet({j \in Added(s) : j < i})
    BY <1>3, FS_Subset
  <2>2. QED BY <2>1, FS_CardinalityType
<1>5. first \in Ids
  BY NextIdIsFresh DEF TablesOK
<1>6. keys \subseteq Ids
  <2> HIDE DEF rank, first
  <2>1. \A i \in Added(s) : first + rank(i) \in Ids
    BY <1>4, <1>5 DEF Ids
  <2>2. QED BY <2>1
<1>7. IsFiniteSet(keys)
  <2> DEFINE f == [i \in Added(s) |-> first + rank(i)]
  <2>1. f \in Surjection(Added(s), keys)
    BY DEF Surjection
  <2>2. QED BY <2>1, <1>3, FS_Surjection
<1>8. \A r \in keys : (CHOOSE i \in Added(s) : first + rank(i) = r) \in Added(s)
  OBVIOUS
<1>9. \A i \in Added(s) : derived[i] \in Addresses
  BY <1>2
<1>10. AddressRows(s) = [r \in keys |->
         [wallet |-> id,
          address |-> derived[CHOOSE i \in Added(s) : first + rank(i) = r],
          used |-> FALSE]]
  BY DEF AddressRows
<1>11. \A r \in keys : AddressRows(s)[r] \in AddressRow
  <2> SUFFICES ASSUME NEW r \in keys PROVE AddressRows(s)[r] \in AddressRow
    OBVIOUS
  <2> DEFINE i == CHOOSE i \in Added(s) : first + rank(i) = r
  <2>1. AddressRows(s)[r] = [wallet |-> id, address |-> derived[i], used |-> FALSE]
    BY <1>10
  <2>2. derived[i] \in Addresses
    BY <1>8, <1>9
  <2> HIDE DEF i, derived, id
  <2>3. QED BY <1>1, <2>1, <2>2 DEF AddressRow
<1>12. QED BY <1>6, <1>7, <1>10, <1>11 DEF IsMap

-----------------------------------------------------------------------------
(* Type correctness.                                                       *)

(* The store starts empty.                                                 *)
LEMMA InitType == Init => TypeOK
  BY EmptyIsMap, IdleIsSync, StoreAssumption
     DEF Init, TypeOK, TablesOK, IsTxIo, Empty

SyncsOK == DOMAIN sync = Syncs /\ \A s \in Syncs : IsSync(sync[s])

(* What a step does to the sync that takes it.                             *)
LEMMA OneSyncChanges ==
  ASSUME SyncsOK, NEW s \in Syncs, NEW y, IsSync(y), sync' = [sync EXCEPT ![s] = y]
  PROVE  SyncsOK'
  BY DEF SyncsOK

LEMMA DisturbType == ASSUME SyncsOK, sync' = Disturb(sync) PROVE SyncsOK'
  BY DEF SyncsOK, Disturb, IsSync, Idle

LEMMA BeginType == ASSUME TypeOK, NEW s \in Syncs, Begin(s) PROVE SyncsOK'
<1> DEFINE y == [Idle EXCEPT !.pc = "scan", !.specs = wallet,
                             !.quiet = \A r \in Syncs : sync[r].quiet]
<1>1. IsSync(y)
  BY IdleIsSync DEF IsSync, Idle, Places, TypeOK, TablesOK, IsTable
<1>2. sync' = [sync EXCEPT ![s] = y]
  BY DEF Begin
<1>3. QED BY <1>1, <1>2, OneSyncChanges DEF TypeOK, SyncsOK

LEMMA ScanType == ASSUME TypeOK, NEW s \in Syncs, Scan(s) PROVE SyncsOK'
<1> DEFINE value == sync[s].specs[Current(s)]
           seen == IF value \in Single THEN sync[s].seen
                   ELSE Extend(sync[s].seen, HistoriesOf(Range(Derive[value])))
           existing == {address[r].address :
                          r \in {q \in DOMAIN address : address[q].wallet = Current(s)}}
           y == [sync[s] EXCEPT !.pc = "persist", !.seen = seen, !.existing = existing]
<1>1. IsSync(sync[s]) /\ DOMAIN sync[s].specs # {}
  BY DEF Scan, TypeOK, Empty, IsSync, IsMap
<1>2. value \in Values
  BY <1>1, CurrentType DEF IsSync, IsMap
<1>3. IsMap(seen, Addresses, SUBSET TxId)
  BY <1>1, <1>2, DerivedType, HistoriesType, ExtendIsMap DEF IsSync
<1>4. existing \subseteq Addresses
  BY DEF TypeOK, TablesOK, IsTable, IsMap, AddressRow
<1>5. IsSync(y)
  <2> HIDE DEF seen, existing
  <2> QED BY <1>1, <1>3, <1>4 DEF IsSync, Idle, Places
<1>6. sync' = [sync EXCEPT ![s] = y]
  BY DEF Scan
<1>7. QED BY <1>5, <1>6, OneSyncChanges DEF TypeOK, SyncsOK

LEMMA PersistType ==
  ASSUME TypeOK, NEW s \in Syncs, PersistAddresses(s)
  PROVE  SyncsOK' /\ TablesOK'
<1> DEFINE id == Current(s)
           value == sync[s].specs[id]
           specs == RestrictDomain(sync[s].specs, LAMBDA i : i # id)
           seen == IF value \in Single
                   THEN Extend(HistoriesOf(Range(Derive[value])), sync[s].seen)
                   ELSE sync[s].seen
           y == [sync[s] EXCEPT !.pc = "scan", !.specs = specs, !.seen = seen,
                                !.existing = {}]
<1>1. IsSync(sync[s]) /\ DOMAIN sync[s].specs # {}
  BY DEF PersistAddresses, TypeOK, IsSync
<1>2. value \in Values
  BY <1>1, CurrentType DEF IsSync, IsMap
<1>3. IsMap(seen, Addresses, SUBSET TxId)
  BY <1>1, <1>2, DerivedType, HistoriesType, ExtendIsMap DEF IsSync
<1>4. IsMap(specs, Ids, Values)
  BY <1>1 DEF IsSync, IsMap, RestrictDomain, Restrict
<1>5. IsSync(y)
  <2> HIDE DEF seen, specs
  <2> QED BY <1>1, <1>3, <1>4 DEF IsSync, Idle, Places
<1>6. sync' = [sync EXCEPT ![s] = y]
  BY DEF PersistAddresses
<1>7. IsTable(address', AddressRow)
  BY <1>1, AddressRowsType, ExtendIsTable DEF PersistAddresses, TypeOK, TablesOK, IsSync
<1>8. TablesOK'
  BY <1>7 DEF PersistAddresses, TypeOK, TablesOK
<1>9. QED BY <1>5, <1>6, <1>8, OneSyncChanges DEF TypeOK, SyncsOK

LEMMA ReadOwnedType == ASSUME TypeOK, NEW s \in Syncs, ReadOwned(s) PROVE SyncsOK'
<1> DEFINE y == [sync[s] EXCEPT !.pc = "discover", !.own = OwnedAddresses(address)]
<1>1. IsSync(sync[s])
  BY DEF TypeOK
<1>2. IsSync(y)
  BY <1>1, OwnedAddressesType DEF IsSync, Idle, Places, TypeOK, TablesOK
<1>3. sync' = [sync EXCEPT ![s] = y]
  BY DEF ReadOwned
<1>4. QED BY <1>2, <1>3, OneSyncChanges DEF TypeOK, SyncsOK

LEMMA DiscoverType == ASSUME TypeOK, NEW s \in Syncs, Discover(s) PROVE SyncsOK'
<1> DEFINE owned == DOMAIN sync[s].own
           complete == Extend(HistoriesOf(owned), sync[s].seen)
           toFetch == (UNION {complete[a] : a \in owned}) \ DOMAIN transaction
           y == [sync[s] EXCEPT !.pc = IF toFetch = {} THEN "refresh" ELSE "ingest",
                                !.seen = Empty, !.fetch = toFetch]
<1>1. IsSync(sync[s])
  BY DEF TypeOK
<1>2. IsMap(complete, Addresses, SUBSET TxId)
  <2>1. owned \subseteq Addresses
    BY <1>1 DEF IsSync, IsMap
  <2>2. QED BY <1>1, <2>1, HistoriesType, ExtendIsMap DEF IsSync
<1>3. toFetch \subseteq TxId
  <2>1. owned \subseteq DOMAIN complete
    BY DEF Extend, HistoriesOf
  <2>2. QED BY <1>2, <2>1 DEF IsMap
<1>4. IsSync(y)
  <2> HIDE DEF toFetch
  <2> QED BY <1>1, <1>3, EmptyIsMap DEF IsSync, Idle, Places
<1>5. sync' = [sync EXCEPT ![s] = y]
  BY DEF Discover
<1>6. QED BY <1>4, <1>5, OneSyncChanges DEF TypeOK, SyncsOK

LEMMA IngestType ==
  ASSUME TypeOK, NEW s \in Syncs, Ingest(s) PROVE SyncsOK' /\ TablesOK'
<1> DEFINE fetch == sync[s].fetch
           y == [sync[s] EXCEPT !.pc = "refresh", !.own = Empty, !.fetch = {}]
<1>1. IsSync(sync[s])
  BY DEF TypeOK
<1>2. IsSync(y)
  BY <1>1, EmptyIsMap DEF IsSync, Idle, Places
<1>3. sync' = [sync EXCEPT ![s] = y]
  BY DEF Ingest
<1>4. fetch \subseteq TxId /\ IsMap(sync[s].own, Addresses, Ids)
  BY <1>1 DEF IsSync
<1>5. IsTxIo(txio')
  <2>1. IsTxIo([t \in fetch |-> Flags(sync[s].own, t)])
    BY <1>4, FlagsType DEF IsTxIo
  <2>2. QED BY <2>1 DEF Ingest, TypeOK, TablesOK, IsTxIo, Extend
<1>6. transaction' \in [DOMAIN transaction' -> TransactionRow]
  <2> DEFINE new == [t \in fetch |-> [class |-> "unknown", timed |-> chain[t] = "mined",
                                      price |-> None]]
  <2>1. new \in [fetch -> TransactionRow]
    BY DEF TransactionRow, Classes
  <2>2. transaction' = Extend(transaction, new)
    BY DEF Ingest
  <2> HIDE DEF new
  <2>3. QED BY <2>1, <2>2 DEF TypeOK, TablesOK, Extend
<1>7. DOMAIN transaction' = DOMAIN transaction \cup fetch
      /\ DOMAIN txio' = DOMAIN txio \cup fetch
  BY DEF Ingest, Extend
<1>8. TablesOK'
  BY <1>4, <1>5, <1>6, <1>7 DEF Ingest, TypeOK, TablesOK
<1>9. QED BY <1>2, <1>3, <1>8, OneSyncChanges DEF TypeOK, SyncsOK

LEMMA ReadCurrentOwnedType == ASSUME TypeOK, NEW s \in Syncs, ReadCurrentOwned(s) PROVE SyncsOK'
<1> DEFINE y == [sync[s] EXCEPT !.pc = "read_ios", !.own = OwnedAddresses(address)]
<1>1. IsSync(sync[s])
  BY DEF TypeOK
<1>2. IsSync(y)
  BY <1>1, OwnedAddressesType DEF IsSync, Idle, Places, TypeOK, TablesOK
<1>3. sync' = [sync EXCEPT ![s] = y]
  BY DEF ReadCurrentOwned
<1>4. QED BY <1>2, <1>3, OneSyncChanges DEF TypeOK, SyncsOK

LEMMA ReadIosType == ASSUME TypeOK, NEW s \in Syncs, ReadIos(s) PROVE SyncsOK'
<1> DEFINE y == [sync[s] EXCEPT !.pc = "reclassify", !.ios = txio]
<1>1. IsSync(sync[s])
  BY DEF TypeOK
<1>2. IsSync(y)
  BY <1>1 DEF IsSync, Idle, Places, TypeOK, TablesOK
<1>3. sync' = [sync EXCEPT ![s] = y]
  BY DEF ReadIos
<1>4. QED BY <1>2, <1>3, OneSyncChanges DEF TypeOK, SyncsOK

(* What reclassify_all writes are rows of tx_io.                           *)
LEMMA RefreshedType ==
  ASSUME TypeOK, NEW s \in Syncs, NEW t \in DOMAIN txio, t \in DOMAIN sync[s].ios
  PROVE  Refreshed(s, t) \in [Slots(Tx[t]) -> IoFlags]
<1>1. IsSync(sync[s])
  BY DEF TypeOK
<1>2. Flags(sync[s].own, t) \in [Slots(Tx[t]) -> IoFlags]
  BY <1>1, FlagsType DEF IsSync
<1>3. txio[t] \in [Slots(Tx[t]) -> IoFlags]
  BY DEF TypeOK, TablesOK, IsTxIo
<1>4. QED BY <1>2, <1>3 DEF Refreshed, IoFlags

LEMMA ReclassifyType ==
  ASSUME TypeOK, NEW s \in Syncs, Reclassify(s) PROVE SyncsOK' /\ TablesOK'
<1> DEFINE y == [sync[s] EXCEPT !.pc = "price", !.own = Empty, !.ios = Empty]
<1>1. IsSync(sync[s])
  BY DEF TypeOK
<1>2. IsSync(y)
  BY <1>1, EmptyIsMap DEF IsSync, Idle, Places, IsTxIo, Empty
<1>3. sync' = [sync EXCEPT ![s] = y]
  BY DEF Reclassify
<1>4. DOMAIN txio' = DOMAIN txio /\ DOMAIN transaction' = DOMAIN transaction
  BY DEF Reclassify
<1>5. IsTxIo(txio')
  BY RefreshedType DEF Reclassify, TypeOK, TablesOK, IsTxIo
<1>6. transaction' \in [DOMAIN transaction' -> TransactionRow]
  <2> DEFINE class(t) == IF t \in DOMAIN sync[s].ios
                         THEN Classify(Tx[t], SlotsOf(Tx[t], DOMAIN sync[s].own))
                         ELSE Classify(NoIos, {})
  <2>1. \A t : class(t) \in Classes
    BY DEF Classify, Classes
  <2>2. transaction' = [t \in DOMAIN transaction |->
                          [transaction[t] EXCEPT !.class = class(t)]]
    BY DEF Reclassify
  <2> HIDE DEF class
  <2>3. QED BY <2>1, <2>2 DEF TypeOK, TablesOK, TransactionRow
<1>7. TablesOK'
  BY <1>4, <1>5, <1>6 DEF Reclassify, TypeOK, TablesOK
<1>8. QED BY <1>2, <1>3, <1>7, OneSyncChanges DEF TypeOK, SyncsOK

LEMMA FillPricesType ==
  ASSUME TypeOK, NEW s \in Syncs, FillPrices(s) PROVE SyncsOK' /\ TablesOK'
<1> DEFINE y == [sync[s] EXCEPT !.pc = "read_used"]
<1>1. IsSync(y)
  BY DEF TypeOK, IsSync, Idle, Places
<1>2. sync' = [sync EXCEPT ![s] = y]
  BY DEF FillPrices
<1>3. TablesOK'
  BY DEF FillPrices, TypeOK, TablesOK, TransactionRow
<1>4. QED BY <1>1, <1>2, <1>3, OneSyncChanges DEF TypeOK, SyncsOK

LEMMA ReadUsedType == ASSUME TypeOK, NEW s \in Syncs, ReadUsed(s) PROVE SyncsOK'
<1> DEFINE y == [sync[s] EXCEPT
             !.pc = "set_used",
             !.rows = {r \in DOMAIN address :
                         ~address[r].used
                         /\ \E t \in DOMAIN txio : address[r].address \in IosOf(t)}]
<1>1. IsSync(sync[s])
  BY DEF TypeOK
<1>2. IsSync(y)
  BY <1>1 DEF IsSync, Idle, Places, TypeOK, TablesOK, IsTable, IsMap
<1>3. sync' = [sync EXCEPT ![s] = y]
  BY DEF ReadUsed
<1>4. QED BY <1>2, <1>3, OneSyncChanges DEF TypeOK, SyncsOK

LEMMA SetUsedType ==
  ASSUME TypeOK, NEW s \in Syncs, SetUsed(s) PROVE SyncsOK' /\ TablesOK'
<1>1. SyncsOK'
  BY IdleIsSync, OneSyncChanges DEF SetUsed, TypeOK, SyncsOK
<1>2. TablesOK'
  BY DEF SetUsed, TypeOK, TablesOK, IsTable, IsMap, AddressRow
<1>3. QED BY <1>1, <1>2

LEMMA RefusedType == ASSUME TypeOK, NEW s \in Syncs, Refused(s) \/ Abort(s) PROVE SyncsOK'
  BY IdleIsSync, OneSyncChanges DEF Refused, Abort, TypeOK, SyncsOK

LEMMA AddWalletType == ASSUME TypeOK, NEW v \in Values, AddWallet(v) PROVE TablesOK'
<1>1. IsTable(wallet', Values)
  <2>1. NextId(wallet) \in Ids
    BY NextIdIsFresh DEF TypeOK, TablesOK
  <2>2. IsMap([id \in {NextId(wallet)} |-> v], Ids, Values)
    BY <2>1 DEF IsMap
  <2>3. IsFiniteSet(DOMAIN [id \in {NextId(wallet)} |-> v])
    BY FS_Singleton
  <2>4. QED BY <2>2, <2>3, ExtendIsTable DEF AddWallet, TypeOK, TablesOK
<1>2. QED BY <1>1 DEF AddWallet, TypeOK, TablesOK

LEMMA RemoveWalletType ==
  ASSUME TypeOK, NEW id \in DOMAIN wallet, RemoveWallet(id) PROVE TablesOK'
<1>1. IsTable(wallet', Values)
  BY PartIsTable DEF RemoveWallet, RestrictDomain, TypeOK, TablesOK
<1>2. IsTable(address', AddressRow)
  BY PartIsTable DEF RemoveWallet, RestrictDomain, TypeOK, TablesOK
<1>3. QED BY <1>1, <1>2 DEF RemoveWallet, TypeOK, TablesOK

(* Every step keeps the types.                                             *)
LEMMA StepType == TypeOK /\ [Next]_vars => TypeOK'
<1> SUFFICES ASSUME TypeOK, [Next]_vars PROVE TypeOK'
  OBVIOUS
<1>0. ASSUME SyncsOK', TablesOK', UNCHANGED <<chain, currency, edits, faults>>
      PROVE TypeOK'
  BY <1>0 DEF TypeOK, SyncsOK
<1>1. ASSUME NEW s \in Syncs, SyncStep(s) \/ Begin(s) PROVE TypeOK'
  <2>1. CASE Begin(s)
    BY <1>0, <2>1, BeginType DEF Begin, TypeOK, TablesOK, tables
  <2>2. CASE Scan(s)
    BY <1>0, <2>2, ScanType DEF Scan, TypeOK, TablesOK, tables
  <2>3. CASE PersistAddresses(s)
    BY <1>0, <2>3, PersistType DEF PersistAddresses
  <2>4. CASE ReadOwned(s)
    BY <1>0, <2>4, ReadOwnedType DEF ReadOwned, TypeOK, TablesOK, tables
  <2>5. CASE Discover(s)
    BY <1>0, <2>5, DiscoverType DEF Discover, TypeOK, TablesOK, tables
  <2>6. CASE Ingest(s)
    BY <1>0, <2>6, IngestType DEF Ingest
  <2>7. CASE ReadCurrentOwned(s)
    BY <1>0, <2>7, ReadCurrentOwnedType DEF ReadCurrentOwned, TypeOK, TablesOK, tables
  <2>8. CASE ReadIos(s)
    BY <1>0, <2>8, ReadIosType DEF ReadIos, TypeOK, TablesOK, tables
  <2>9. CASE Reclassify(s)
    BY <1>0, <2>9, ReclassifyType DEF Reclassify
  <2>10. CASE FillPrices(s)
    BY <1>0, <2>10, FillPricesType DEF FillPrices
  <2>11. CASE ReadUsed(s)
    BY <1>0, <2>11, ReadUsedType DEF ReadUsed, TypeOK, TablesOK, tables
  <2>12. CASE SetUsed(s)
    BY <1>0, <2>12, SetUsedType DEF SetUsed
  <2>13. CASE Refused(s)
    BY <1>0, <2>13, RefusedType DEF Refused, TypeOK, TablesOK, tables
  <2>14. QED
    BY <1>1, <2>1, <2>2, <2>3, <2>4, <2>5, <2>6, <2>7, <2>8, <2>9, <2>10,
       <2>11, <2>12, <2>13 DEF SyncStep
<1>2. ASSUME NEW s \in Syncs, Abort(s) PROVE TypeOK'
  <2>1. SyncsOK'
    BY <1>2, RefusedType
  <2>2. TablesOK' /\ UNCHANGED <<chain, currency, edits>> /\ faults' \in 0 .. MaxFaults
    BY <1>2, StoreAssumption DEF Abort, TypeOK, TablesOK, tables
  <2>3. QED BY <2>1, <2>2 DEF TypeOK, SyncsOK
<1>3. ASSUME NEW c \in Currencies, Restart(c) PROVE TypeOK'
  BY <1>3, IdleIsSync, StoreAssumption DEF Restart, TypeOK, TablesOK, tables
<1>4. CASE User
  <2>1. SyncsOK'
    BY <1>4, DisturbType DEF User, AddWallet, RemoveWallet, TypeOK, SyncsOK
  <2>2. TablesOK'
    BY <1>4, AddWalletType, RemoveWalletType DEF User
  <2>3. UNCHANGED <<chain, currency, faults>> /\ edits < MaxEdits /\ edits' = edits + 1
    BY <1>4 DEF User, AddWallet, RemoveWallet
  <2>4. edits' \in 0 .. MaxEdits
    BY <2>3, StoreAssumption DEF TypeOK
  <2>5. QED BY <2>1, <2>2, <2>3, <2>4 DEF TypeOK, SyncsOK
<1>5. CASE Blockchain
  <2>1. SyncsOK'
    BY <1>5, DisturbType DEF Blockchain, Broadcast, Mine, TypeOK, SyncsOK
  <2>2. chain' \in [TxId -> {"absent", "mempool", "mined"}]
    BY <1>5 DEF Blockchain, Broadcast, Mine, TypeOK
  <2>3. TablesOK' /\ UNCHANGED <<currency, edits, faults>>
    BY <1>5 DEF Blockchain, Broadcast, Mine, TypeOK, TablesOK, tables
  <2>4. QED BY <2>1, <2>2, <2>3 DEF TypeOK, SyncsOK
<1>6. CASE UNCHANGED vars
  BY <1>6 DEF vars, tables, TypeOK, TablesOK
<1>7. QED BY <1>1, <1>2, <1>3, <1>4, <1>5, <1>6 DEF Next

(* The tables and what the syncs keep have their types in every reachable  *)
(* state, however many syncs run and whatever breaks (TypeOK).             *)
THEOREM TypeCorrect == Spec => []TypeOK
  BY InitType, StepType, PTL DEF Spec

-----------------------------------------------------------------------------
(* Prices.                                                                 *)

(* No step touches the tables of transactions but these three.             *)
LEMMA OtherStepsKeepTransactions ==
  ASSUME [Next]_vars,
         \A s \in Syncs : ~Ingest(s) /\ ~Reclassify(s) /\ ~FillPrices(s)
  PROVE  transaction' = transaction /\ txio' = txio
  BY DEF Next, SyncStep, User, Blockchain, vars, tables, Begin, Scan, PersistAddresses,
         ReadOwned, Discover, ReadCurrentOwned, ReadIos, ReadUsed, SetUsed, Refused,
         Abort, Restart, AddWallet, RemoveWallet, Broadcast, Mine

(* However many syncs fill in prices, and whatever the base currency       *)
(* becomes: a price that is there stays as it is (PriceIsFinal).           *)
THEOREM PricesAreFinal == Spec => PriceIsFinal
<1> DEFINE Final == \A t \in DOMAIN transaction :
              transaction[t].price # None => transaction'[t].price = transaction[t].price
<1>1. TypeOK /\ [Next]_vars => Final
  <2> SUFFICES ASSUME TypeOK, [Next]_vars PROVE Final
    OBVIOUS
  <2>1. ASSUME NEW s \in Syncs, Ingest(s) PROVE Final
    BY <2>1 DEF Ingest, Extend
  <2>2. ASSUME NEW s \in Syncs, Reclassify(s) PROVE Final
    <3> DEFINE class(t) == IF t \in DOMAIN sync[s].ios
                           THEN Classify(Tx[t], SlotsOf(Tx[t], DOMAIN sync[s].own))
                           ELSE Classify(NoIos, {})
    <3>1. transaction' = [t \in DOMAIN transaction |->
                            [transaction[t] EXCEPT !.class = class(t)]]
      BY <2>2 DEF Reclassify
    <3> HIDE DEF class
    <3>2. QED BY <3>1 DEF TypeOK, TablesOK, TransactionRow
  <2>3. ASSUME NEW s \in Syncs, FillPrices(s) PROVE Final
    BY <2>3 DEF FillPrices, Unpriced
  <2>4. CASE \A s \in Syncs : ~Ingest(s) /\ ~Reclassify(s) /\ ~FillPrices(s)
    BY <2>4, OtherStepsKeepTransactions
  <2>5. QED BY <2>1, <2>2, <2>3, <2>4
<1>2. QED BY <1>1, TypeCorrect, PTL DEF Spec, PriceIsFinal, vars

-----------------------------------------------------------------------------
(* Classes and flags, one sync at a time.                                  *)

(* What reclassify_all has read of tx_io is what the table holds.          *)
ReadIsFresh == \A s \in Syncs : sync[s].pc = "reclassify" => sync[s].ios = txio

IInv == TypeOK /\ ClassMatchesFlags /\ ReadIsFresh

(* If tx_io is as it was read, what is written are the fresh flags.        *)
LEMMA RefreshedIsFresh ==
  ASSUME TypeOK, NEW s \in Syncs, NEW t \in DOMAIN txio, sync[s].ios = txio
  PROVE  Refreshed(s, t) = Flags(sync[s].own, t)
<1> DEFINE fresh == Flags(sync[s].own, t)
<1>1. fresh \in [Slots(Tx[t]) -> IoFlags]
  BY FlagsType DEF TypeOK, IsSync
<1>2. \A slot \in Slots(Tx[t]) :
        fresh[slot] = [owned |-> fresh[slot].owned, wallet |-> fresh[slot].wallet]
  BY <1>1 DEF IoFlags
<1>3. Refreshed(s, t) = [slot \in Slots(Tx[t]) |->
        [owned |-> fresh[slot].owned, wallet |-> fresh[slot].wallet]]
  BY DEF Refreshed
<1>4. QED BY <1>1, <1>2, <1>3

(* The slots flagged as owned are those of the owned addresses.            *)
LEMMA OwnedSlotsOfFlags ==
  ASSUME NEW own, NEW t
  PROVE  OwnedSlots(Flags(own, t)) = SlotsOf(Tx[t], DOMAIN own)
  BY DEF OwnedSlots, Flags, Flag, SlotsOf

LEMMA ClassMatchesPreserved ==
  ASSUME \A s, r \in Syncs : s = r, IInv, [Next]_vars
  PROVE  ClassMatchesFlags'
<1>1. ASSUME NEW s \in Syncs, Ingest(s) PROVE ClassMatchesFlags'
  <2> SUFFICES ASSUME NEW t \in DOMAIN transaction'
               PROVE  \/ transaction'[t].class = "unknown"
                      \/ transaction'[t].class = Classify(Tx[t], OwnedSlots(txio'[t]))
    BY DEF ClassMatchesFlags
  <2>1. CASE t \in sync[s].fetch
    BY <1>1, <2>1 DEF Ingest, Extend
  <2>2. CASE t \notin sync[s].fetch
    <3>1. t \in DOMAIN transaction /\ transaction'[t] = transaction[t]
          /\ txio'[t] = txio[t]
      BY <1>1, <2>2 DEF Ingest, Extend, IInv, TypeOK, TablesOK
    <3>2. QED BY <3>1 DEF IInv, ClassMatchesFlags
  <2>3. QED BY <2>1, <2>2
<1>2. ASSUME NEW s \in Syncs, Reclassify(s) PROVE ClassMatchesFlags'
  <2> SUFFICES ASSUME NEW t \in DOMAIN transaction'
               PROVE  transaction'[t].class = Classify(Tx[t], OwnedSlots(txio'[t]))
    BY DEF ClassMatchesFlags
  <2>1. sync[s].ios = txio /\ t \in DOMAIN transaction /\ t \in DOMAIN txio
    BY <1>2 DEF Reclassify, IInv, ReadIsFresh, TypeOK, TablesOK
  <2>2. transaction'[t] =
          [transaction[t] EXCEPT !.class = Classify(Tx[t], SlotsOf(Tx[t], DOMAIN sync[s].own))]
    BY <1>2, <2>1 DEF Reclassify
  <2>3. transaction'[t].class = Classify(Tx[t], SlotsOf(Tx[t], DOMAIN sync[s].own))
    BY <2>1, <2>2 DEF IInv, TypeOK, TablesOK, TransactionRow
  <2>4. txio'[t] = Flags(sync[s].own, t)
    BY <1>2, <2>1, RefreshedIsFresh DEF Reclassify, IInv
  <2>5. QED BY <2>3, <2>4, OwnedSlotsOfFlags
<1>3. ASSUME NEW s \in Syncs, FillPrices(s) PROVE ClassMatchesFlags'
  BY <1>3 DEF FillPrices, IInv, ClassMatchesFlags, TypeOK, TablesOK, TransactionRow
<1>4. CASE \A s \in Syncs : ~Ingest(s) /\ ~Reclassify(s) /\ ~FillPrices(s)
  BY <1>4, OtherStepsKeepTransactions DEF IInv, ClassMatchesFlags
<1>5. QED BY <1>1, <1>2, <1>3, <1>4

LEMMA ReadIsFreshPreserved ==
  ASSUME \A s, r \in Syncs : s = r, IInv, [Next]_vars
  PROVE  ReadIsFresh'
<1>0. /\ DOMAIN sync = Syncs /\ \A s \in Syncs : DOMAIN sync[s] = DOMAIN Idle
      /\ \A s \in Syncs : sync[s].pc = "reclassify" => sync[s].ios = txio
  BY DEF IInv, ReadIsFresh, TypeOK, IsSync
<1> USE DEF ReadIsFresh, Idle
<1>1. ASSUME NEW s \in Syncs, Ingest(s) \/ Reclassify(s) PROVE ReadIsFresh'
  BY <1>0, <1>1 DEF Ingest, Reclassify
<1>2. ASSUME NEW s \in Syncs, FillPrices(s) PROVE ReadIsFresh'
  BY <1>0, <1>2 DEF FillPrices
<1>3. ASSUME NEW s \in Syncs, ReadIos(s) PROVE ReadIsFresh'
  BY <1>0, <1>3 DEF ReadIos, tables
<1>4. ASSUME NEW s \in Syncs,
             \/ Begin(s) \/ Scan(s) \/ PersistAddresses(s) \/ ReadOwned(s)
             \/ Discover(s) \/ ReadCurrentOwned(s) \/ ReadUsed(s) \/ SetUsed(s)
             \/ Refused(s) \/ Abort(s)
      PROVE  ReadIsFresh'
  <2>1. CASE Begin(s)
    BY <1>0, <2>1 DEF Begin
  <2>2. CASE Scan(s)
    BY <1>0, <2>2 DEF Scan
  <2>3. CASE PersistAddresses(s)
    BY <1>0, <2>3 DEF PersistAddresses
  <2>4. CASE ReadOwned(s)
    BY <1>0, <2>4 DEF ReadOwned
  <2>5. CASE Discover(s)
    BY <1>0, <2>5 DEF Discover
  <2>6. CASE ReadCurrentOwned(s)
    BY <1>0, <2>6 DEF ReadCurrentOwned
  <2>7. CASE ReadUsed(s)
    BY <1>0, <2>7 DEF ReadUsed
  <2>8. CASE SetUsed(s) \/ Refused(s) \/ Abort(s)
    BY <1>0, <2>8 DEF SetUsed, Refused, Abort
  <2>9. QED
    BY <1>4, <2>1, <2>2, <2>3, <2>4, <2>5, <2>6, <2>7, <2>8
<1>5. CASE User \/ Blockchain
  <2>1. sync' = Disturb(sync) /\ txio' = txio
    BY <1>0, <1>5 DEF User, Blockchain, AddWallet, RemoveWallet, Broadcast, Mine, tables
  <2>2. \A s \in Syncs : sync'[s].pc = sync[s].pc /\ sync'[s].ios = sync[s].ios
    BY <1>0, <2>1 DEF Disturb
  <2>3. QED BY <1>0, <2>1, <2>2
<1>6. ASSUME NEW c \in Currencies, Restart(c) PROVE ReadIsFresh'
  BY <1>0, <1>6 DEF Restart
<1>7. CASE UNCHANGED vars
  BY <1>0, <1>7 DEF vars, tables
<1>8. QED BY <1>1, <1>2, <1>3, <1>4, <1>5, <1>6, <1>7 DEF Next, SyncStep

(* While one sync at a time runs, for any wallets and transactions: a      *)
(* stored transaction is unclassified or has the class its own flags give  *)
(* it, at any moment somebody looks, through failures and restarts         *)
(* (ClassMatchesFlags).                                                    *)
THEOREM ClassesMatchFlags ==
  ASSUME \A s, r \in Syncs : s = r
  PROVE  Spec => []ClassMatchesFlags
<1>1. Init => IInv
  BY InitType DEF Init, IInv, ClassMatchesFlags, ReadIsFresh, Empty, Idle
<1>2. IInv /\ [Next]_vars => IInv'
  BY StepType, ClassMatchesPreserved, ReadIsFreshPreserved DEF IInv
<1>3. QED BY <1>1, <1>2, PTL DEF Spec, IInv

-----------------------------------------------------------------------------
(* What a quiet sync has settled so far.                                   *)

(* Either nothing has disturbed any of the syncs that run, or every one of *)
(* them began before what did.                                             *)
Uniform ==
  /\ \A s \in Syncs : ~Running(s) => sync[s].quiet
  /\ \A s, r \in Syncs : Running(s) /\ Running(r) => sync[s].quiet = sync[r].quiet

Discovering   == {"discover", "ingest"}
Reclassifying == {"refresh", "read_ios", "reclassify"}
Finishing     == {"price", "read_used", "set_used"}

HasRow(id, a) == \E r \in DOMAIN address : address[r].wallet = id /\ address[r].address = a

(* The wallets that were taken have their rows, the others are those of the *)
(* table; what was read of a wallet's rows is there.                       *)
Walked(s) ==
  sync[s].pc \in {"scan", "persist"} =>
    /\ DOMAIN sync[s].specs \subseteq DOMAIN wallet
    /\ \A id \in DOMAIN sync[s].specs : sync[s].specs[id] = wallet[id]
    /\ \A id \in DOMAIN wallet \ DOMAIN sync[s].specs :
         \A a \in Range(Derive[wallet[id]]) : HasRow(id, a)
    /\ sync[s].pc = "persist" => \A a \in sync[s].existing : HasRow(Current(s), a)

(* The histories kept are those of now, and the owned addresses are, too.  *)
ReadsAreCurrent(s) ==
  /\ \A a \in DOMAIN sync[s].seen : sync[s].seen[a] = History(a)
  /\ sync[s].pc \in Discovering \cup {"read_ios", "reclassify"} =>
       sync[s].own = OwnedAddresses(address)

(* What is to be fetched is what is not stored.                            *)
Fetching(s) ==
  sync[s].pc = "ingest" =>
    /\ \A r \in DOMAIN address :
         History(address[r].address) \subseteq DOMAIN transaction \cup sync[s].fetch
    /\ \A t \in sync[s].fetch : \E r \in DOMAIN address : t \in History(address[r].address)

(* A flag that was right when it was read still is.                        *)
FlagsStayRight(s) ==
  sync[s].pc = "reclassify" =>
    /\ DOMAIN sync[s].ios = DOMAIN txio
    /\ \A t \in DOMAIN txio : \A slot \in Slots(Tx[t]) :
         LET read  == sync[s].ios[t][slot]
             right == Flag(OwnedAddresses(address), t, slot)
         IN  /\ read.owned = right.owned => txio[t][slot].owned = right.owned
             /\ read.wallet = right.wallet => txio[t][slot].wallet = right.wallet

(* The parts of Settled that its place has established.                    *)
Established(s) ==
  /\ sync[s].pc \in Discovering \cup Reclassifying \cup Finishing => AllDerived
  /\ sync[s].pc \in Reclassifying \cup Finishing => AllStored
  /\ sync[s].pc \in Finishing => AllFlagged /\ AllClassified
  /\ sync[s].pc \in {"read_used", "set_used"} => AllPriced
  /\ sync[s].pc = "set_used" =>
       \A r \in DOMAIN address :
         (\E t \in DOMAIN txio : address[r].address \in IosOf(t)) =>
           address[r].used \/ r \in sync[s].rows

Quiet(s) == Running(s) /\ sync[s].quiet
Stage(s) == Walked(s) /\ ReadsAreCurrent(s) /\ Fetching(s) /\ FlagsStayRight(s) /\ Established(s)

QuietInv ==
  /\ TypeOK /\ Uniform
  /\ \A s \in Syncs : Quiet(s) => Stage(s)

(* What is established depends on the tables and the chain only.           *)
LEMMA SteadyFacts ==
  ASSUME UNCHANGED <<tables, chain>>
  PROVE  /\ UNCHANGED <<wallet, address, transaction, txio, chain>>
         /\ \A a : History(a)' = History(a)
         /\ \A id, a : HasRow(id, a)' <=> HasRow(id, a)
         /\ AllDerived' <=> AllDerived
         /\ AllStored' <=> AllStored
         /\ AllFlagged' <=> AllFlagged
         /\ AllClassified' <=> AllClassified
         /\ AllPriced' <=> AllPriced
<1>1. UNCHANGED <<wallet, address, transaction, txio, chain>>
  BY DEF tables
<1>2. \A a : History(a)' = History(a)
  BY <1>1 DEF History
<1>3. \A id, a : HasRow(id, a)' <=> HasRow(id, a)
  BY <1>1 DEF HasRow
<1>4. /\ AllDerived' <=> AllDerived
      /\ AllStored' <=> AllStored
      /\ AllFlagged' <=> AllFlagged
      /\ AllClassified' <=> AllClassified
      /\ AllPriced' <=> AllPriced
  BY <1>1, <1>2 DEF AllDerived, AllStored, AllFlagged, AllClassified, AllPriced, Unpriced
<1>5. QED BY <1>1, <1>2, <1>3, <1>4

LEMMA SteadyKeeps ==
  ASSUME NEW r, Stage(r), UNCHANGED <<tables, chain>>, sync'[r] = sync[r]
  PROVE  Stage(r)'
<1>1. UNCHANGED <<wallet, address, transaction, txio, chain>>
  BY SteadyFacts
<1>2. \A a : History(a)' = History(a)
  BY SteadyFacts
<1>3. \A id, a : HasRow(id, a)' <=> HasRow(id, a)
  BY SteadyFacts
<1>4. /\ AllDerived' <=> AllDerived
      /\ AllStored' <=> AllStored
      /\ AllFlagged' <=> AllFlagged
      /\ AllClassified' <=> AllClassified
      /\ AllPriced' <=> AllPriced
  BY SteadyFacts
<1>5. Current(r)' = Current(r)
  BY DEF Current
<1>6. Walked(r)'
  BY <1>1, <1>3, <1>5 DEF Stage, Walked
<1>7. ReadsAreCurrent(r)' /\ Fetching(r)'
  BY <1>1, <1>2 DEF Stage, ReadsAreCurrent, Fetching
<1>8. FlagsStayRight(r)'
  BY <1>1 DEF Stage, FlagsStayRight
<1>9. Established(r)'
  BY <1>1, <1>4 DEF Stage, Established
<1>10. QED BY <1>6, <1>7, <1>8, <1>9 DEF Stage

-----------------------------------------------------------------------------
(* A commit of address rows.                                               *)

(* The elements of a finite set of numbers differ in how many are smaller. *)
LEMMA RanksDiffer ==
  ASSUME NEW A \in SUBSET Nat, IsFiniteSet(A), NEW i \in A, NEW k \in A
  PROVE  /\ Cardinality({j \in A : j < i}) \in Nat
         /\ Cardinality({j \in A : j < i}) = Cardinality({j \in A : j < k}) => i = k
<1> DEFINE Before(x) == {j \in A : j < x}
<1>1. IsFiniteSet(Before(i)) /\ IsFiniteSet(Before(k))
  BY FS_Subset
<1>2. Cardinality(Before(i)) \in Nat
  BY <1>1, FS_CardinalityType
<1>3. ASSUME NEW x \in A, NEW y \in A, x < y, IsFiniteSet(Before(y)),
             Cardinality(Before(x)) = Cardinality(Before(y))
      PROVE  FALSE
  <2>1. Before(x) \subseteq Before(y) /\ x \in Before(y) /\ x \notin Before(x)
    <3>1. x \in Nat /\ y \in Nat /\ x < y /\ \A j \in A : j \in Nat
      BY <1>3
    <3>2. ~ (x < x) /\ \A j \in A : j < x => j < y
      BY <3>1
    <3>3. QED BY <1>3, <3>2
  <2> HIDE DEF Before
  <2>2. Before(x) = Before(y)
    BY <1>3, <2>1, FS_Subset
  <2>3. QED BY <2>1, <2>2
<1>4. ASSUME Cardinality(Before(i)) = Cardinality(Before(k)) PROVE i = k
  <2>1. ~ (i < k) /\ ~ (k < i)
    BY <1>1, <1>3, <1>4
  <2>2. QED BY <2>1
<1>5. QED BY <1>2, <1>4

(* Rows are added under ids of their own, one for each place without one.  *)
LEMMA AddressGrows ==
  ASSUME TypeOK, NEW s \in Syncs, PersistAddresses(s)
  PROVE  /\ \A r \in DOMAIN address : r \in DOMAIN address' /\ address'[r] = address[r]
         /\ \A a \in Range(Derive[sync[s].specs[Current(s)]]) \ sync[s].existing :
              \E r \in DOMAIN address' :
                address'[r].wallet = Current(s) /\ address'[r].address = a
<1> DEFINE id       == Current(s)
           derived  == Derive[sync[s].specs[id]]
           RowId(i) == NextId(address) + Cardinality({j \in Added(s) : j < i})
<1>1. /\ IsMap(sync[s].specs, Ids, Values) /\ DOMAIN sync[s].specs # {}
      /\ IsTable(address, AddressRow) /\ TablesOK
  BY DEF TypeOK, TablesOK, IsSync, PersistAddresses
<1>2. id \in DOMAIN sync[s].specs /\ sync[s].specs[id] \in Values
  BY <1>1, CurrentType DEF IsMap
<1>3. derived \in Seq(Addresses)
  BY <1>2, StoreAssumption
<1>4. Added(s) \in SUBSET Nat /\ IsFiniteSet(Added(s))
  <2>1. Added(s) \subseteq DOMAIN derived
    BY DEF Added
  <2> HIDE DEF derived
  <2>2. DOMAIN derived = 1 .. Len(derived) /\ Len(derived) \in Nat
    BY <1>3
  <2>3. IsFiniteSet(1 .. Len(derived))
    <3>1. 1 \in Int /\ Len(derived) \in Int
      BY <2>2
    <3>2. QED BY <3>1, FS_Interval, Zenon
  <2>4. QED BY <2>1, <2>2, <2>3, FS_Subset
<1>5. NextId(address) \in Nat /\ \A r \in DOMAIN address : r \in Nat /\ r < NextId(address)
  BY <1>1, NextIdIsFresh DEF IsTable, IsMap, Ids
<1>6. AddressRows(s) = [r \in {RowId(i) : i \in Added(s)} |->
         [wallet  |-> id,
          address |-> derived[CHOOSE i \in Added(s) : RowId(i) = r],
          used    |-> FALSE]]
  BY DEF AddressRows
<1>7. ASSUME NEW i \in Added(s) PROVE RowId(i) \notin DOMAIN address
  <2>1. Cardinality({j \in Added(s) : j < i}) \in Nat
    BY <1>4, RanksDiffer
  <2>2. QED BY <1>5, <2>1
<1>8. ASSUME NEW i \in Added(s), NEW k \in Added(s), RowId(i) = RowId(k) PROVE i = k
  <2>1. /\ Cardinality({j \in Added(s) : j < i}) \in Nat
        /\ Cardinality({j \in Added(s) : j < k}) \in Nat
        /\ Cardinality({j \in Added(s) : j < i}) = Cardinality({j \in Added(s) : j < k}) => i = k
    BY <1>4, RanksDiffer
  <2>2. QED BY <1>5, <1>8, <2>1
<1>9. address' = Extend(address, AddressRows(s))
  BY DEF PersistAddresses
<1> HIDE DEF RowId
<1>10. \A r \in DOMAIN AddressRows(s) : r \notin DOMAIN address
  BY <1>6, <1>7
<1>11. \A r \in DOMAIN address : r \in DOMAIN address' /\ address'[r] = address[r]
  BY <1>9, <1>10 DEF Extend
<1>12. ASSUME NEW a \in Range(derived) \ sync[s].existing
       PROVE  \E r \in DOMAIN address' : address'[r].wallet = id /\ address'[r].address = a
  <2>1. PICK i \in DOMAIN derived : derived[i] = a
    BY DEF Range
  <2>2. i \in Added(s)
    BY <2>1, <1>12 DEF Added
  <2> HIDE DEF derived, id
  <2>3. (CHOOSE k \in Added(s) : RowId(k) = RowId(i)) = i
    BY <1>8, <2>2
  <2>4. RowId(i) \in DOMAIN AddressRows(s)
    BY <1>6, <2>2
  <2>5. AddressRows(s)[RowId(i)].wallet = id /\ AddressRows(s)[RowId(i)].address = a
    BY <1>6, <2>1, <2>2, <2>3
  <2>6. RowId(i) \in DOMAIN address' /\ address'[RowId(i)] = AddressRows(s)[RowId(i)]
    BY <1>9, <2>4 DEF Extend
  <2>7. QED BY <2>5, <2>6
<1>13. QED BY <1>11, <1>12

(* Who has all rows of its wallets derived sees none added any more.       *)
LEMMA NoneAdded ==
  ASSUME TypeOK, NEW s \in Syncs, PersistAddresses(s), Walked(s), AllDerived
  PROVE  address' = address
<1> DEFINE id == Current(s)
           derived == Derive[sync[s].specs[id]]
<1>1. /\ IsMap(sync[s].specs, Ids, Values) /\ DOMAIN sync[s].specs # {} /\ sync[s].pc = "persist"
      /\ address = [r \in DOMAIN address |-> address[r]]
  BY DEF TypeOK, TablesOK, IsSync, PersistAddresses, IsTable, IsMap
<1>2. id \in DOMAIN wallet /\ sync[s].specs[id] = wallet[id]
  BY <1>1, CurrentType DEF Walked
<1>3. ASSUME NEW i \in Added(s) PROVE FALSE
  <2>1. i \in DOMAIN derived
    BY <1>3 DEF Added
  <2>2. derived[i] \in Range(Derive[wallet[id]])
    BY <1>2, <2>1 DEF Range
  <2>3. HasRow(id, derived[i])
    BY <1>2, <2>2 DEF AllDerived, HasRow
  <2>4. AddressConflict(s)
    BY <1>3, <2>3 DEF AddressConflict, HasRow
  <2>5. QED BY <2>4 DEF PersistAddresses
<1>4. DOMAIN AddressRows(s) = {}
  BY <1>3 DEF AddressRows
<1>5. address' = Extend(address, AddressRows(s))
  BY DEF PersistAddresses
<1>6. QED BY <1>1, <1>4, <1>5 DEF Extend

LEMMA PersistKeeps ==
  ASSUME TypeOK, NEW s \in Syncs, PersistAddresses(s), Stage(s),
         NEW r \in Syncs, Running(r), Stage(r), sync'[r] = sync[r]
  PROVE  Stage(r)'
<1>1. UNCHANGED <<wallet, transaction, txio, chain>>
  BY DEF PersistAddresses
<1>2. CASE AllDerived
  <2>1. address' = address
    BY <1>2, NoneAdded DEF Stage
  <2>2. QED BY <1>1, <2>1, SteadyKeeps DEF tables
<1>3. CASE ~AllDerived
  <2>1. sync[r].pc \in {"scan", "persist"}
    <3>1. sync[r].pc \in Places /\ sync[r].pc # "idle"
      BY DEF TypeOK, IsSync, Running
    <3>2. QED BY <1>3, <3>1 DEF Stage, Established, Places, Discovering, Reclassifying, Finishing
  <2>2. \A id, a : HasRow(id, a) => HasRow(id, a)'
    BY AddressGrows DEF HasRow
  <2>3. Current(r)' = Current(r) /\ \A a : History(a)' = History(a)
    BY <1>1 DEF Current, History
  <2>4. Walked(r)'
    BY <1>1, <2>1, <2>2, <2>3 DEF Stage, Walked
  <2>5. ReadsAreCurrent(r)'
    BY <2>1, <2>3 DEF Stage, ReadsAreCurrent, Discovering
  <2>6. Fetching(r)' /\ FlagsStayRight(r)' /\ Established(r)'
    BY <2>1 DEF Fetching, FlagsStayRight, Established, Discovering, Reclassifying, Finishing
  <2>7. QED BY <2>4, <2>5, <2>6 DEF Stage
<1>4. QED BY <1>2, <1>3

(* Its own wallet has its rows now.                                        *)
LEMMA PersistAdvances ==
  ASSUME TypeOK, NEW s \in Syncs, PersistAddresses(s), Stage(s)
  PROVE  Stage(s)'
<1> DEFINE id == Current(s)
           value == sync[s].specs[id]
<1>1. /\ IsMap(sync[s].specs, Ids, Values) /\ DOMAIN sync[s].specs # {} /\ sync[s].pc = "persist"
      /\ UNCHANGED <<wallet, transaction, txio, chain>>
  BY DEF TypeOK, TablesOK, IsSync, PersistAddresses
<1>2. id \in DOMAIN sync[s].specs /\ id \in DOMAIN wallet /\ value = wallet[id]
  BY <1>1, CurrentType DEF Stage, Walked
<1>3. /\ sync'[s].pc = "scan"
      /\ sync'[s].specs = RestrictDomain(sync[s].specs, LAMBDA i : i # id)
      /\ sync'[s].seen = IF value \in Single
                         THEN Extend(HistoriesOf(Range(Derive[value])), sync[s].seen)
                         ELSE sync[s].seen
  BY DEF PersistAddresses, TypeOK, IsSync, Idle
<1>4. \A a : History(a)' = History(a)
  BY <1>1 DEF History
<1>5. \A i, a : HasRow(i, a) => HasRow(i, a)'
  BY AddressGrows DEF HasRow
<1>6. \A a \in Range(Derive[value]) : HasRow(id, a) \/ a \notin sync[s].existing
  BY <1>1 DEF Stage, Walked
<1>7. ASSUME NEW a \in Range(Derive[value])
      PROVE  \E r \in DOMAIN address' : address'[r].wallet = id /\ address'[r].address = a
  <2>1. CASE a \in sync[s].existing
    <3>1. HasRow(id, a)
      BY <1>6, <2>1
    <3>2. QED BY <3>1, AddressGrows DEF HasRow
  <2>2. CASE a \notin sync[s].existing
    BY <2>2, AddressGrows
  <2>3. QED BY <2>1, <2>2
<1>8. /\ DOMAIN sync'[s].specs = DOMAIN sync[s].specs \ {id}
      /\ \A i \in DOMAIN sync'[s].specs : sync'[s].specs[i] = sync[s].specs[i]
  BY <1>3 DEF RestrictDomain, Restrict
<1> HIDE DEF id, value
<1>9. Walked(s)'
  <2>1. \A i \in DOMAIN wallet \ DOMAIN sync'[s].specs :
          \A a \in Range(Derive[wallet[i]]) : HasRow(i, a)'
    <3> SUFFICES ASSUME NEW i \in DOMAIN wallet \ DOMAIN sync'[s].specs,
                        NEW a \in Range(Derive[wallet[i]])
                 PROVE  HasRow(i, a)'
      OBVIOUS
    <3>1. CASE i = id
      BY <1>2, <1>7, <3>1 DEF HasRow
    <3>2. CASE i # id
      <4>1. HasRow(i, a)
        BY <1>1, <1>8, <3>2 DEF Stage, Walked
      <4>2. QED BY <1>5, <4>1
    <3>3. QED BY <3>1, <3>2
  <2>2. DOMAIN sync'[s].specs \subseteq DOMAIN wallet
        /\ \A i \in DOMAIN sync'[s].specs : sync'[s].specs[i] = wallet[i]
    BY <1>1, <1>8 DEF Stage, Walked
  <2>3. QED BY <1>1, <1>3, <2>1, <2>2 DEF Walked
<1>10. ReadsAreCurrent(s)'
  <2>1. \A a \in DOMAIN sync'[s].seen : sync'[s].seen[a] = History(a)
    BY <1>3 DEF Stage, ReadsAreCurrent, Extend, HistoriesOf
  <2>2. QED BY <1>3, <1>4, <2>1 DEF ReadsAreCurrent, Discovering
<1>11. Fetching(s)' /\ FlagsStayRight(s)' /\ Established(s)'
  BY <1>3 DEF Fetching, FlagsStayRight, Established, Discovering, Reclassifying, Finishing
<1>12. QED BY <1>9, <1>10, <1>11 DEF Stage

-----------------------------------------------------------------------------
(* What the other steps of a quiet sync establish.                         *)

LEMMA ScanAdvances ==
  ASSUME TypeOK, NEW s \in Syncs, Scan(s), Stage(s)
  PROVE  Stage(s)'
<1> DEFINE value == sync[s].specs[Current(s)]
           existing == {address[r].address :
                          r \in {q \in DOMAIN address : address[q].wallet = Current(s)}}
<1>1. /\ sync[s].pc = "scan" /\ sync'[s].pc = "persist" /\ sync'[s].specs = sync[s].specs
      /\ sync'[s].seen = IF value \in Single THEN sync[s].seen
                         ELSE Extend(sync[s].seen, HistoriesOf(Range(Derive[value])))
      /\ sync'[s].existing = existing
      /\ UNCHANGED <<tables, chain>>
  BY DEF Scan, TypeOK, IsSync, Idle
<1>2. Current(s)' = Current(s)
  BY <1>1 DEF Current
<1>3. \A a \in existing : HasRow(Current(s), a)
  BY DEF HasRow
<1> HIDE DEF value, existing
<1>4. Walked(s)'
  <2>1. \A a \in sync'[s].existing : HasRow(Current(s), a)'
    BY <1>1, <1>2, <1>3, SteadyFacts
  <2>2. DOMAIN sync'[s].specs \subseteq DOMAIN wallet'
        /\ \A id \in DOMAIN sync'[s].specs : sync'[s].specs[id] = wallet'[id]
    BY <1>1, SteadyFacts DEF Stage, Walked
  <2>3. \A id \in DOMAIN wallet' \ DOMAIN sync'[s].specs :
          \A a \in Range(Derive[wallet'[id]]) : HasRow(id, a)'
    BY <1>1, SteadyFacts DEF Stage, Walked
  <2>4. QED BY <2>1, <2>2, <2>3 DEF Walked
<1>5. ReadsAreCurrent(s)'
  <2>1. \A a \in DOMAIN sync'[s].seen : sync'[s].seen[a] = History(a)
    BY <1>1 DEF Stage, ReadsAreCurrent, Extend, HistoriesOf
  <2>2. QED BY <1>1, <2>1, SteadyFacts DEF ReadsAreCurrent, Discovering
<1>6. Fetching(s)' /\ FlagsStayRight(s)' /\ Established(s)'
  BY <1>1 DEF Fetching, FlagsStayRight, Established, Discovering, Reclassifying, Finishing
<1>7. QED BY <1>4, <1>5, <1>6 DEF Stage

LEMMA ReadOwnedAdvances ==
  ASSUME TypeOK, NEW s \in Syncs, ReadOwned(s), Stage(s)
  PROVE  Stage(s)'
<1>1. /\ sync[s].pc = "scan" /\ sync[s].specs = Empty
      /\ sync'[s].pc = "discover" /\ sync'[s].seen = sync[s].seen
      /\ sync'[s].own = OwnedAddresses(address)
      /\ UNCHANGED <<tables, chain>>
  BY DEF ReadOwned, TypeOK, IsSync, Idle
<1>2. AllDerived
  <2>1. DOMAIN sync[s].specs = {}
    BY <1>1 DEF Empty
  <2>2. \A id \in DOMAIN wallet : \A a \in Range(Derive[wallet[id]]) : HasRow(id, a)
    BY <1>1, <2>1 DEF Stage, Walked
  <2>3. QED BY <2>2 DEF AllDerived, HasRow
<1>3. Walked(s)' /\ Fetching(s)' /\ FlagsStayRight(s)'
  BY <1>1 DEF Walked, Fetching, FlagsStayRight
<1>4. ReadsAreCurrent(s)'
  BY <1>1, SteadyFacts DEF Stage, ReadsAreCurrent
<1>5. Established(s)'
  BY <1>1, <1>2, SteadyFacts DEF Established, Reclassifying, Finishing
<1>6. QED BY <1>3, <1>4, <1>5 DEF Stage

(* What is to be fetched is what touches a row's address and is not stored. *)
LEMMA DiscoverAdvances ==
  ASSUME TypeOK, NEW s \in Syncs, Discover(s), Stage(s)
  PROVE  Stage(s)'
<1> DEFINE owned    == DOMAIN sync[s].own
           complete == Extend(HistoriesOf(owned), sync[s].seen)
           toFetch  == (UNION {complete[a] : a \in owned}) \ DOMAIN transaction
<1>1. /\ sync[s].pc = "discover"
      /\ sync'[s].pc = IF toFetch = {} THEN "refresh" ELSE "ingest"
      /\ sync'[s].seen = Empty /\ sync'[s].fetch = toFetch /\ sync'[s].own = sync[s].own
      /\ UNCHANGED <<tables, chain>>
  BY DEF Discover, TypeOK, IsSync, Idle
<1>2. sync[s].own = OwnedAddresses(address)
  BY <1>1 DEF Stage, ReadsAreCurrent, Discovering
<1>3. owned = {address[r].address : r \in DOMAIN address}
  BY <1>2 DEF OwnedAddresses
<1>4. \A a \in owned : complete[a] = History(a)
  BY DEF Stage, ReadsAreCurrent, Extend, HistoriesOf
<1> HIDE DEF complete, owned
<1>5. \A r \in DOMAIN address :
        History(address[r].address) \subseteq DOMAIN transaction \cup toFetch
  BY <1>3, <1>4
<1>6. \A t \in toFetch : \E r \in DOMAIN address : t \in History(address[r].address)
  BY <1>3, <1>4
<1> HIDE DEF toFetch
<1>7. toFetch = {} => AllStored
  BY <1>5 DEF AllStored
<1>8. AllDerived
  BY <1>1 DEF Stage, Established, Discovering
<1>9. Walked(s)' /\ FlagsStayRight(s)'
  BY <1>1 DEF Walked, FlagsStayRight
<1>10. ReadsAreCurrent(s)'
  BY <1>1, <1>2, SteadyFacts DEF ReadsAreCurrent, Empty
<1>11. Fetching(s)'
  BY <1>1, <1>5, <1>6, SteadyFacts DEF Fetching
<1>12. Established(s)'
  BY <1>1, <1>7, <1>8, SteadyFacts DEF Established, Finishing, Reclassifying
<1>13. QED BY <1>9, <1>10, <1>11, <1>12 DEF Stage

LEMMA ReadCurrentOwnedAdvances ==
  ASSUME TypeOK, NEW s \in Syncs, ReadCurrentOwned(s), Stage(s)
  PROVE  Stage(s)'
<1>1. /\ sync[s].pc = "refresh" /\ sync'[s].pc = "read_ios"
      /\ sync'[s].seen = sync[s].seen /\ sync'[s].own = OwnedAddresses(address)
      /\ UNCHANGED <<tables, chain>>
  BY DEF ReadCurrentOwned, TypeOK, IsSync, Idle
<1>2. AllDerived /\ AllStored
  BY <1>1 DEF Stage, Established, Reclassifying
<1>3. Walked(s)' /\ Fetching(s)' /\ FlagsStayRight(s)'
  BY <1>1 DEF Walked, Fetching, FlagsStayRight
<1>4. ReadsAreCurrent(s)'
  BY <1>1, SteadyFacts DEF Stage, ReadsAreCurrent
<1>5. Established(s)'
  BY <1>1, <1>2, SteadyFacts DEF Established, Discovering, Finishing
<1>6. QED BY <1>3, <1>4, <1>5 DEF Stage

LEMMA ReadIosAdvances ==
  ASSUME TypeOK, NEW s \in Syncs, ReadIos(s), Stage(s)
  PROVE  Stage(s)'
<1>1. /\ sync[s].pc = "read_ios" /\ sync'[s].pc = "reclassify" /\ sync'[s].ios = txio
      /\ sync'[s].seen = sync[s].seen /\ sync'[s].own = sync[s].own
      /\ UNCHANGED <<tables, chain>>
  BY DEF ReadIos, TypeOK, IsSync, Idle
<1>2. AllDerived /\ AllStored
  BY <1>1 DEF Stage, Established, Reclassifying
<1>3. Walked(s)' /\ Fetching(s)'
  BY <1>1 DEF Walked, Fetching
<1>4. ReadsAreCurrent(s)'
  BY <1>1, SteadyFacts DEF Stage, ReadsAreCurrent
<1>5. FlagsStayRight(s)'
  BY <1>1, SteadyFacts DEF FlagsStayRight
<1>6. Established(s)'
  BY <1>1, <1>2, SteadyFacts DEF Established, Discovering, Finishing
<1>7. QED BY <1>3, <1>4, <1>5, <1>6 DEF Stage

LEMMA ReadUsedAdvances ==
  ASSUME TypeOK, NEW s \in Syncs, ReadUsed(s), Stage(s)
  PROVE  Stage(s)'
<1>1. /\ sync[s].pc = "read_used" /\ sync'[s].pc = "set_used"
      /\ sync'[s].seen = sync[s].seen
      /\ sync'[s].rows = {r \in DOMAIN address :
                            ~address[r].used
                            /\ \E t \in DOMAIN txio : address[r].address \in IosOf(t)}
      /\ UNCHANGED <<tables, chain>>
  BY DEF ReadUsed, TypeOK, IsSync, Idle
<1>2. AllDerived /\ AllStored /\ AllFlagged /\ AllClassified /\ AllPriced
  BY <1>1 DEF Stage, Established, Finishing
<1>3. Walked(s)' /\ Fetching(s)' /\ FlagsStayRight(s)'
  BY <1>1 DEF Walked, Fetching, FlagsStayRight
<1>4. ReadsAreCurrent(s)'
  BY <1>1, SteadyFacts DEF Stage, ReadsAreCurrent, Discovering
<1>5. \A r \in DOMAIN address' :
        (\E t \in DOMAIN txio' : address'[r].address \in IosOf(t)) =>
          address'[r].used \/ r \in sync'[s].rows
  BY <1>1, SteadyFacts
<1>6. Established(s)'
  BY <1>1, <1>2, <1>5, SteadyFacts DEF Established
<1>7. QED BY <1>3, <1>4, <1>6 DEF Stage

(* Every row's history is stored now.                                      *)
LEMMA IngestAdvances ==
  ASSUME TypeOK, NEW s \in Syncs, Ingest(s), Stage(s)
  PROVE  Stage(s)'
<1>1. /\ sync[s].pc = "ingest" /\ sync'[s].pc = "refresh" /\ sync'[s].seen = sync[s].seen
      /\ UNCHANGED <<wallet, address, chain>>
  BY DEF Ingest, TypeOK, IsSync, Idle
<1>2. DOMAIN transaction' = DOMAIN transaction \cup sync[s].fetch
  BY DEF Ingest, Extend
<1>3. \A a : History(a)' = History(a)
  BY <1>1 DEF History
<1>4. AllStored'
  BY <1>1, <1>2, <1>3 DEF Stage, Fetching, AllStored
<1>5. AllDerived'
  BY <1>1 DEF Stage, Established, Discovering, AllDerived
<1>6. Walked(s)' /\ Fetching(s)' /\ FlagsStayRight(s)'
  BY <1>1 DEF Walked, Fetching, FlagsStayRight
<1>7. ReadsAreCurrent(s)'
  BY <1>1, <1>3 DEF Stage, ReadsAreCurrent, Discovering
<1>8. Established(s)'
  BY <1>1, <1>4, <1>5 DEF Established, Finishing
<1>9. QED BY <1>6, <1>7, <1>8 DEF Stage

(* A flag that is not overwritten was right, and still is.                 *)
LEMMA RefreshedIsRight ==
  ASSUME NEW s \in Syncs, Stage(s), sync[s].pc = "reclassify", NEW t \in DOMAIN txio
  PROVE  Refreshed(s, t) = Flags(OwnedAddresses(address), t)
<1> DEFINE own  == OwnedAddresses(address)
           read == sync[s].ios[t]
<1>1. sync[s].own = own
  BY DEF Stage, ReadsAreCurrent
<1> HIDE DEF own
<1>2. \A slot \in Slots(Tx[t]) :
        /\ read[slot].owned = Flag(own, t, slot).owned =>
             txio[t][slot].owned = Flag(own, t, slot).owned
        /\ read[slot].wallet = Flag(own, t, slot).wallet =>
             txio[t][slot].wallet = Flag(own, t, slot).wallet
  BY DEF Stage, FlagsStayRight, own
<1>3. \A slot \in Slots(Tx[t]) : Flags(own, t)[slot] = Flag(own, t, slot)
  BY DEF Flags
<1>4. Refreshed(s, t) = [slot \in Slots(Tx[t]) |->
        [owned |-> Flag(own, t, slot).owned, wallet |-> Flag(own, t, slot).wallet]]
  BY <1>1, <1>2, <1>3 DEF Refreshed
<1>5. \A slot : Flag(own, t, slot) =
        [owned |-> Flag(own, t, slot).owned, wallet |-> Flag(own, t, slot).wallet]
  BY DEF Flag
<1>6. Refreshed(s, t) = Flags(own, t)
  BY <1>4, <1>5 DEF Flags
<1>7. QED BY <1>6 DEF own

(* What reclassify_all commits: all flags and all classes are right.       *)
LEMMA ReclassifyEstablishes ==
  ASSUME TypeOK, NEW s \in Syncs, Reclassify(s), Stage(s)
  PROVE  /\ AllFlagged' /\ AllClassified'
         /\ \A t \in DOMAIN transaction :
              transaction'[t] = [transaction[t] EXCEPT !.class = transaction'[t].class]
<1>1. /\ sync[s].pc = "reclassify" /\ UNCHANGED <<wallet, address, chain>>
      /\ DOMAIN txio' = DOMAIN txio /\ DOMAIN transaction' = DOMAIN transaction
      /\ DOMAIN txio = DOMAIN transaction
  BY DEF Reclassify, TypeOK, TablesOK
<1>2. DOMAIN sync[s].ios = DOMAIN txio /\ sync[s].own = OwnedAddresses(address)
  BY <1>1 DEF Stage, FlagsStayRight, ReadsAreCurrent
<1>3. \A t \in DOMAIN txio : txio'[t] = Flags(OwnedAddresses(address), t)
  <2>1. \A t \in DOMAIN txio : txio'[t] = Refreshed(s, t)
    BY <1>2 DEF Reclassify
  <2>2. QED BY <1>1, <2>1, RefreshedIsRight
<1>4. \A t \in DOMAIN transaction : transaction'[t] =
        [transaction[t] EXCEPT !.class = Classify(Tx[t], SlotsOf(Tx[t], DOMAIN sync[s].own))]
  BY <1>1, <1>2 DEF Reclassify
<1>5. \A t \in DOMAIN transaction :
        transaction'[t].class = Classify(Tx[t], SlotsOf(Tx[t], DOMAIN sync[s].own))
  BY <1>4 DEF TypeOK, TablesOK, TransactionRow
<1>6. \A t \in DOMAIN transaction :
        OwnedSlots(txio'[t]) = SlotsOf(Tx[t], DOMAIN sync[s].own)
  BY <1>1, <1>2, <1>3, OwnedSlotsOfFlags
<1>7. AllFlagged'
  BY <1>1, <1>3 DEF AllFlagged
<1>8. AllClassified'
  BY <1>1, <1>5, <1>6 DEF AllClassified
<1>9. QED BY <1>4, <1>5, <1>7, <1>8

LEMMA ReclassifyAdvances ==
  ASSUME TypeOK, NEW s \in Syncs, Reclassify(s), Stage(s)
  PROVE  Stage(s)'
<1>1. /\ sync[s].pc = "reclassify" /\ sync'[s].pc = "price" /\ sync'[s].seen = sync[s].seen
      /\ UNCHANGED <<wallet, address, chain>>
  BY DEF Reclassify, TypeOK, IsSync, Idle
<1>2. DOMAIN transaction' = DOMAIN transaction
  BY DEF Reclassify
<1>3. \A a : History(a)' = History(a)
  BY <1>1 DEF History
<1>4. AllDerived' /\ AllStored'
  BY <1>1, <1>2, <1>3 DEF Stage, Established, Reclassifying, AllDerived, AllStored
<1>5. AllFlagged' /\ AllClassified'
  BY ReclassifyEstablishes
<1>6. Walked(s)' /\ Fetching(s)' /\ FlagsStayRight(s)'
  BY <1>1 DEF Walked, Fetching, FlagsStayRight
<1>7. ReadsAreCurrent(s)'
  BY <1>1, <1>3 DEF Stage, ReadsAreCurrent, Discovering
<1>8. Established(s)'
  BY <1>1, <1>4, <1>5 DEF Established
<1>9. QED BY <1>6, <1>7, <1>8 DEF Stage

(* A commit of prices prices all there is to price and changes no class.   *)
LEMMA FillPricesEstablishes ==
  ASSUME TypeOK, NEW s \in Syncs, FillPrices(s)
  PROVE  /\ AllPriced' /\ DOMAIN transaction' = DOMAIN transaction
         /\ \A t \in DOMAIN transaction : transaction'[t].class = transaction[t].class
<1>1. DOMAIN transaction' = DOMAIN transaction
  BY DEF FillPrices
<1>2. \A t \in DOMAIN transaction : transaction'[t].class = transaction[t].class
  BY DEF FillPrices, TypeOK, TablesOK, TransactionRow
<1>3. ASSUME NEW t \in Quoted \cap DOMAIN transaction PROVE ~Unpriced(t)'
  <2>1. CASE Unpriced(t)
    <3>1. transaction'[t] = [transaction[t] EXCEPT !.price = currency]
      BY <1>3, <2>1 DEF FillPrices
    <3>2. transaction'[t].price = currency
      BY <3>1 DEF TypeOK, TablesOK, TransactionRow
    <3>3. currency # None
      BY StoreAssumption DEF TypeOK
    <3>4. QED BY <3>2, <3>3 DEF Unpriced
  <2>2. CASE ~Unpriced(t)
    <3>1. transaction'[t] = transaction[t]
      BY <1>3, <2>2 DEF FillPrices
    <3>2. QED BY <2>2, <3>1 DEF Unpriced
  <2>3. QED BY <2>1, <2>2
<1>4. AllPriced'
  BY <1>1, <1>3 DEF AllPriced
<1>5. QED BY <1>1, <1>2, <1>4

(* So whatever else was established stays so.                              *)
LEMMA FillPricesChangesNoMore ==
  ASSUME TypeOK, NEW s \in Syncs, FillPrices(s)
  PROVE  /\ UNCHANGED <<wallet, address, txio, chain>> /\ \A a : History(a)' = History(a)
         /\ \A id, a : HasRow(id, a)' <=> HasRow(id, a)
         /\ AllDerived => AllDerived'
         /\ AllStored => AllStored'
         /\ AllFlagged => AllFlagged'
         /\ AllClassified => AllClassified'
<1>1. UNCHANGED <<wallet, address, txio, chain>>
  BY DEF FillPrices
<1>2. \A a : History(a)' = History(a)
  BY <1>1 DEF History
<1>3. AllStored => AllStored'
  BY <1>1, <1>2, FillPricesEstablishes DEF AllStored
<1>4. AllClassified => AllClassified'
  BY <1>1, FillPricesEstablishes DEF AllClassified
<1>5. QED BY <1>1, <1>2, <1>3, <1>4 DEF HasRow, AllDerived, AllFlagged

LEMMA FillPricesAdvances ==
  ASSUME TypeOK, NEW s \in Syncs, FillPrices(s), Stage(s)
  PROVE  Stage(s)'
<1>1. sync[s].pc = "price" /\ sync'[s].pc = "read_used" /\ sync'[s].seen = sync[s].seen
  BY DEF FillPrices, TypeOK, IsSync, Idle
<1>2. AllDerived' /\ AllStored' /\ AllFlagged' /\ AllClassified' /\ AllPriced'
  BY <1>1, FillPricesEstablishes, FillPricesChangesNoMore DEF Stage, Established, Finishing
<1>3. Walked(s)' /\ Fetching(s)' /\ FlagsStayRight(s)'
  BY <1>1 DEF Walked, Fetching, FlagsStayRight
<1>4. ReadsAreCurrent(s)'
  BY <1>1, FillPricesChangesNoMore DEF Stage, ReadsAreCurrent, Discovering
<1>5. Established(s)'
  BY <1>1, <1>2 DEF Established
<1>6. QED BY <1>3, <1>4, <1>5 DEF Stage

-----------------------------------------------------------------------------
(* What a step of one quiet sync leaves to the others.                     *)

LEMMA IngestKeeps ==
  ASSUME TypeOK, NEW s \in Syncs, Ingest(s), Stage(s),
         NEW r \in Syncs, Running(r), Stage(r), sync'[r] = sync[r]
  PROVE  Stage(r)'
<1>1. /\ sync[s].pc = "ingest" /\ UNCHANGED <<wallet, address, chain>>
      /\ sync[s].fetch \cap DOMAIN transaction = {}
  BY DEF Ingest
<1>2. \A a : History(a)' = History(a)
  BY <1>1 DEF History
<1>3. Current(r)' = Current(r) /\ \A id, a : HasRow(id, a)' <=> HasRow(id, a)
  BY <1>1 DEF Current, HasRow
<1>4. Walked(r)'
  BY <1>1, <1>3 DEF Stage, Walked
<1>5. ReadsAreCurrent(r)'
  BY <1>1, <1>2 DEF Stage, ReadsAreCurrent
<1>6. Fetching(r)'
  <2>1. DOMAIN transaction \subseteq DOMAIN transaction'
    BY DEF Ingest, Extend
  <2>2. QED BY <1>1, <1>2, <2>1 DEF Stage, Fetching
<1>7. CASE AllStored
  <2>1. sync[s].fetch = {}
    BY <1>1, <1>7 DEF Stage, Fetching, AllStored
  <2>2. transaction' = transaction
    <3>1. transaction = [t \in DOMAIN transaction |-> transaction[t]]
      BY DEF TypeOK, TablesOK
    <3>2. QED BY <2>1, <3>1 DEF Ingest, Extend
  <2>3. DOMAIN txio' = DOMAIN txio /\ \A t \in DOMAIN txio : txio'[t] = txio[t]
    BY <2>1 DEF Ingest, Extend
  <2>4. DOMAIN txio = DOMAIN transaction
    BY DEF TypeOK, TablesOK
  <2>5. FlagsStayRight(r)'
    BY <1>1, <2>3 DEF Stage, FlagsStayRight
  <2>6. /\ AllDerived => AllDerived'
        /\ AllStored => AllStored'
        /\ AllFlagged => AllFlagged'
        /\ AllClassified => AllClassified'
        /\ AllPriced => AllPriced'
    BY <1>1, <1>2, <2>2, <2>3, <2>4
       DEF AllDerived, AllStored, AllFlagged, AllClassified, AllPriced, Unpriced
  <2>7. Established(r)'
    BY <1>1, <2>3, <2>6 DEF Stage, Established
  <2>8. QED BY <1>4, <1>5, <1>6, <2>5, <2>7 DEF Stage
<1>8. CASE ~AllStored
  <2>1. sync[r].pc \in {"scan", "persist", "discover", "ingest"}
    <3>1. sync[r].pc \in Places /\ sync[r].pc # "idle"
      BY DEF TypeOK, IsSync, Running
    <3>2. QED BY <1>8, <3>1 DEF Stage, Established, Places, Reclassifying, Finishing
  <2>2. FlagsStayRight(r)'
    BY <2>1 DEF FlagsStayRight
  <2>3. Established(r)'
    BY <1>1, <2>1 DEF Stage, Established, Reclassifying, Finishing, AllDerived
  <2>4. QED BY <1>4, <1>5, <1>6, <2>2, <2>3 DEF Stage
<1>9. QED BY <1>7, <1>8

(* Right flags and classes are written over right ones.                    *)
LEMMA ReclassifyChangesNoPrice ==
  ASSUME TypeOK, NEW s \in Syncs, Reclassify(s), Stage(s), AllFlagged, AllClassified, AllPriced
  PROVE  AllPriced'
<1>1. /\ UNCHANGED <<wallet, address, chain>>
      /\ DOMAIN txio' = DOMAIN txio /\ DOMAIN transaction' = DOMAIN transaction
      /\ DOMAIN txio = DOMAIN transaction
  BY DEF Reclassify, TypeOK, TablesOK
<1>2. AllFlagged' /\ AllClassified'
      /\ \A t \in DOMAIN transaction :
           transaction'[t] = [transaction[t] EXCEPT !.class = transaction'[t].class]
  BY ReclassifyEstablishes
<1>3. \A t \in DOMAIN transaction : txio'[t] = txio[t]
  BY <1>1, <1>2 DEF AllFlagged
<1>4. \A t \in DOMAIN transaction : transaction'[t].class = transaction[t].class
  BY <1>1, <1>2, <1>3 DEF AllClassified
<1>5. \A t \in DOMAIN transaction : transaction'[t] = transaction[t]
  BY <1>2, <1>4 DEF TypeOK, TablesOK, TransactionRow
<1>6. QED BY <1>1, <1>5 DEF AllPriced, Unpriced

LEMMA ReclassifyKeeps ==
  ASSUME TypeOK, NEW s \in Syncs, Reclassify(s), Stage(s),
         NEW r \in Syncs, Running(r), Stage(r), sync'[r] = sync[r]
  PROVE  Stage(r)'
<1>1. /\ UNCHANGED <<wallet, address, chain>>
      /\ DOMAIN txio' = DOMAIN txio /\ DOMAIN transaction' = DOMAIN transaction
  BY DEF Reclassify
<1>2. \A a : History(a)' = History(a)
  BY <1>1 DEF History
<1>3. Current(r)' = Current(r) /\ \A id, a : HasRow(id, a)' <=> HasRow(id, a)
  BY <1>1 DEF Current, HasRow
<1>4. Walked(r)'
  BY <1>1, <1>3 DEF Stage, Walked
<1>5. ReadsAreCurrent(r)'
  BY <1>1, <1>2 DEF Stage, ReadsAreCurrent
<1>6. Fetching(r)'
  BY <1>1, <1>2 DEF Stage, Fetching
<1>7. \A t \in DOMAIN txio : \A slot \in Slots(Tx[t]) :
        txio'[t][slot] = Flag(OwnedAddresses(address), t, slot)
  BY <1>1, ReclassifyEstablishes DEF AllFlagged, Flags
<1>8. FlagsStayRight(r)'
  BY <1>1, <1>7 DEF Stage, FlagsStayRight
<1>9. (AllDerived => AllDerived') /\ (AllStored => AllStored')
  BY <1>1, <1>2 DEF AllDerived, AllStored
<1>10. sync[r].pc \in {"read_used", "set_used"} => AllPriced'
  BY ReclassifyChangesNoPrice DEF Stage, Established, Finishing
<1>11. AllFlagged' /\ AllClassified'
  BY ReclassifyEstablishes
<1>12. Established(r)'
  BY <1>1, <1>9, <1>10, <1>11 DEF Stage, Established
<1>13. QED BY <1>4, <1>5, <1>6, <1>8, <1>12 DEF Stage

LEMMA FillPricesKeeps ==
  ASSUME TypeOK, NEW s \in Syncs, FillPrices(s),
         NEW r \in Syncs, Stage(r), sync'[r] = sync[r]
  PROVE  Stage(r)'
<1>1. UNCHANGED <<wallet, address, txio, chain>> /\ \A a : History(a)' = History(a)
  BY FillPricesChangesNoMore
<1>2. DOMAIN transaction' = DOMAIN transaction /\ AllPriced'
  BY FillPricesEstablishes
<1>3. Current(r)' = Current(r) /\ \A id, a : HasRow(id, a)' <=> HasRow(id, a)
  BY FillPricesChangesNoMore DEF Current
<1>4. Walked(r)'
  BY <1>1, <1>3 DEF Stage, Walked
<1>5. ReadsAreCurrent(r)'
  BY <1>1 DEF Stage, ReadsAreCurrent
<1>6. Fetching(r)'
  BY <1>1, <1>2 DEF Stage, Fetching
<1>7. FlagsStayRight(r)'
  BY <1>1 DEF Stage, FlagsStayRight
<1>8. Established(r)'
  BY <1>1, <1>2, FillPricesChangesNoMore DEF Stage, Established
<1>9. QED BY <1>4, <1>5, <1>6, <1>7, <1>8 DEF Stage

(* Marking rows as used changes nothing else about them.                   *)
LEMMA SetUsedMarks ==
  ASSUME TypeOK, NEW s \in Syncs, SetUsed(s)
  PROVE  /\ UNCHANGED <<wallet, transaction, txio, chain>> /\ \A a : History(a)' = History(a)
         /\ DOMAIN address' = DOMAIN address
         /\ \A r \in DOMAIN address :
              /\ address'[r].wallet = address[r].wallet
              /\ address'[r].address = address[r].address
              /\ address'[r].used <=> address[r].used \/ r \in sync[s].rows
         /\ \A id, a : HasRow(id, a)' <=> HasRow(id, a)
         /\ OwnedAddresses(address)' = OwnedAddresses(address)
<1>1. UNCHANGED <<wallet, transaction, txio, chain>> /\ DOMAIN address' = DOMAIN address
  BY DEF SetUsed
<1>2. \A r \in DOMAIN address :
        /\ address'[r].wallet = address[r].wallet
        /\ address'[r].address = address[r].address
        /\ address'[r].used <=> address[r].used \/ r \in sync[s].rows
  <2> SUFFICES ASSUME NEW r \in DOMAIN address
               PROVE  /\ address'[r].wallet = address[r].wallet
                      /\ address'[r].address = address[r].address
                      /\ address'[r].used <=> address[r].used \/ r \in sync[s].rows
    OBVIOUS
  <2>1. address[r] \in AddressRow
    BY DEF TypeOK, TablesOK, IsTable, IsMap
  <2>2. address'[r] = IF r \in sync[s].rows THEN [address[r] EXCEPT !.used = TRUE]
                                            ELSE address[r]
    BY DEF SetUsed
  <2>3. QED BY <2>1, <2>2 DEF AddressRow
<1>3. \A a : History(a)' = History(a)
  BY <1>1 DEF History
<1>4. \A id, a : HasRow(id, a)' <=> HasRow(id, a)
  BY <1>1, <1>2 DEF HasRow
<1>5. OwnedAddresses(address)' = OwnedAddresses(address)
  <2> DEFINE of(table, a) == {r \in DOMAIN table : table[r].address = a}
             known(table) == {table[r].address : r \in DOMAIN table}
  <2>1. \A a : of(address', a) = of(address, a)
    BY <1>1, <1>2
  <2>2. known(address') = known(address)
    BY <1>1, <1>2
  <2>3. \A a \in known(address) : Max(of(address, a)) \in DOMAIN address
    <3> SUFFICES ASSUME NEW a \in known(address)
                 PROVE  Max(of(address, a)) \in DOMAIN address
      OBVIOUS
    <3>1. IsFiniteSet(of(address, a)) /\ of(address, a) \subseteq Nat /\ of(address, a) # {}
      BY FS_Subset DEF TypeOK, TablesOK, IsTable, IsMap, Ids
    <3>2. QED BY <3>1, MaxIsGreatest
  <2>4. \A a \in known(address) :
          address'[Max(of(address', a))].wallet = address[Max(of(address, a))].wallet
    BY <1>2, <2>1, <2>3
  <2>5. /\ OwnedAddresses(address) =
             [a \in known(address) |-> address[Max(of(address, a))].wallet]
        /\ OwnedAddresses(address)' =
             [a \in known(address') |-> address'[Max(of(address', a))].wallet]
    BY DEF OwnedAddresses
  <2> HIDE DEF of, known
  <2>6. QED BY <2>2, <2>4, <2>5
<1>6. QED BY <1>1, <1>2, <1>3, <1>4, <1>5

LEMMA SetUsedChangesNoMore ==
  ASSUME TypeOK, NEW s \in Syncs, SetUsed(s)
  PROVE  /\ AllDerived => AllDerived'
         /\ AllStored => AllStored'
         /\ AllFlagged => AllFlagged'
         /\ AllClassified => AllClassified'
         /\ AllPriced => AllPriced'
<1>1. AllDerived => AllDerived'
  BY SetUsedMarks DEF AllDerived, HasRow
<1>2. AllStored => AllStored'
  BY SetUsedMarks DEF AllStored
<1>3. AllFlagged => AllFlagged'
  BY SetUsedMarks DEF AllFlagged
<1>4. (AllClassified => AllClassified') /\ (AllPriced => AllPriced')
  BY SetUsedMarks DEF AllClassified, AllPriced, Unpriced
<1>5. QED BY <1>1, <1>2, <1>3, <1>4

LEMMA SetUsedKeeps ==
  ASSUME TypeOK, NEW s \in Syncs, SetUsed(s),
         NEW r \in Syncs, Stage(r), sync'[r] = sync[r]
  PROVE  Stage(r)'
<1>1. UNCHANGED <<wallet, transaction, txio, chain>>
  BY SetUsedMarks
<1>2. Current(r)' = Current(r)
  BY DEF Current
<1>3. Walked(r)'
  BY <1>1, <1>2, SetUsedMarks DEF Stage, Walked
<1>4. ReadsAreCurrent(r)'
  BY SetUsedMarks DEF Stage, ReadsAreCurrent
<1>5. Fetching(r)'
  <2> SUFFICES ASSUME sync[r].pc = "ingest" PROVE Fetching(r)'
    BY DEF Fetching
  <2>1. \A q \in DOMAIN address' :
          History(address'[q].address) \subseteq DOMAIN transaction' \cup sync'[r].fetch
    BY SetUsedMarks DEF Stage, Fetching
  <2>2. \A t \in sync'[r].fetch : \E q \in DOMAIN address' : t \in History(address'[q].address)
    BY SetUsedMarks DEF Stage, Fetching
  <2>3. QED BY <1>1, <2>1, <2>2 DEF Fetching, History
<1>6. FlagsStayRight(r)'
  BY SetUsedMarks DEF Stage, FlagsStayRight
<1>7. sync'[r].pc = "set_used" =>
        \A q \in DOMAIN address' :
          (\E t \in DOMAIN txio' : address'[q].address \in IosOf(t)) =>
            address'[q].used \/ q \in sync'[r].rows
  BY SetUsedMarks DEF Stage, Established
<1>8. Established(r)'
  BY <1>7, SetUsedChangesNoMore DEF Stage, Established
<1>9. QED BY <1>3, <1>4, <1>5, <1>6, <1>8 DEF Stage

(* The last step of a quiet sync: all is done.                             *)
LEMMA SetUsedSettles ==
  ASSUME TypeOK, NEW s \in Syncs, SetUsed(s), Stage(s)
  PROVE  Settled'
<1>1. sync[s].pc = "set_used"
  BY DEF SetUsed
<1>2. AllDerived' /\ AllStored' /\ AllFlagged' /\ AllClassified' /\ AllPriced'
  BY <1>1, SetUsedChangesNoMore DEF Stage, Established, Finishing
<1>3. AllMarked'
  BY <1>1, SetUsedMarks DEF Stage, Established, AllMarked
<1>4. QED BY <1>2, <1>3 DEF Settled

-----------------------------------------------------------------------------
(* Every step.                                                             *)

(* A step of a sync changes that sync, which finishes or stays as quiet.   *)
LEMMA OnlyOneMoves ==
  ASSUME TypeOK, NEW s \in Syncs, SyncStep(s) \/ Abort(s)
  PROVE  /\ Running(s) /\ \A r \in Syncs \ {s} : sync'[r] = sync[r]
         /\ sync'[s] = Idle \/ (Running(s)' /\ sync'[s].quiet = sync[s].quiet)
<1>0. CASE SetUsed(s) \/ Refused(s) \/ Abort(s)
  BY <1>0 DEF SetUsed, Refused, Abort, TypeOK, Running
<1> USE DEF TypeOK, IsSync, Idle, Running
<1>1. CASE Scan(s)
  BY <1>1 DEF Scan
<1>2. CASE PersistAddresses(s)
  BY <1>2 DEF PersistAddresses
<1>3. CASE ReadOwned(s)
  BY <1>3 DEF ReadOwned
<1>4. CASE Discover(s)
  BY <1>4 DEF Discover
<1>5. CASE Ingest(s)
  BY <1>5 DEF Ingest
<1>6. CASE ReadCurrentOwned(s)
  BY <1>6 DEF ReadCurrentOwned
<1>7. CASE ReadIos(s)
  BY <1>7 DEF ReadIos
<1>8. CASE Reclassify(s)
  BY <1>8 DEF Reclassify
<1>9. CASE FillPrices(s)
  BY <1>9 DEF FillPrices
<1>10. CASE ReadUsed(s)
  BY <1>10 DEF ReadUsed
<1>11. QED
  BY <1>0, <1>1, <1>2, <1>3, <1>4, <1>5, <1>6, <1>7, <1>8, <1>9, <1>10 DEF SyncStep

(* What the user and the blockchain do disturbs every sync that runs.      *)
LEMMA Disturbed ==
  ASSUME TypeOK, sync' = Disturb(sync)
  PROVE  /\ \A s \in Syncs : Running(s)' => ~sync'[s].quiet
         /\ \A s \in Syncs : ~Running(s)' => sync'[s] = sync[s] /\ ~Running(s)
  BY DEF TypeOK, IsSync, Idle, Disturb, Running

(* A step a sync takes keeps what the other quiet syncs established.       *)
LEMMA OthersKeep ==
  ASSUME TypeOK, NEW s \in Syncs, SyncStep(s), Stage(s),
         NEW r \in Syncs, Running(r), Stage(r), sync'[r] = sync[r]
  PROVE  Stage(r)'
<1>1. CASE PersistAddresses(s)
  BY <1>1, PersistKeeps
<1>2. CASE Ingest(s)
  BY <1>2, IngestKeeps
<1>3. CASE Reclassify(s)
  BY <1>3, ReclassifyKeeps
<1>4. CASE FillPrices(s)
  BY <1>4, FillPricesKeeps
<1>5. CASE SetUsed(s)
  BY <1>5, SetUsedKeeps
<1>6. CASE \/ Scan(s) \/ ReadOwned(s) \/ Discover(s) \/ ReadCurrentOwned(s)
           \/ ReadIos(s) \/ ReadUsed(s) \/ Refused(s)
  <2>1. UNCHANGED <<tables, chain>>
    BY <1>6 DEF Scan, ReadOwned, Discover, ReadCurrentOwned, ReadIos, ReadUsed, Refused
  <2>2. QED BY <2>1, SteadyKeeps
<1>7. QED BY <1>1, <1>2, <1>3, <1>4, <1>5, <1>6 DEF SyncStep

(* Its own stage is established by the step, unless it was its last.       *)
LEMMA OwnAdvances ==
  ASSUME TypeOK, NEW s \in Syncs, SyncStep(s), Stage(s)
  PROVE  sync'[s] = Idle \/ Stage(s)'
<1>1. CASE SetUsed(s) \/ Refused(s)
  BY <1>1 DEF SetUsed, Refused, TypeOK
<1>2. CASE ~SetUsed(s) /\ ~Refused(s)
  BY <1>2, ScanAdvances, PersistAdvances, ReadOwnedAdvances, DiscoverAdvances,
     IngestAdvances, ReadCurrentOwnedAdvances, ReadIosAdvances, ReclassifyAdvances,
     FillPricesAdvances, ReadUsedAdvances DEF SyncStep
<1>3. QED BY <1>1, <1>2

(* A sync starts with all wallets to take, and disturbed if others are.    *)
LEMMA BeginQuiet ==
  ASSUME TypeOK, Uniform, NEW s \in Syncs, Begin(s)
  PROVE  /\ Uniform' /\ Stage(s)'
         /\ \A r \in Syncs \ {s} : sync'[r] = sync[r]
<1>1. /\ \A r \in Syncs \ {s} : sync'[r] = sync[r]
      /\ sync'[s].pc = "scan" /\ sync'[s].specs = wallet /\ sync'[s].seen = Empty
      /\ sync'[s].quiet = \A r \in Syncs : sync[r].quiet
      /\ UNCHANGED <<tables, chain>> /\ ~Running(s)
  BY DEF Begin, TypeOK, Idle, Running
<1>2. \A r \in Syncs : sync[r].quiet \in BOOLEAN
  BY DEF TypeOK, IsSync
<1>3. Uniform'
  <2>1. Running(s)' /\ \A r \in Syncs \ {s} : Running(r)' <=> Running(r)
    BY <1>1 DEF Running
  <2>2. ASSUME NEW r \in Syncs \ {s}, Running(r) PROVE sync'[r].quiet = sync'[s].quiet
    <3>1. CASE sync[r].quiet
      <4>1. \A q \in Syncs : sync[q].quiet
        BY <1>2, <2>2, <3>1 DEF Uniform
      <4>2. QED BY <1>1, <1>2, <3>1, <4>1
    <3>2. CASE ~sync[r].quiet
      BY <1>1, <1>2, <3>2
    <3>3. QED BY <3>1, <3>2
  <2>3. QED BY <1>1, <2>1, <2>2 DEF Uniform
<1>4. Stage(s)'
  <2>1. UNCHANGED wallet /\ DOMAIN wallet \ DOMAIN wallet = {}
    BY <1>1 DEF tables
  <2>2. Walked(s)'
    BY <1>1, <2>1 DEF Walked
  <2>3. ReadsAreCurrent(s)'
    BY <1>1 DEF ReadsAreCurrent, Empty, Discovering
  <2>4. Fetching(s)' /\ FlagsStayRight(s)' /\ Established(s)'
    BY <1>1 DEF Fetching, FlagsStayRight, Established, Discovering, Reclassifying, Finishing
  <2>5. QED BY <2>2, <2>3, <2>4 DEF Stage
<1>5. QED BY <1>1, <1>3, <1>4

LEMMA StepQuiet == QuietInv /\ [Next]_vars => QuietInv'
<1> SUFFICES ASSUME QuietInv, [Next]_vars PROVE QuietInv'
  OBVIOUS
<1>1. TypeOK /\ TypeOK' /\ Uniform /\ \A r \in Syncs : Quiet(r) => Stage(r)
  BY StepType DEF QuietInv
<1>2. ASSUME NEW s \in Syncs, Begin(s) PROVE QuietInv'
  <2>1. Uniform' /\ Stage(s)' /\ \A r \in Syncs \ {s} : sync'[r] = sync[r]
    BY <1>1, <1>2, BeginQuiet
  <2>2. UNCHANGED <<tables, chain>>
    BY <1>2 DEF Begin
  <2>3. ASSUME NEW r \in Syncs \ {s}, Quiet(r)' PROVE Stage(r)'
    <3>1. Quiet(r) /\ sync'[r] = sync[r]
      BY <2>1, <2>3 DEF Quiet, Running
    <3>2. QED BY <1>1, <2>2, <3>1, SteadyKeeps
  <2>4. QED BY <1>1, <2>1, <2>3 DEF QuietInv
<1>3. ASSUME NEW s \in Syncs, SyncStep(s) \/ Abort(s) PROVE QuietInv'
  <2>1. /\ Running(s) /\ \A r \in Syncs \ {s} : sync'[r] = sync[r]
        /\ sync'[s] = Idle \/ (Running(s)' /\ sync'[s].quiet = sync[s].quiet)
    BY <1>1, <1>3, OnlyOneMoves
  <2>2. Uniform'
    <3>1. \A r \in Syncs \ {s} : Running(r)' <=> Running(r)
      BY <2>1 DEF Running
    <3>2. CASE sync'[s] = Idle
      <4>1. ~Running(s)' /\ sync'[s].quiet = TRUE
        BY <3>2 DEF Running, Idle
      <4>2. QED BY <1>1, <2>1, <3>1, <4>1 DEF Uniform
    <3>3. CASE Running(s)' /\ sync'[s].quiet = sync[s].quiet
      <4>1. \A r \in Syncs : sync'[r].quiet = sync[r].quiet
        BY <2>1, <3>3
      <4>2. \A r \in Syncs : Running(r)' <=> Running(r)
        BY <2>1, <3>1, <3>3
      <4>3. QED BY <1>1, <4>1, <4>2 DEF Uniform
    <3>4. QED BY <2>1, <3>2, <3>3
  <2>3. ASSUME NEW r \in Syncs, Quiet(r)' PROVE Stage(r)'
    <3>1. Quiet(r) /\ Quiet(s)
      BY <1>1, <2>1, <2>3 DEF Quiet, Running, Idle, Uniform
    <3>2. Stage(r) /\ Stage(s)
      BY <1>1, <3>1
    <3>3. CASE r = s
      <4>1. sync'[s] # Idle
        BY <2>3, <3>3 DEF Quiet, Running, Idle
      <4>2. SyncStep(s)
        BY <1>1, <1>3, <4>1 DEF Abort, TypeOK
      <4>3. QED BY <1>1, <3>2, <3>3, <4>1, <4>2, OwnAdvances
    <3>4. CASE r # s
      <4>1. sync'[r] = sync[r]
        BY <2>1, <3>4
      <4>2. CASE SyncStep(s)
        BY <1>1, <3>1, <3>2, <4>1, <4>2, OthersKeep DEF Quiet
      <4>3. CASE Abort(s)
        BY <3>2, <4>1, <4>3, SteadyKeeps DEF Abort
      <4>4. QED BY <1>3, <4>2, <4>3
    <3>5. QED BY <3>3, <3>4
  <2>4. QED BY <1>1, <2>2, <2>3 DEF QuietInv
<1>4. CASE User \/ Blockchain
  <2>1. sync' = Disturb(sync)
    BY <1>4 DEF User, Blockchain, AddWallet, RemoveWallet, Broadcast, Mine
  <2>2. Uniform'
    <3>1. \A r \in Syncs : sync'[r].quiet \in BOOLEAN
      BY <1>1 DEF TypeOK, IsSync
    <3>2. QED BY <1>1, <2>1, <3>1, Disturbed DEF Uniform
  <2>3. QED BY <1>1, <2>1, <2>2, Disturbed DEF QuietInv, Quiet
<1>5. ASSUME NEW c \in Currencies, Restart(c) PROVE QuietInv'
  BY <1>1, <1>5 DEF Restart, QuietInv, Uniform, Quiet, Running, Idle
<1>6. CASE UNCHANGED vars
  <2>1. UNCHANGED <<tables, chain, sync>>
    BY <1>6 DEF vars
  <2>2. \A r \in Syncs : Stage(r) => Stage(r)'
    BY <2>1, SteadyKeeps
  <2>3. QED BY <1>1, <2>1, <2>2 DEF QuietInv, Uniform, Quiet, Running
<1>7. QED BY <1>2, <1>3, <1>4, <1>5, <1>6 DEF Next

(* However many syncs run, and whatever failed or was left half done       *)
(* before: a sync that neither the user nor the blockchain disturbed, nor  *)
(* any sync they did disturb, leaves the database settled when its last    *)
(* commit is made (QuietSyncSettles).                                      *)
THEOREM QuietSettles == Spec => QuietSyncSettles
<1>1. Init => QuietInv
  BY InitType DEF Init, QuietInv, Uniform, Quiet, Running, Idle
<1>2. QuietInv => \A s \in Syncs : SetUsed(s) /\ sync[s].quiet => Settled'
  <2> SUFFICES ASSUME QuietInv, NEW s \in Syncs, SetUsed(s), sync[s].quiet
               PROVE  Settled'
    OBVIOUS
  <2>1. Quiet(s)
    BY DEF Quiet, Running, SetUsed
  <2>2. QED BY <2>1, SetUsedSettles DEF QuietInv
<1>3. QED BY <1>1, <1>2, StepQuiet, PTL DEF Spec, QuietSyncSettles
=============================================================================
