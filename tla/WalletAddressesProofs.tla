----------------------- MODULE WalletAddressesProofs ------------------------
(***************************************************************************)
(* Proofs about WalletAddresses: its types, and that a value as Sparrow    *)
(* exports it never gets a sync stuck.  The second rests on a fact about   *)
(* derivation: the places of such a value have scripts of their own, since *)
(* every cosigner's key is at <chain, index> and sorting only reorders.    *)
(***************************************************************************)
EXTENDS WalletAddresses, TLAPS

\* A set of keys in order: a sorted list has every key of the list and no other.
LEMMA SortedOrders ==
  ASSUME NEW keys
  PROVE  \E p \in [DOMAIN keys -> DOMAIN keys] :
            Sorted(keys) = [k \in DOMAIN keys |-> keys[p[k]]]
<1> DEFINE D == DOMAIN keys
           Identity == [k \in D |-> k]
<1>1. Identity \in {q \in [D -> D] : \A i, j \in D : q[i] = q[j] => i = j}
  OBVIOUS
<1>2. [k \in D |-> keys[Identity[k]]] \in Orders(keys)
  BY <1>1 DEF Orders
<1>3. Sorted(keys) \in Orders(keys)
  BY <1>2 DEF Sorted
<1> QED
  BY <1>3 DEF Orders

\* A suffix of Sparrow's resolves to the chain and the index.
LEMMA SparrowPath ==
  ASSUME NEW suffix \in SparrowSuffixes, NEW chain \in Chains, NEW index
  PROVE  ResolvePath(Promote(suffix), chain, index) = <<chain, index>>
<1>1. CASE suffix = <<>>
  <2>1. Promote(suffix) = <<>>
    BY <1>1 DEF Promote, Step, Star
  <2> QED
    BY <2>1 DEF ResolvePath
<1>2. CASE suffix # <<>>
  <2>1. Promote(suffix) = BothChains
    BY <1>2 DEF Promote, SparrowSuffixes, BothChains
  <2>2. BothChains # <<>> /\ DOMAIN BothChains = 1 .. 2
    BY DEF BothChains
  <2>3. /\ BothChains[1].kind = "multipath" /\ BothChains[1].steps = <<0, 1>>
        /\ BothChains[2].kind = "star"
    BY DEF BothChains, Multipath, Star
  <2>4. BothChains[1].steps[chain + 1] = chain
    BY <2>3 DEF Chains
  <2>5. ResolvePath(BothChains, chain, index) = [k \in 1 .. 2 |-> IF k = 1 THEN chain ELSE index]
    BY <2>2, <2>3, <2>4 DEF ResolvePath
  <2> QED
    BY <2>1, <2>5
<1> QED
  BY <1>1, <1>2

\* A multipath step of a suffix of Sparrow's has a value for both chains.
LEMMA SparrowSteps ==
  ASSUME NEW suffix \in SparrowSuffixes, NEW j \in DOMAIN Promote(suffix),
         Promote(suffix)[j].kind = "multipath"
  PROVE  Len(Promote(suffix)[j].steps) >= 2
<1>1. CASE suffix = <<>>
  <2>1. Promote(suffix) = <<>>
    BY <1>1 DEF Promote, Step, Star
  <2> QED
    BY <2>1
<1>2. CASE suffix # <<>>
  <2>1. Promote(suffix) = BothChains
    BY <1>2 DEF Promote, SparrowSuffixes, BothChains
  <2>2. j = 1
    <3>1. j \in 1 .. 2 /\ BothChains[j].kind = "multipath"
      BY <2>1 DEF BothChains
    <3>2. BothChains[2].kind = "star"
      BY DEF BothChains, Star
    <3> QED
      BY <3>1, <3>2
  <2>3. BothChains[1].steps = <<0, 1>>
    BY DEF BothChains, Multipath
  <2>4. Promote(suffix)[j].steps = <<0, 1>>
    BY <2>1, <2>2, <2>3
  <2>5. Len(<<0, 1>>) >= 2
    OBVIOUS
  <2> QED
    BY <2>4, <2>5, Zenon
<1> QED
  BY <1>1, <1>2

\* A value as Sparrow exports it derives its addresses.
LEMMA SparrowDerivable ==
  ASSUME NEW value, Ordinary(value)
  PROVE  Derivable(value)
<1> SUFFICES ASSUME value.kind = "multisig"
             PROVE  Derivable(value)
  BY DEF Derivable, Ordinary
<1>1. Len(value.cosigners) <= MaxKeys
  BY WalletAddressesAssumption DEF Ordinary
<1>2. ASSUME NEW k \in DOMAIN value.cosigners, NEW j \in DOMAIN Promote(value.cosigners[k].suffix),
             Promote(value.cosigners[k].suffix)[j].kind = "multipath"
      PROVE  Len(Promote(value.cosigners[k].suffix)[j].steps) >= 2
  <2>1. value.cosigners[k].suffix \in SparrowSuffixes
    BY DEF Ordinary
  <2> QED
    BY <1>2, <2>1, SparrowSteps, Zenon
<1>3. \A k \in DOMAIN value.cosigners : value.cosigners[k].key \notin Garbled
  BY DEF Ordinary
<1> QED
  BY <1>1, <1>2, <1>3 DEF Derivable

\* The places of a value as Sparrow exports it have scripts of their own.
LEMMA PlacesAreDistinct ==
  ASSUME NEW value \in Imports, Ordinary(value), value.kind # "address",
         NEW p \in Places, NEW q \in Places,
         ScriptAt(value, p[1], p[2]) = ScriptAt(value, q[1], q[2])
  PROVE  p = q
<1>1. /\ p = <<p[1], p[2]>> /\ p[1] \in Chains
      /\ q = <<q[1], q[2]>> /\ q[1] \in Chains
  BY DEF Places
<1>2. CASE value.kind = "xpub"
  <2>1. SingleScript(value.type, value.key, p[1], p[2]).keys
          = SingleScript(value.type, value.key, q[1], q[2]).keys
    BY <1>2 DEF ScriptAt
  <2>2. << <<value.key, <<p[1], p[2]>>>> >> = << <<value.key, <<q[1], q[2]>>>> >>
    BY <2>1 DEF SingleScript
  <2> QED
    BY <1>1, <2>2
<1>3. CASE value.kind = "multisig"
  <2> DEFINE D == DOMAIN value.cosigners
             keys(x) == [k \in D |-> PublicKey(value.cosigners[k], x[1], x[2])]
  <2>1. 1 \in D
    BY <1>3, ImportsAssumption DEF Ordinary
  <2>2. ASSUME NEW x \in Places, NEW k \in D
        PROVE  keys(x)[k] = <<value.cosigners[k].key, <<x[1], x[2]>>>>
    <3>1. value.cosigners[k].suffix \in SparrowSuffixes /\ x[1] \in Chains
      BY <1>3 DEF Ordinary, Places
    <3> QED
      BY <3>1, SparrowPath DEF PublicKey
  <2>3. (IF value.sorted THEN Sorted(keys(p)) ELSE keys(p))
          = (IF value.sorted THEN Sorted(keys(q)) ELSE keys(q))
    <3>1. MultisigScript(value, p[1], p[2]) = MultisigScript(value, q[1], q[2])
      BY <1>3 DEF ScriptAt
    <3>2. MultisigScript(value, p[1], p[2]).keys = MultisigScript(value, q[1], q[2]).keys
      BY <3>1
    <3> QED
      BY <3>2 DEF MultisigScript
  <2>4. DOMAIN keys(p) = D /\ DOMAIN keys(q) = D
    OBVIOUS
  <2>5. \A x \in Places : \A k \in D : keys(x)[k] = <<value.cosigners[k].key, <<x[1], x[2]>>>>
    BY <2>2
  <2> HIDE DEF keys
  <2>6. CASE value.sorted
    <3>1. PICK f \in [D -> D] : Sorted(keys(p)) = [k \in D |-> keys(p)[f[k]]]
      BY <2>4, SortedOrders
    <3>2. PICK g \in [D -> D] : Sorted(keys(q)) = [k \in D |-> keys(q)[g[k]]]
      BY <2>4, SortedOrders
    <3>3. keys(p)[f[1]] = keys(q)[g[1]]
      <4>1. Sorted(keys(p)) = Sorted(keys(q))
        BY <2>3, <2>6
      <4>2. Sorted(keys(p))[1] = keys(p)[f[1]]
        BY <2>1, <3>1
      <4>3. Sorted(keys(q))[1] = keys(q)[g[1]]
        BY <2>1, <3>2
      <4> QED
        BY <4>1, <4>2, <4>3
    <3>4. f[1] \in D /\ g[1] \in D
      BY <2>1
    <3>5. /\ keys(p)[f[1]] = <<value.cosigners[f[1]].key, <<p[1], p[2]>>>>
          /\ keys(q)[g[1]] = <<value.cosigners[g[1]].key, <<q[1], q[2]>>>>
      BY <2>5, <3>4
    <3>6. <<value.cosigners[f[1]].key, <<p[1], p[2]>>>>
            = <<value.cosigners[g[1]].key, <<q[1], q[2]>>>>
      BY <3>3, <3>5, Zenon
    <3>7. <<p[1], p[2]>> = <<q[1], q[2]>>
      BY <3>6
    <3> QED
      BY <1>1, <3>7
  <2>7. CASE ~value.sorted
    <3>1. keys(p) = keys(q)
      BY <2>3, <2>7
    <3>2. /\ keys(p)[1] = <<value.cosigners[1].key, <<p[1], p[2]>>>>
          /\ keys(q)[1] = <<value.cosigners[1].key, <<q[1], q[2]>>>>
      BY <2>1, <2>5
    <3>3. <<p[1], p[2]>> = <<q[1], q[2]>>
      BY <3>1, <3>2
    <3> QED
      BY <1>1, <3>3
  <2> QED
    BY <2>6, <2>7
<1> QED
  BY <1>2, <1>3, ImportsAssumption

-----------------------------------------------------------------------------
(* Types.                                                                  *)

LEMMA NextIdIsFree ==
  ASSUME TypeOK
  PROVE  NextId \in 1 .. MaxWallets + 1
<1>1. MaxWallets + 1 \in 1 .. MaxWallets + 1
  BY WalletAddressesAssumption
<1>2. MaxWallets + 1 \notin DOMAIN wallets /\ \A w \in DOMAIN wallets : w < MaxWallets + 1
  BY WalletAddressesAssumption DEF TypeOK
<1> QED
  BY <1>1, <1>2 DEF NextId

LEMMA TypesStep ==
  ASSUME TypeOK, [Next]_vars
  PROVE  TypeOK'
<1>1. ASSUME NEW value \in Imports, NEW gap \in GapLimits, AddWallet(value, gap)
      PROVE  TypeOK'
  <2>1. NextId \in 1 .. MaxWallets
    BY <1>1, NextIdIsFree, WalletAddressesAssumption DEF AddWallet
  <2>2. DOMAIN wallets' = DOMAIN wallets \cup {NextId}
    BY <1>1 DEF AddWallet
  <2>3. ASSUME NEW w \in DOMAIN wallets'
        PROVE  wallets'[w].value \in Imports /\ wallets'[w].gap \in GapLimits
    <3>1. CASE w = NextId
      BY <1>1, <2>2, <3>1 DEF AddWallet
    <3>2. CASE w # NextId
      BY <1>1, <2>2, <3>2 DEF AddWallet, TypeOK
    <3> QED
      BY <3>1, <3>2
  <2>4. UNCHANGED <<rows, paid, owner>> /\ ended' = "stale"
    BY <1>1 DEF AddWallet
  <2> QED
    BY <2>1, <2>2, <2>3, <2>4 DEF TypeOK, Payable, ScriptAt
<1>2. ASSUME NEW w \in DOMAIN wallets, RemoveWallet(w)
      PROVE  TypeOK'
  BY <1>2 DEF TypeOK, RemoveWallet
<1>3. ASSUME NEW script \in Payable, Pay(script)
      PROVE  TypeOK'
  BY <1>3 DEF TypeOK, Pay
<1>4. ASSUME SyncStops
      PROVE  TypeOK'
  <2>1. \A row \in rows' : row.wallet \in DOMAIN wallets
    <3>1. ASSUME NEW v \in DOMAIN wallets, NEW row \in RowsOf(v)
          PROVE  row.wallet \in DOMAIN wallets
      BY <3>1 DEF RowsOf
    <3> QED
      BY <1>4, <3>1 DEF SyncStops, TypeOK
  <2> QED
    BY <1>4, <2>1 DEF SyncStops, TypeOK
<1>5. ASSUME SyncCompletes
      PROVE  TypeOK'
  <2>1. \A row \in rows' : row.wallet \in DOMAIN wallets
    <3>1. ASSUME NEW v \in DOMAIN wallets, NEW row \in RowsOf(v)
          PROVE  row.wallet \in DOMAIN wallets
      BY <3>1 DEF RowsOf
    <3> QED
      BY <1>5, <3>1 DEF SyncCompletes, TypeOK
  <2>2. /\ DOMAIN owner' \subseteq paid
        /\ \A script \in DOMAIN owner' : owner'[script] \in DOMAIN wallets \cup {None}
    <3> DEFINE stored == DOMAIN owner \cup (paid \cap {row.address.script : row \in rows'})
    <3>1. owner' \in [stored -> DOMAIN wallets \cup {None}]
      BY <1>5 DEF SyncCompletes
    <3>2. stored \subseteq paid
      BY DEF TypeOK
    <3> HIDE DEF stored
    <3> QED
      BY <3>1, <3>2
  <2>3. UNCHANGED <<wallets, paid>> /\ ended' = "completed"
    BY <1>5 DEF SyncCompletes
  <2> QED
    BY <2>1, <2>2, <2>3 DEF TypeOK
<1>6. CASE UNCHANGED vars
  BY <1>6 DEF TypeOK, vars
<1> QED
  BY <1>1, <1>2, <1>3, <1>4, <1>5, <1>6 DEF Next

\* The tables keep their types: no address row outlives its wallet, a stored
\* output was paid, for every set of values, wallets and scripts.
THEOREM TypeCorrect == Spec => []TypeOK
<1>1. Init => TypeOK
  BY DEF Init, TypeOK
<1> QED
  BY <1>1, TypesStep, PTL DEF Spec

-----------------------------------------------------------------------------
(* Syncs that get stuck.                                                   *)

\* A wallet as Sparrow exports it can be derived, and all that is new of it
\* can be inserted.
LEMMA OrdinaryDoesNotBlock ==
  ASSUME TypeOK, NEW w \in DOMAIN wallets, Ordinary(wallets[w].value)
  PROVE  w \notin Blocking
<1>1. Derivable(wallets[w].value)
  BY SparrowDerivable
<1>2. ~Refused(w)
  <2> SUFFICES ASSUME wallets[w].value.kind # "address",
                      NEW p \in NewPlaces(w), NEW q \in NewPlaces(w),
                      AddressAt(wallets[w], p) = AddressAt(wallets[w], q)
               PROVE  p = q
    BY DEF Refused
  <2>1. p \in Places /\ q \in Places
    BY DEF NewPlaces, Scanned
  <2>2. AddressAt(wallets[w], p).script = AddressAt(wallets[w], q).script
    OBVIOUS
  <2>3. ScriptAt(wallets[w].value, p[1], p[2]) = ScriptAt(wallets[w].value, q[1], q[2])
    BY <2>2 DEF AddressAt, Canonical
  <2>4. wallets[w].value \in Imports
    BY DEF TypeOK
  <2> QED
    BY <2>1, <2>3, <2>4, PlacesAreDistinct
<1> QED
  BY <1>1, <1>2 DEF Blocking

LEMMA SparrowStep ==
  ASSUME TypeOK, SparrowNeverBlocks, [Next]_vars
  PROVE  SparrowNeverBlocks'
<1>1. CASE SyncStops
  <2>1. PICK w \in Blocking : UNCHANGED wallets
    BY <1>1 DEF SyncStops
  <2>2. w \in DOMAIN wallets /\ ~Ordinary(wallets[w].value)
    BY OrdinaryDoesNotBlock DEF Blocking
  <2>3. w \in DOMAIN wallets' /\ ~Ordinary(wallets'[w].value)
    BY <2>1, <2>2
  <2> QED
    BY <2>3 DEF SparrowNeverBlocks, Ordinary
<1>2. CASE UNCHANGED vars
  BY <1>2 DEF SparrowNeverBlocks, vars, Ordinary
<1>3. CASE Next /\ ~SyncStops
  <2>1. ended' \in {"stale", "completed"}
    BY <1>3 DEF Next, AddWallet, RemoveWallet, Pay, SyncCompletes
  <2> QED
    BY <2>1 DEF SparrowNeverBlocks
<1> QED
  BY <1>1, <1>2, <1>3

\* What Sparrow exports never gets a sync stuck, for every set of keys and
\* values, every number of cosigners and every gap limit.
THEOREM SparrowSyncs == Spec => []SparrowNeverBlocks
<1>1. Init => SparrowNeverBlocks
  BY DEF Init, SparrowNeverBlocks
<1> QED
  BY <1>1, TypeCorrect, SparrowStep, PTL DEF Spec

-----------------------------------------------------------------------------
(* Money that is recognised.                                               *)

\* What is derived for a value as Sparrow exports it is what its user pays to.
LEMMA DerivesWalletScript ==
  ASSUME NEW value, Ordinary(value), value.kind \in {"xpub", "multisig"},
         NEW chain \in Chains, NEW index
  PROVE  ScriptAt(value, chain, index) = WalletScript(value, chain, index)
<1>1. CASE value.kind = "xpub"
  BY <1>1 DEF ScriptAt, WalletScript
<1>2. CASE value.kind = "multisig"
  <2> DEFINE derived == [k \in DOMAIN value.cosigners |-> PublicKey(value.cosigners[k], chain, index)]
             meant == [k \in DOMAIN value.cosigners |-> <<value.cosigners[k].key, <<chain, index>>>>]
  <2>1. \A k \in DOMAIN value.cosigners :
          PublicKey(value.cosigners[k], chain, index) = <<value.cosigners[k].key, <<chain, index>>>>
    BY <1>2, SparrowPath DEF Ordinary, PublicKey
  <2>2. derived = meant
    BY <2>1
  <2>3. MultisigScript(value, chain, index)
          = [type |-> ScriptType(value.wrapper), threshold |-> value.threshold,
             keys |-> IF value.sorted THEN Sorted(derived) ELSE derived]
    BY DEF MultisigScript
  <2>4. WalletScript(value, chain, index)
          = [type |-> ScriptType(value.wrapper), threshold |-> value.threshold,
             keys |-> IF value.sorted THEN Sorted(meant) ELSE meant]
    BY <1>2 DEF WalletScript
  <2> HIDE DEF derived, meant
  <2>5. ScriptAt(value, chain, index) = MultisigScript(value, chain, index)
    BY <1>2 DEF ScriptAt
  <2> QED
    BY <2>2, <2>3, <2>4, <2>5
<1> QED
  BY <1>1, <1>2

\* After a sync a paid script within the gap limit has an address row of the
\* wallet, spelled as the server spells it.
LEMMA ReceivedHasRow ==
  ASSUME TypeOK, SyncCompletes, NEW w \in DOMAIN wallets, Ordinary(wallets[w].value),
         wallets[w].value.kind = "address" => wallets[w].value.address.spelling = "canonical",
         NEW script \in Received(wallets[w])
  PROVE  \E row \in rows' : row.wallet = w /\ row.address = Canonical(script)
<1> DEFINE value == wallets[w].value
<1>1. value \in Imports /\ RowsOf(w) \subseteq rows' /\ rows \subseteq rows'
  BY DEF TypeOK, SyncCompletes
<1>2. CASE value.kind = "address"
  <2>1. script = value.address.script
    BY <1>2 DEF Received
  <2>2. value.address = Canonical(script)
    BY <1>1, <1>2, <2>1, ImportsAssumption DEF Canonical
  <2>3. [wallet |-> w, address |-> value.address] \in RowsOf(w)
    BY <1>2 DEF RowsOf, Addresses
  <2> QED
    BY <1>1, <2>2, <2>3
<1>3. CASE value.kind # "address"
  <2>1. value.kind \in {"xpub", "multisig"}
    BY <1>1, <1>3, ImportsAssumption
  <2>2. PICK c \in Chains, i \in Indexes :
          /\ script = WalletScript(value, c, i)
          /\ \A j \in 0 .. i : j + wallets[w].gap <= i =>
               \E k \in j .. j + wallets[w].gap - 1 : WalletScript(value, c, k) \in paid
    BY <1>3 DEF Received
  <2>3. \A k : ScriptAt(value, c, k) = WalletScript(value, c, k)
    BY <2>1, DerivesWalletScript
  <2>4. <<c, i>> \in Scanned(wallets[w])
    BY <2>2, <2>3 DEF Scanned, Walked, Places
  <2>5. AddressAt(wallets[w], <<c, i>>) = Canonical(script)
    BY <2>2, <2>3 DEF AddressAt
  <2>6. CASE Canonical(script) \in Existing(w)
    <3>1. \E row \in rows : row.wallet = w /\ row.address = Canonical(script)
      BY <2>6 DEF Existing
    <3> QED
      BY <1>1, <3>1
  <2>7. CASE Canonical(script) \notin Existing(w)
    <3>1. <<c, i>> \in NewPlaces(w)
      BY <2>4, <2>5, <2>7 DEF NewPlaces
    <3>2. Canonical(script) \in Addresses(w)
      BY <1>3, <2>5, <3>1 DEF Addresses
    <3>3. [wallet |-> w, address |-> Canonical(script)] \in RowsOf(w)
      BY <3>2 DEF RowsOf
    <3> QED
      BY <1>1, <3>3
  <2> QED
    BY <2>6, <2>7
<1> QED
  BY <1>2, <1>3

LEMMA RecognisesStep ==
  ASSUME TypeOK, RecognisesMoney, [Next]_vars
  PROVE  RecognisesMoney'
<1>1. CASE SyncCompletes
  <2> SUFFICES ASSUME NEW w \in DOMAIN wallets, Ordinary(wallets[w].value),
                      wallets[w].value.kind = "address" =>
                        wallets[w].value.address.spelling = "canonical",
                      NEW script \in Received(wallets[w])
               PROVE  script \in DOMAIN owner' /\ owner'[script] # None
    <3>1. wallets' = wallets /\ paid' = paid
      BY <1>1 DEF SyncCompletes
    <3> QED
      BY <3>1 DEF RecognisesMoney, Received
  <2> DEFINE stored == DOMAIN owner \cup (paid \cap {row.address.script : row \in rows'})
             Holders(s) == {row.wallet : row \in {r \in rows' : r.address = Canonical(s)}}
  <2>1. PICK row \in rows' : row.wallet = w /\ row.address = Canonical(script)
    BY <1>1, ReceivedHasRow
  <2>2. script \in stored
    <3>1. script \in paid
      BY DEF Received
    <3>2. row.address.script = script
      BY <2>1 DEF Canonical
    <3> QED
      BY <3>1, <3>2
  <2>3. w \in Holders(script)
    BY <2>1
  <2>4. /\ owner' \in [stored -> DOMAIN wallets \cup {None}]
        /\ \A s \in stored : IF Holders(s) = {} THEN owner'[s] = None ELSE owner'[s] \in Holders(s)
    BY <1>1 DEF SyncCompletes
  <2>5. \A r \in rows' : r.wallet \in DOMAIN wallets
    <3>1. TypeOK' /\ wallets' = wallets
      BY <1>1, TypesStep DEF SyncCompletes, Next
    <3> QED
      BY <3>1 DEF TypeOK
  <2>6. Holders(script) \subseteq Nat
    BY <2>5 DEF TypeOK
  <2> HIDE DEF stored, Holders
  <2>7. DOMAIN owner' = stored
    BY <2>4
  <2>8. owner'[script] \in Holders(script)
    BY <2>2, <2>3, <2>4
  <2> QED
    BY <2>2, <2>6, <2>7, <2>8, WalletAddressesAssumption
<1>2. CASE UNCHANGED vars
  BY <1>2 DEF RecognisesMoney, vars, Received
<1>3. CASE Next /\ ~SyncCompletes
  <2>1. ended' # "completed"
    BY <1>3 DEF Next, AddWallet, RemoveWallet, Pay, SyncStops
  <2> QED
    BY <2>1 DEF RecognisesMoney
<1> QED
  BY <1>1, <1>2, <1>3

\* After a sync that completed, what was paid to a wallet within its gap limit
\* is stored and owned, for every set of values, gap limits and payments and
\* whichever wallets came and went before.
THEOREM MoneyIsRecognised == Spec => []RecognisesMoney
<1>1. Init => RecognisesMoney
  BY DEF Init, RecognisesMoney
<1> QED
  BY <1>1, TypeCorrect, RecognisesStep, PTL DEF Spec
=============================================================================
