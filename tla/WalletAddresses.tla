-------------------------- MODULE WalletAddresses --------------------------
(***************************************************************************)
(* From the value a user imports to the outputs that count as owned: the   *)
(* scripts an extended key or an output descriptor derives on its receive  *)
(* and change chains (chain/derive.py, chain/multisig.py), the strings     *)
(* that _persist_addresses stores, and the strings the outputs of the      *)
(* server are looked up with (_extract_addr, reclassify_all).              *)
(*                                                                         *)
(* A public key is its extended key and the path below it; a script is its *)
(* type, threshold and public keys, for hashes are taken to be injective;  *)
(* an address is a spelling of a script.  A payment is one transaction to  *)
(* one script.  Syncs are undisturbed here (SyncStore has the others).     *)
(***************************************************************************)
EXTENDS Naturals, Sequences, FiniteSets

CONSTANTS
  Imports,        \* the values that may be pasted on the wallets page
  Garbled,        \* keys with a slip in them: the checksum does not fit
  GapLimits,      \* the gap limits that may be chosen with them
  MaxAddresses,   \* bound: max_addresses of the scan
  MaxKeys,        \* the most keys of OP_CHECKMULTISIG, 16
  MaxWallets,     \* bound: wallets at a time
  MaxPaid,        \* bound: scripts with a history
  None            \* owned by no wallet

ASSUME WalletAddressesAssumption ==
  /\ GapLimits \subseteq Nat \ {0}
  /\ MaxAddresses \in Nat /\ MaxKeys \in Nat /\ MaxWallets \in Nat /\ MaxPaid \in Nat
  /\ None \notin Nat

\* A value is an account key, an address or a descriptor with its cosigners.
ASSUME ImportsAssumption ==
  \A value \in Imports :
    /\ value.kind \in {"xpub", "address", "multisig"}
    /\ value.kind = "address" =>
         value.address = [script |-> value.address.script, spelling |-> value.address.spelling]
    /\ value.kind = "multisig" =>
         Len(value.cosigners) \in Nat /\ DOMAIN value.cosigners = 1 .. Len(value.cosigners)

VARIABLES
  wallets,        \* table wallet: id -> [value, gap]
  rows,           \* table address: the set of [wallet, address]
  paid,           \* server: the scripts with a history
  owner,          \* table tx_io: script of a stored output -> wallet_id, or None
  ended           \* how the last sync ended, "stale" once something changed

vars == <<wallets, rows, paid, owner, ended>>

Chains == {0, 1}                     \* receive and change
Indexes == 0 .. MaxAddresses - 1
Places == Chains \X Indexes

-----------------------------------------------------------------------------
(* Descriptors.                                                            *)

\* The parts of a derivation suffix: `*`, a fixed step, or a multipath <a;b>.
Star == [kind |-> "star", steps |-> <<>>]
Step(n) == [kind |-> "step", steps |-> <<n>>]
Multipath(steps) == [kind |-> "multipath", steps |-> steps]

BothChains == <<Multipath(<<0, 1>>), Star>>

\* Fault: only the receive descriptor is widened.
PromoteReceive(suffix) == IF suffix = <<Step(0), Star>> THEN BothChains ELSE suffix

\* _promote_single_path_to_multipath: /0/* and /1/* become /<0;1>/*.
Promote(suffix) ==
  IF suffix \in {<<Step(0), Star>>, <<Step(1), Star>>} THEN BothChains ELSE suffix

\* _resolve_path; without a suffix the key is the parent of the chains.
ResolvePath(suffix, chain, index) ==
  IF suffix = <<>> THEN <<chain, index>>
  ELSE [k \in DOMAIN suffix |->
         CASE suffix[k].kind = "star" -> index
           [] suffix[k].kind = "step" -> suffix[k].steps[1]
           [] suffix[k].kind = "multipath" -> suffix[k].steps[chain + 1]]

\* A garbled key raises, a multipath without a value for the chain, too many
\* keys: all of them only here, the import takes keys and suffixes as they are.
Derivable(value) ==
  /\ value.kind = "xpub" => value.key \notin Garbled
  /\ value.kind = "multisig" =>
       /\ Len(value.cosigners) <= MaxKeys
       /\ \A k \in DOMAIN value.cosigners : LET suffix == Promote(value.cosigners[k].suffix) IN
            /\ value.cosigners[k].key \notin Garbled
            /\ \A j \in DOMAIN suffix : suffix[j].kind = "multipath" => Len(suffix[j].steps) >= 2

PublicKey(cosigner, chain, index) ==
  <<cosigner.key, ResolvePath(Promote(cosigner.suffix), chain, index)>>

\* The orders of a sequence of keys.
Orders(keys) ==
  LET D == DOMAIN keys
  IN  {[k \in D |-> keys[p[k]]] :
         p \in {q \in [D -> D] : \A i, j \in D : q[i] = q[j] => i = j}}

\* Sorted by bytes: an order that depends on the keys alone, not on how they
\* were given.
Sorted(keys) == CHOOSE order \in Orders(keys) : TRUE

ScriptType(wrapper) ==
  CASE wrapper = "wsh" -> "p2wsh"
    [] wrapper = "sh(wsh)" -> "p2sh-p2wsh"
    [] wrapper = "sh" -> "p2sh"

\* Fault: sortedmulti keeps the keys in the order of the descriptor.
MultisigScriptUnsorted(ms, chain, index) ==
  [type |-> ScriptType(ms.wrapper), threshold |-> ms.threshold,
   keys |-> [k \in DOMAIN ms.cosigners |-> PublicKey(ms.cosigners[k], chain, index)]]

\* derive_multisig_address: the keys of the place, sorted if the descriptor
\* says so, under the threshold, in the wrapper.
MultisigScript(ms, chain, index) ==
  LET keys == [k \in DOMAIN ms.cosigners |-> PublicKey(ms.cosigners[k], chain, index)]
  IN  [type |-> ScriptType(ms.wrapper), threshold |-> ms.threshold,
       keys |-> IF ms.sorted THEN Sorted(keys) ELSE keys]

\* derive_address: the account key with <chain, index> below it.
SingleScript(type, key, chain, index) ==
  [type |-> type, threshold |-> 1, keys |-> << <<key, <<chain, index>>>> >>]

ScriptAt(value, chain, index) ==
  IF value.kind = "xpub" THEN SingleScript(value.type, value.key, chain, index)
                         ELSE MultisigScript(value, chain, index)

-----------------------------------------------------------------------------
(* Addresses.                                                              *)

\* The types whose address is bech32, in lower case unless typed otherwise.
Bech32 == {"p2wpkh", "p2wsh", "p2tr"}

Canonical(script) == [script |-> script, spelling |-> "canonical"]

\* script_type_from_address for addresses (an upper case bech32 decodes, any
\* other respelling fails its checksum), parse_descriptor for descriptors.
Accepted(value) ==
  /\ value.kind = "address" =>
       \/ value.address.spelling = "canonical"
       \/ value.address.spelling = "upper" /\ value.address.script.type \in Bech32
  /\ value.kind = "multisig" => value.threshold \in 1 .. Len(value.cosigners)

-----------------------------------------------------------------------------
(* The scan of a wallet: what the gap-limit walk of GapScan comes to.      *)

\* The indexes of one chain up to gap_limit places in a row without history.
Walked(wallet, chain) ==
  {i \in Indexes : \A j \in 0 .. i : j + wallet.gap <= i =>
     \E k \in j .. j + wallet.gap - 1 : ScriptAt(wallet.value, chain, k) \in paid}

Scanned(wallet) == {place \in Places : place[2] \in Walked(wallet, place[1])}

Existing(w) == {row.address : row \in {r \in rows : r.wallet = w}}

AddressAt(wallet, place) == Canonical(ScriptAt(wallet.value, place[1], place[2]))

\* The places that _persist_addresses adds a row for; `existing` is what the
\* table held before the first of them.
NewPlaces(w) == {place \in Scanned(wallets[w]) : AddressAt(wallets[w], place) \notin Existing(w)}

\* UNIQUE (wallet_id, address) refuses the commit of one address twice.
Refused(w) ==
  /\ wallets[w].value.kind # "address"
  /\ \E p, q \in NewPlaces(w) : p # q /\ AddressAt(wallets[w], p) = AddressAt(wallets[w], q)

\* A single address is stored as it was typed.
Addresses(w) ==
  IF wallets[w].value.kind = "address" THEN {wallets[w].value.address}
  ELSE {AddressAt(wallets[w], place) : place \in NewPlaces(w)}

RowsOf(w) == {[wallet |-> w, address |-> address] : address \in Addresses(w)}

-----------------------------------------------------------------------------
(* Actions.                                                                *)

Init ==
  /\ wallets = [w \in {} |-> None]
  /\ rows = {}
  /\ paid = {}
  /\ owner = [script \in {} |-> None]
  /\ ended = "stale"

\* SQLite: one more than the largest id of the table.
NextId == CHOOSE n \in 1 .. MaxWallets + 1 :
  n \notin DOMAIN wallets /\ \A w \in DOMAIN wallets : w < n

\* The table refuses a value it holds; the same account can still be pasted
\* under another prefix, for another script type.
AddWallet(value, gap) ==
  /\ NextId <= MaxWallets
  /\ Accepted(value)
  /\ \A w \in DOMAIN wallets : wallets[w].value # value
  /\ wallets' = [w \in DOMAIN wallets \cup {NextId} |->
                   IF w = NextId THEN [value |-> value, gap |-> gap] ELSE wallets[w]]
  /\ ended' = "stale"
  /\ UNCHANGED <<rows, paid, owner>>

\* Fault: the address rows are left behind.
RemoveWalletOnly(w) ==
  /\ wallets' = [v \in DOMAIN wallets \ {w} |-> wallets[v]]
  /\ ended' = "stale"
  /\ UNCHANGED <<rows, paid, owner>>

\* The ORM deletes the address rows with the wallet; tx_io keeps its id.
RemoveWallet(w) ==
  /\ wallets' = [v \in DOMAIN wallets \ {w} |-> wallets[v]]
  /\ rows' = {row \in rows : row.wallet # w}
  /\ ended' = "stale"
  /\ UNCHANGED <<paid, owner>>

\* A transaction pays to a script that some importable value stands for.
Payable ==
  UNION {{ScriptAt(value, place[1], place[2]) : place \in Places} :
           value \in {v \in Imports : v.kind # "address" /\ Derivable(v)}}
  \cup {value.address.script : value \in {v \in Imports : v.kind = "address"}}

Pay(script) ==
  /\ Cardinality(paid) < MaxPaid
  /\ script \notin paid
  /\ paid' = paid \cup {script}
  /\ ended' = "stale"
  /\ UNCHANGED <<wallets, rows, owner>>

\* The wallets a sync cannot get past; it takes them in the order of their ids
\* and commits the rows of each before it scans the next.
Blocking == {w \in DOMAIN wallets : ~Derivable(wallets[w].value) \/ Refused(w)}

SyncStops ==
  \E w \in Blocking :
    /\ \A v \in Blocking : w <= v
    /\ rows' = rows \cup UNION {RowsOf(v) : v \in {u \in DOMAIN wallets : u < w}}
    /\ ended' = IF Derivable(wallets[w].value) THEN "refused" ELSE "raised"
    /\ UNCHANGED <<wallets, paid, owner>>

\* All wallets are scanned; the histories of every stored address are ingested
\* and every stored output is looked up by its canonical address.  Of several
\* rows with that address the one read last counts: any of them.
SyncCompletes ==
  /\ Blocking = {}
  /\ rows' = rows \cup UNION {RowsOf(w) : w \in DOMAIN wallets}
  /\ LET stored == DOMAIN owner \cup (paid \cap {row.address.script : row \in rows'})
         Holders(script) == {row.wallet : row \in {r \in rows' : r.address = Canonical(script)}}
     IN  owner' \in {f \in [stored -> DOMAIN wallets \cup {None}] : \A script \in stored :
                       IF Holders(script) = {} THEN f[script] = None
                                               ELSE f[script] \in Holders(script)}
  /\ ended' = "completed"
  /\ UNCHANGED <<wallets, paid>>

Next ==
  \/ \E value \in Imports, gap \in GapLimits : AddWallet(value, gap)
  \/ \E w \in DOMAIN wallets : RemoveWallet(w)
  \/ \E script \in Payable : Pay(script)
  \/ SyncStops
  \/ SyncCompletes

Spec == Init /\ [][Next]_vars

-----------------------------------------------------------------------------
(* Properties.                                                             *)

\* The types of the variables; an address row belongs to a wallet there is, a
\* stored output was paid.
TypeOK ==
  /\ DOMAIN wallets \subseteq 1 .. MaxWallets
  /\ \A w \in DOMAIN wallets : wallets[w].value \in Imports /\ wallets[w].gap \in GapLimits
  /\ \A row \in rows : row.wallet \in DOMAIN wallets
  /\ paid \subseteq Payable
  /\ DOMAIN owner \subseteq paid
  /\ \A script \in DOMAIN owner : owner[script] \in 1 .. MaxWallets \cup {None}
  /\ ended \in {"stale", "completed", "raised", "refused"}

\* The suffixes with which Sparrow exports a key, of either chain or of both.
SparrowSuffixes ==
  {<<>>, <<Step(0), Star>>, <<Step(1), Star>>, <<Multipath(<<0, 1>>), Star>>}

\* The values that stand for a receive and a change chain of their own.
Ordinary(value) ==
  /\ value.kind = "xpub" => value.key \notin Garbled
  /\ value.kind = "multisig" =>
       /\ Len(value.cosigners) \in 1 .. MaxKeys
       /\ \A k \in DOMAIN value.cosigners :
            value.cosigners[k].key \notin Garbled /\ value.cosigners[k].suffix \in SparrowSuffixes

\* What the wallet of the user pays to at a place, however its keys are listed.
WalletScript(value, chain, index) ==
  IF value.kind = "xpub" THEN SingleScript(value.type, value.key, chain, index)
  ELSE LET keys == [k \in DOMAIN value.cosigners |-> <<value.cosigners[k].key, <<chain, index>>>>]
       IN  [type |-> ScriptType(value.wrapper), threshold |-> value.threshold,
            keys |-> IF value.sorted THEN Sorted(keys) ELSE keys]

\* The paid scripts of a wallet that its gap limit reaches.
Received(wallet) ==
  IF wallet.value.kind = "address"
  THEN paid \cap {wallet.value.address.script}
  ELSE {script \in paid : \E c \in Chains, i \in Indexes :
          /\ script = WalletScript(wallet.value, c, i)
          /\ \A j \in 0 .. i : j + wallet.gap <= i =>
               \E k \in j .. j + wallet.gap - 1 : WalletScript(wallet.value, c, k) \in paid}

\* After a sync that completed, all that was paid to a wallet in the database
\* within its gap limit, on either chain and however the descriptor lists its
\* keys and its suffix, is stored and owned, whichever wallets were imported
\* and removed before.  Not so an address typed in upper case: it is accepted
\* and its transactions are fetched, but the server spells it in lower case.
RecognisesMoney ==
  ended = "completed" =>
    \A w \in DOMAIN wallets : LET value == wallets[w].value IN
      (Ordinary(value) /\ (value.kind = "address" => value.address.spelling = "canonical")) =>
        \A script \in Received(wallets[w]) : script \in DOMAIN owner /\ owner[script] # None

\* What Sparrow exports never gets a sync stuck: where one stops there is a
\* garbled key, a suffix of another shape, or a descriptor with too many keys.
SparrowNeverBlocks ==
  ended \in {"raised", "refused"} => \E w \in DOMAIN wallets : ~Ordinary(wallets[w].value)

\* What _persist_addresses says of itself (sync.py:147), "idempotent on
\* (wallet_id, address)": the insert of an address twice is not refused.
PersistIsIdempotent == ended # "refused"
=============================================================================
