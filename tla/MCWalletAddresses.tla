------------------------- MODULE MCWalletAddresses --------------------------
(* WalletAddresses for TLC: values of every kind that share keys.          *)
EXTENDS WalletAddresses

CONSTANTS k1, k2, k3, slip

Xpub(type, key) == [kind |-> "xpub", type |-> type, key |-> key]

Single(spelling, type) ==
  [kind |-> "address",
   address |-> [script |-> SingleScript(type, k1, 0, 0), spelling |-> spelling]]

Multi(wrapper, sorted, keys, suffix) ==
  [kind |-> "multisig", wrapper |-> wrapper, sorted |-> sorted, threshold |-> 2,
   cosigners |-> [k \in DOMAIN keys |-> [key |-> keys[k], suffix |-> suffix]]]

\* What the wallets of the user export: an account and an address of it, one
\* quorum as three cosigners export it, and another in a wrapper of its own.
MCExported ==
  {Xpub("p2wpkh", k1), Single("canonical", "p2wpkh"), Single("upper", "p2wpkh"),
   Single("upper", "p2pkh"),
   Multi("wsh", TRUE, <<k1, k2>>, <<Step(0), Star>>),
   Multi("wsh", TRUE, <<k2, k1>>, <<Step(1), Star>>),
   Multi("wsh", TRUE, <<k1, k2>>, BothChains),
   Multi("sh", FALSE, <<k2, k1>>, <<>>)}

\* What is accepted all the same: a slip in a key, another branch, no index, one
\* chain only, more keys than a script may have; and a descriptor that is not.
MCOdd ==
  {Xpub("p2wpkh", slip), Multi("wsh", TRUE, <<k1, k2>>, <<Step(2), Star>>),
   Multi("sh(wsh)", TRUE, <<k1, k2>>, <<Multipath(<<0, 1>>)>>),
   Multi("sh", TRUE, <<k1, k2>>, <<Multipath(<<0>>), Star>>),
   Multi("wsh", TRUE, <<k1, k2, k3>>, BothChains),
   Multi("wsh", TRUE, <<k1>>, BothChains)}

MCGarbled == {slip}

MCImports == MCExported \cup MCOdd
=============================================================================
