----------------------------- MODULE Portfolio ------------------------------
(***************************************************************************)
(* The portfolio of the user: the transactions of the wallets, one built   *)
(* on the outputs of another, while wallets are imported and removed and   *)
(* new images bring newer price snapshots; each change is followed by an   *)
(* undisturbed sync (SyncStore has the disturbed ones).  What the          *)
(* dashboard says of the total (ledger/performance.py: the lots of the     *)
(* external transactions) and of each wallet (per_wallet_balances: inputs  *)
(* and outputs of every transaction) is compared with the coins.           *)
(*                                                                         *)
(* A coin is named by the output that created it, <<transaction, output>>; *)
(* transaction 0 stands for those of other people, <<0, 1>> is theirs.     *)
(* Every wallet has one address.                                           *)
(***************************************************************************)
EXTENDS TxRules

CONSTANTS
  Address,      \* addresses that wallets of the user may hold
  Foreign,      \* an address of somebody else, or an output without one
  MaxSats,      \* bound: sats of an output
  MaxTxs,       \* bound: transactions
  MaxTime,      \* bound: block times 1 .. MaxTime, each a day of its own
  None          \* no block time: first seen in the mempool

ASSUME PortfolioAssumption ==
  /\ MaxSats \in Nat \ {0} /\ MaxTxs \in Nat /\ MaxTime \in Nat
  /\ None \notin Nat /\ Foreign \notin Address

VARIABLES
  chain,        \* the transactions, in the order of the blockchain
  owned,        \* the addresses of the wallets now in the database
  lastPrice,    \* the last day in the price snapshot of the image
  flags,        \* transaction -> its inputs and outputs with owned = True
  class,        \* transaction -> its classification
  priced        \* the transactions with a btc_price_fiat

vars == <<chain, owned, lastPrice, flags, class, priced>>

Times == 1 .. MaxTime
Io == [address : Address \cup {Foreign}, sats : 1 .. MaxSats]

-----------------------------------------------------------------------------
(* The blockchain.                                                         *)

\* What the prevout of an input says; _build_tx copies it to the input.
Coin(c) == IF c[1] = 0 THEN [address |-> Foreign, sats |-> MaxSats]
           ELSE chain[c[1]].outs[c[2]]

Created == UNION {{i} \X DOMAIN chain[i].outs : i \in DOMAIN chain}
Spent == UNION {DOMAIN chain[i].ins : i \in DOMAIN chain}
Unspent == Created \ Spent

Payment(coins, outs, time) ==
  [ins |-> [c \in coins |-> Coin(c)], outs |-> outs, time |-> time]

\* Nobody creates coins but a coinbase transaction, which has no input that is
\* stored; a transaction that no address of the user takes part in is not stored.
\* The smaller output comes first: no code looks at their order.
Valid(tx) ==
  /\ \A k, m \in DOMAIN tx.outs : k < m => tx.outs[k].sats <= tx.outs[m].sats
  /\ Sats(tx, Outputs(tx)) <= (IF Inputs(tx) = {} THEN MaxSats ELSE Sats(tx, Inputs(tx)))
  /\ SlotsOf(tx, Address) # {}

-----------------------------------------------------------------------------
(* A sync, from the ingest to the prices.                                  *)

\* Fault: the flags of what is stored already are left as they were ingested.
RefreshNewOnly(ch, addresses) ==
  [i \in DOMAIN ch |-> IF i \in DOMAIN flags THEN flags[i] ELSE SlotsOf(ch[i], addresses)]

\* The flags of every input and output against the addresses now known.
Refresh(ch, addresses) == [i \in DOMAIN ch |-> SlotsOf(ch[i], addresses)]

\* Fault: the classes are computed before the flags are refreshed.
SyncStale(ch, addresses, last) ==
  /\ chain' = ch /\ owned' = addresses /\ lastPrice' = last
  /\ flags' = Refresh(ch, addresses)
  /\ class' = [i \in DOMAIN ch |->
       Classify(ch[i], IF i \in DOMAIN flags THEN flags[i] ELSE flags'[i])]
  /\ priced' = priced \cup {i \in DOMAIN ch : class'[i] \in External /\ ch[i].time \in 1 .. last}

\* Steps 3 to 5 of _do_sync: ingest, reclassify_all, fill missing prices.
Sync(ch, addresses, last) ==
  /\ chain' = ch /\ owned' = addresses /\ lastPrice' = last
  /\ flags' = Refresh(ch, addresses)
  /\ class' = [i \in DOMAIN ch |-> Classify(ch[i], flags'[i])]
  /\ priced' = priced \cup {i \in DOMAIN ch : class'[i] \in External /\ ch[i].time \in 1 .. last}

Init ==
  /\ chain = <<>> /\ owned = {}
  /\ lastPrice = 0
  /\ flags = <<>> /\ class = <<>> /\ priced = {}

Pay ==
  /\ Len(chain) < MaxTxs
  /\ \E coins \in SUBSET (Unspent \cup {<<0, 1>>}),
        outs \in [1 .. 1 -> Io] \cup [1 .. 2 -> Io], time \in Times \cup {None} :
       LET tx == Payment(coins, outs, time)
       IN  Valid(tx) /\ Sync(Append(chain, tx), owned, lastPrice)

ImportWallet(a) == Sync(chain, owned \cup {a}, lastPrice)
RemoveWallet(a) == Sync(chain, owned \ {a}, lastPrice)
NewImage == lastPrice < MaxTime /\ Sync(chain, owned, lastPrice + 1)

Next ==
  \/ Pay
  \/ \E a \in Address \ owned : ImportWallet(a)
  \/ \E a \in owned : RemoveWallet(a)
  \/ NewImage

Spec == Init /\ [][Next]_vars

-----------------------------------------------------------------------------
(* What the pages make of it.                                              *)

\* Fault: the sats of a sale still hold the fee, which is disposed of again.
EventOfGross(i) ==
  LET net == NetOwned(chain[i], flags[i])
      fee == Fee(chain[i])
  IN  IF class[i] = "external_in" THEN [kind |-> "in", sats |-> net, fee |-> 0]
      ELSE [kind |-> "out", sats |-> -net, fee |-> fee]

\* The ExternalIn or ExternalOut of an external transaction.
EventOf(i) ==
  LET net == NetOwned(chain[i], flags[i])
      fee == Fee(chain[i])
  IN  IF class[i] = "external_in" THEN [kind |-> "in", sats |-> net, fee |-> 0]
      ELSE [kind |-> "out", fee |-> fee, sats |-> IF -net < fee THEN 0 ELSE -net - fee]

\* _load_external_events: what has no price or no block time is skipped.
Loaded ==
  {i \in DOMAIN class :
     /\ class[i] \in External
     /\ i \in priced /\ chain[i].time # None
     /\ class[i] = "external_in" => NetOwned(chain[i], flags[i]) > 0}

\* What has been received and disposed of up to a block time.
UpTo(kind, t) == {i \in Loaded : EventOf(i).kind = kind /\ chain[i].time <= t}
Received(t) == SumFunction([i \in UpTo("in", t) |-> EventOf(i).sats])
Disposed(t) == SumFunction([i \in UpTo("out", t) |-> EventOf(i).sats + EventOf(i).fee])

\* The open lots of current_state, and when it raises (FifoLedger!Short).
TotalOpen ==
  SumFunction([i \in Loaded |-> IF EventOf(i).kind = "in" THEN EventOf(i).sats
                                ELSE -(EventOf(i).sats + EventOf(i).fee)])
Short == \E t \in Times : Disposed(t) > Received(t)

\* per_wallet_balances, and the table of the Wallets page.
Balance(a) ==
  LET mine(i) == {slot \in flags[i] : IoAt(chain[i], slot).address = a}
  IN  SumFunction([i \in DOMAIN chain |-> NetOwned(chain[i], mine(i))])

-----------------------------------------------------------------------------
(* Properties.                                                             *)

\* The transactions and what the database says of each have their types.
TypeOK ==
  /\ \A i \in DOMAIN chain :
       /\ \A c \in DOMAIN chain[i].ins : chain[i].ins[c] \in Io
       /\ chain[i].outs \in Seq(Io)
       /\ chain[i].time \in Times \cup {None}
  /\ owned \in SUBSET Address
  /\ lastPrice \in 0 .. MaxTime
  /\ DOMAIN flags = DOMAIN chain /\ DOMAIN class = DOMAIN chain
  /\ \A i \in DOMAIN chain : flags[i] \subseteq Slots(chain[i]) /\ class[i] \in Classes
  /\ priced \subseteq DOMAIN chain

\* The four categories as the docstring of classify.py gives them, for what the
\* wallets now in the database own; a coinbase transaction, with no input to own,
\* counts as funded from outside.
DocumentedClass ==
  \A i \in DOMAIN chain :
    LET own       == SlotsOf(chain[i], owned)
        weFundAll == Inputs(chain[i]) # {} /\ Inputs(chain[i]) \subseteq own
        weGetAll  == Outputs(chain[i]) \subseteq own
    IN  /\ class[i] = "internal"     <=> weFundAll /\ weGetAll
        /\ class[i] = "external_out" <=> weFundAll /\ ~weGetAll
        /\ class[i] = "external_in"  <=> ~weFundAll /\ NetOwned(chain[i], own) > 0

\* Importing another wallet never turns a payment out into income, nor a move
\* between wallets into anything else: the more is owned, the more is internal.
ImportKeepsOutflows ==
  [][owned \subseteq owned' =>
       \A i \in DOMAIN class :
         /\ class[i] = "internal" => class'[i] = "internal"
         /\ class[i] = "external_out" => class'[i] \in {"external_out", "internal"}]_vars

\* The balance of a wallet (per_wallet_balances) is what the blockchain has
\* unspent at its address, however late the wallet was imported.  It is so
\* because the code counts the inputs and outputs of every transaction, whatever
\* its class; its docstring says "ignoring `unknown`" (performance.py:205), which
\* the code does not do: a wallet whose coins went out in an unknown transaction
\* would keep a balance of coins that are spent.
BalancesAreCoins ==
  \A a \in owned :
    Balance(a) = SumFunction([c \in {d \in Unspent : Coin(d).address = a} |-> Coin(c).sats])

\* The total of the dashboard against the table of wallets (README.md: "Dashboard
\* total BTC equals the sum of wallet balances"): once every external transaction
\* is priced it is their sum, the fees of internal transactions and what went out
\* in unknown ones on top, which no event books.
TotalIsAccounted ==
  {i \in DOMAIN class : class[i] \in External} \subseteq Loaded =>
    TotalOpen = SumFunction([a \in owned |-> Balance(a)])
      + SumFunction([i \in {j \in DOMAIN class : class[j] = "internal"} |-> Fee(chain[i])])
      - SumFunction([i \in {j \in DOMAIN class : class[j] = "unknown"} |->
                       NetOwned(chain[i], flags[i])])

\* The figures of the dashboard (kpis) raise only over a sale that follows an
\* income nobody could price, or that the block times put before one: neither the
\* order of imports nor an unbooked fee ever leaves a sale without lots.
ShortOnlyOverGaps ==
  Short => \E i, j \in DOMAIN chain :
             /\ i < j
             /\ class[i] = "external_in" /\ j \in Loaded /\ class[j] = "external_out"
             /\ i \in Loaded => chain[i].time > chain[j].time
=============================================================================
