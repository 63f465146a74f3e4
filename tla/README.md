# BTCTrack in TLA+

Models, model checks and proofs about BTCTrack, a self-hosted tracker of
Bitcoin wallets: it derives the addresses of imported wallets, asks an Electrum
server for their transactions, classifies them relative to the owned addresses,
prices them and computes FIFO lots and realised gains. Source paths are relative
to the repository (`src/btctrack/sync.py` is `sync.py` below, and so on).

## 1. The system

One container runs one Streamlit process. Every browser tab is a session with
a thread of its own; all threads share one SQLite file. There are no background
jobs: whatever happens, happens because somebody opened a page or pressed a
button, but two tabs may do so at the same time, and the process may be stopped
at any moment.

| Component | State it keeps | Operations | Talks to |
|---|---|---|---|
| Address scan (`sync.py` `_gap_scan_parallel`, `chain/derive.py`, `chain/multisig.py`) | walk of one chain: window, count of empties, addresses found | serial and windowed gap-limit scan | Electrum client, concurrently |
| Sync (`sync.py` `_do_sync`, `reclassify_all`) | tables `address`, `transaction`, `tx_io`; per run: wallets read, histories, owned addresses, transactions to fetch | scan, persist, discover, ingest, reclassify, price, mark used | Electrum client, database, price snapshot |
| Wallets (`sync.py` `add_wallet`, `remove_wallet`, `rename_wallet`) | table `wallet` (and the cascade to `address`) | import, remove, rename | database |
| Classification (`ledger/classify.py`, `sync.py` `_build_tx`) | none | fee, class of a transaction | called by the sync |
| FIFO ledger (`ledger/fifo.py`) | open lots, realised rows (in memory) | buy, sell, replay | events from `performance.py` |
| Portfolio (`ledger/performance.py`) | none | KPIs, daily series, wallet balances | database, ledger, price snapshot |
| Electrum client (`chain/electrum.py`) | one connection | history, transaction; 30 s timeout on each call | the server |
| Database session (`db/session.py`, `db/models.py`) | cached engine and session factory | commit or roll back a session | SQLite |
| Backup (`backup.py`) | database file, `.bak`, `.import.tmp` | export a snapshot, import (validate, release the engine, two renames) | database session |
| Price snapshot (`prices/snapshot.py`) | CSV, loaded lazily, immutable | lookup by day and currency | - |
| Snapshot build (`scripts/build_price_snapshot.py`) | one run at image build | paginate, retry, forward-fill | HTTP APIs |
| Privacy mode (`ui/privacy.py`) | stored hash, per-session cache of it | set, unlock, lock, mask | database session |
| Settings (`config.py`) | environment, read once per process | - | - |

What is hard about it, and what makes each part correct:

* **Scan.** Requests of a window are concurrent and the chain moves under them.
  Correct: the addresses are those of the serial scanner, none that was used and
  reachable by the gap rule is missed, and the scan ends.
* **Sync.** A run is a dozen commits with network requests between them. Each
  commit is atomic, the run is not: it may fail or be killed between any two, may
  overlap another run or an import or removal of a wallet, and acts on what it
  read earlier. Correct: a run that nothing disturbed repairs everything that
  earlier ones left behind; classes agree with the ownership flags they stand
  beside; prices never change; the whole converges.
* **Classification.** A transaction's class changes as wallets come and go.
  Correct: the documented four categories, monotone in what is owned, and the
  ledger event moves exactly the coins that changed hands.
* **Ledger.** Events of one block have no order of their own. Correct: the
  figures do not depend on the query's order, only the oldest coins are sold, a
  complete history never underflows, chart and figures agree.
* **Portfolio.** Two readings of one history (lots, and inputs and outputs per
  wallet) agree but for what no event books, and both with the coins.
* **Descriptors.** However a wallet is exported, what is paid to it is recognised,
  and no wallet stops the sync of the others.
* **Backup.** Correct: all or nothing, under crashes, concurrent pages and
  concurrent imports; the previous database can be recovered.
* **RPC fan-out, privacy cache, snapshot build.** No deadlock at the semaphore;
  cache coherence; pagination that ends without losing days.

`PROJECT.json` lists the hazards at their lines.

## 2. Plan

| # | Module | Subject | State |
|---|---|---|---|
| 1 | `SerialScan`, `GapScan`, `GapScanProofs` | address scan, refinement, proofs | done |
| 2 | `TxRules`, `Portfolio`, `PortfolioProofs` | fee, class, event of a transaction; lots against balances against coins over a chain of them | done |
| 3 | `SyncStore`, `SyncStoreProofs` | sync, wallets, database, blockchain | done |
| 4 | `FifoLedger`, `FifoLedgerProofs` | lots, gains, figures, chart | done |
| 5 | `BackupSwap`, `BackupSwapProofs` | files, inodes, cached engine, pages, kills; the swap's all or nothing | done for one import at a time |
| 6 | `FetchOnce`, `RpcFanout`, `RpcFanoutProofs` | semaphore, shared tasks, timeouts; one request per transaction, refinement, no deadlock | done |
| 7 | `PrivacyLock`, `SnapshotAndPrivacyProofs` | sessions over one stored hash, import of another database | done |
| 8 | `PriceBuild`, `SnapshotAndPrivacyProofs` | pagination, retries, forward fill | done |
| 9 | `WalletAddresses`, `WalletAddressesProofs` | descriptors, places of the chains, spellings, from the imported value to what is owned | done |

Nothing of the plan is left.

Runs are kept small enough to finish in about a minute each.

## 3. Modules

### SerialScan, GapScan

`SerialScan` is the loop of `scan_chain_with_gap` and its twin for multisig:
`Probe` is one turn, its answer free because the chain moves between two of
them; `Raise` is a failing request; `Return` is the loop condition failing. It
is the abstract specification.

`GapScan` is `_gap_scan_parallel`. `pc` is the place of the coroutine:
`BeginWindow` derives the addresses `start .. End - 1` and starts their
requests, `Reply(i)` answers one of them with the server's state of that
moment, `Raise` is a request that fails or times out (`asyncio.gather` raises,
the window is dropped), `Gathered` is the return of `gather`, `Walk` one turn
of the `for` loop, `EarlyReturn` its `return discovered` after the last counted
empty, `NextWindow` is `start = end`, `LoopEnds` the failing `while` condition.
Under the refinement both returns are the serial `Return`, so a scan that stops
an address sooner is refused as well as one that walks on. `Pay(i)` is the rest of the world.
Addresses are indexes; a history is "used" or "empty"; it never becomes empty
again (no eviction or reorganisation).

### FetchOnce, RpcFanout

The third step of `_do_sync`: one coroutine `ingest_one` per new transaction,
which fetches it and then its parents. `task` is the dictionary `tx_tasks`
(who created the task of a transaction), `fetch` the state of each task,
`permits` the semaphore, `ingest` the place of each coroutine.

| Action | Code |
|---|---|
| `Acquire`, `Reply`, `Fail` | `fetch_tx_raw`: `async with sem`, then `ElectrumClient._call` answers, raises or times out |
| `Dereference` | the transaction is there: `get_tx` of each parent, a task for those without one (`NewTasks`) |
| `Build`, `IngestRaises` | all parents are there: `_build_tx`; or what it awaits has failed |
| `GatherReturns`, `GatherRaises` | the outer `gather` |
| `Close` | `__aexit__` has closed the connection and `asyncio.run` cancels what is left |

A coroutine runs alone until it awaits, so what it does between two awaits is
one action. After the first exception the others go on until the connection is
closed, as `gather` does not cancel them. `FetchOnce` is the promise of the
comment above `tx_tasks`: a transaction is asked for at most once and only if it
is new or a parent of a new one; the outcome is all of them or an error.

### WalletAddresses

From the value pasted on the wallets page to the outputs that count as owned.
`Promote`, `ResolvePath`, `MultisigScript`, `SingleScript` are the derivation of
`chain/multisig.py` and `chain/derive.py`: a public key is its extended key and
the path below it, a script its type, threshold and keys (hashes are injective),
an address a spelling of a script. `Accepted` is what `add_wallet` refuses at
once, `Derivable` what raises only when a sync derives it: a garbled extended
key, a multipath without a value for the change chain, more than 16 keys.
`Walked` is what the gap-limit walk of `GapScan` comes to; `Refused` the commit
of `_persist_addresses` that UNIQUE (wallet_id, address) turns down.
`SyncCompletes` and `SyncStops` are an undisturbed sync (`SyncStore` has the
others): it takes the wallets in the order of their ids and commits the rows of
each, so the first wallet it cannot get past stops it for all later ones.

`WalletScript` is the reference: what the user's own wallet derives, with every
key at `<chain, index>`, however the descriptor lists keys and suffixes.

Left out: the lexing of a descriptor, origins, checksums, version bytes, and
which script type the label of a wallet shows.

### TxRules, Portfolio

`TxRules` holds the pure part: `Fee` (`_build_tx`) and `Classify` with the
branches in the code's order. A coinbase input is dropped by `_do_sync`, so
`ins` may be empty.

`Portfolio` is a small blockchain, each transaction spending what it likes of
the unspent outputs before it, with wallets imported and removed and images with
newer snapshots; each of these is followed by an undisturbed sync, which is
`Sync`: flags against the addresses now known, classes from the flags, prices
where none is and the snapshot reaches. `Loaded` and `EventOf` are
`_load_external_events` (what has no price or block time is skipped), `TotalOpen`
the dashboard's total, `Balance` a row of `per_wallet_balances` and of the
table on the Wallets page. An unmined transaction keeps its missing block time,
as in the code.

### SyncStore

The four tables as functions from primary keys to rows, the sync runs, the
wallet page, the blockchain, and what breaks. One action per stretch of code
between two points where somebody else can intervene to some effect:

| Action | Code in `sync.py` |
|---|---|
| `AddWallet`, `RemoveWallet` | `add_wallet`, `remove_wallet` (one commit each; the ORM deletes the address rows the wallet has) |
| `Begin` | read the wallets |
| `Scan` | scan one wallet's chains, read its rows |
| `PersistAddresses` | insert the missing rows |
| `ReadOwned` | `owned = _all_owned_addresses()` |
| `Discover` | histories of left-over addresses, txids, which are stored |
| `Ingest` | fetch, `_build_tx`, one commit |
| `ReadCurrentOwned`, `ReadIos`, `Reclassify` | `reclassify_all`: two reads and a write |
| `FillPrices` | price step |
| `ReadUsed`, `SetUsed` | used flags, end |
| `Refused` | a commit that a key or a vanished row refuses |
| `Abort`, `Restart` | a request, lock or thread that fails; the process restarted, perhaps with another `BASE_CURRENCY` |
| `Broadcast`, `Mine` | the chain: absent, mempool, mined |

Why a session may be two steps: the driver (pysqlite) opens no transaction for a
SELECT, so what a session reads is not protected until its own write begins;
the writes of a session become visible at once, at its commit.

Left out or merged: labels, kinds and derivation indexes; `rename_wallet`; the
setting `last_sync_at` (only shown); amounts (they are in `TxRules`). A request
is merged with the neighbouring database read where the two commute (the
history of an address and the rows of a wallet; the raw transactions and the
commit that stores them). Reading what lacks a price and writing it is one
step: a price filled in between by another sync would be of the same day and, as
the currency is fixed for a process, the same currency; likewise the classes,
read and written in `Reclassify`. Ids are `max + 1`, as SQLite gives them to a
table without AUTOINCREMENT, so an id may be used again. `quiet` is a history
variable: this run, and any run it overlapped, saw no edit and no new block or
transaction. `edits` and `faults` only count towards their bounds.

### FifoLedger

The two readers of the external transactions: `replay` (dashboard figures) and
`daily_series` (chart). `Before` is the sort key of each, `Due(e)` says that e
may come next (ties in any order: the query has no ORDER BY), `ApplyIn` and
`ApplyOut` start on an event, `Slice` is one turn of the loop of
`apply_external_out`, `Underflow` its exception, `EndOfDay` a point of the
chart. Money is price times sats, exact where the code uses floats; the price
of an event is that of its day. Not modelled: the market price the chart
forward-fills, and that "today" is the local date while blocks are dated in UTC.

`Fifo(events)` defines the expected figures without lots: coins received and
coins disposed of are numbered by block, and number k of the one is sold as
number k of the other.

### BackupSwap

`import_bytes` and `export_bytes` of `backup.py` against `session_scope` and
`get_engine` of `db/session.py`. `name` is the directory (the live database,
`.bak`, `.import.tmp`), `disk` the content of each inode, `cached` and `pool`
the engine that `lru_cache` keeps and its idle connections, `page` the session
of each page, `job` the place of each import and what it knows.

| Action | Code |
|---|---|
| `CreateEngine`, `CacheEngine` | `get_engine`: connect and `create_all`; the result enters the cache |
| `Checkout`, `BeginWrite`, `Commit`, `Leave` | `session_scope` |
| `StartExport`, `OpenExport`, `CopyExport` | `_snapshot_db`: `get_engine()`, `sqlite3.connect`, the copy |
| `Begin` | `_decode_envelope` |
| `Truncate`, `WriteTmp`, `Validate` | `tmp_path.write_bytes`, `_validate_db_file` |
| `ReleaseEngine` | `_release_engine` |
| `MoveAside`, `MoveIn`, `MoveInFails`, `RollbackFails` | the two `os.replace`, the rollback, and its failure |
| `Cleanup`, `CleanupFails` | the `finally`; the temporary file cannot be removed |
| `Reinit`, `Count`, `ReinitRaises`, `CountRaises` | `get_engine()` and `_row_counts`, and that they raise with the upload live |
| `Fails`, `Kill` | an `OSError` before the swap; the process killed and started again |

A connection keeps its inode when the file is renamed: a page that opened the
old database goes on reading it under `.bak`, and SQLite refuses its first write
there (SQLITE_READONLY_DBMOVED; tried out with SQLite 3.40). A write that had
begun before the rename still commits, into the file that is now `.bak`.
`job[i].old` is the file that was live when the import began and
`job[i].previous` what it holds, with every row committed to it since.

An import ends as `done` (it returned), `refused` or `failed` (it raised before
the second rename), `late` (it raised after it), `stranded` (the second rename
failed and so did the rollback) or `killed`. What may raise late is the removal of
the temporary file, `get_engine()`, and `_row_counts`, of an upload that has the
tables `_validate_db_file` looks for but not the columns counted. In
`RollbackFails` two calls fail, one after the other; that is why the run has two.

An export is three steps, and an import may come between any of them. If
`OpenExport` falls between the two renames it opens an empty file
(`page[p].at = "emptied"`), and `hollow` remembers that the payload is this one;
`ExportIsWhole` says that nothing else makes an export less than whole, not even a
file renamed twice while it is copied.

A database is its set of rows: page `p` writes row `p`, the original holds
`old`, an upload `new`. Uploads are a good database, one with the right tables and
other columns, one that opens but fails the check, and one that is no database;
envelope, cipher and passphrase only decide which. The two caches of `session.py` are one. `exists()` and the rename
after it are one step, since with one importer nobody else removes the file.
Commits are atomic: a rename between a hot journal and the file it belongs to is
not modelled, nor a loss of power (renames reach the disk in order). `disturbed`
is a history variable: the engine was created anew during a swap (section 4), the
process was killed between the renames, which is `swap_atomic`, or the rollback
failed.

### PriceBuild

`scripts/build_price_snapshot.py`. `PageAnswered` is a turn of the loop of
`fetch_btc_usd` with its four ways to end, `RequestFails` an attempt of
`_http_get_json` that fails, `RatesAnswered` is `fetch_fx`, `Carried` is
`forward_fill_fx`, `Rows` is `build_rows`. A price is named by the candle and the
publication it is computed from, so that a superseded rate is seen. The servers
answer what the code provides for: up to `PageLimit` candles from the cursor on
or nothing, a range of publications that may start with the one before it, some
of them without a currency. `Midnight` may pass between the two looks at the
clock and at any other time. `hollow` is a history variable: an answer came
without data although there was some. Types are in the comments of the variables.
`Promised` is what the documentation says a snapshot holds, from all publications
up to a day; `Dropped` names the one exception the code makes to it (§4), and the
properties ask for exactly the rest.

### PrivacyLock

`ui/privacy.py` in several sessions. A hash is the password it is of, `Malformed`
one that bcrypt cannot read. `set_password` is three steps (`Submit`, `CheckRow`,
`Insert`), since hashing takes its time and the row is looked up before it is
inserted; the key of the table, or a file moved away by an import, refuses the
insert. `looked` and `entered` are history variables: the database a session has
looked at, and what was typed into it. An import is one step here, since nothing
else of it touches the hash. An empty value in the row, which no code writes, is
left out.

## 4. Runs

| Run | Shows | Bounds |
|---|---|---|
| `gap_scan` | scan matches the serial scanner (refinement), misses nothing, ends | gap limit 2, 5 addresses: windows of 2, 2 and a cut one, gaps across windows, early return inside one |
| `fanout` | one request per transaction (refinement), permits accounted for, no commit over a lost request, ends | 3 new transactions, each the parent of the next, with 2 old parents of which one is shared; 2 permits, fewer than the coroutines |
| `wallet_addresses` | what is paid to an imported wallet is owned; what Sparrow exports blocks no sync | 2 wallets at a time out of 14 values of every kind that share keys, gap limit 1, 2 addresses per chain, 2 paid scripts; 2 keys at most, so that 3 are too many |
| `portfolio` | documented classes, monotone under imports; balances are coins; total is balances plus what no event books; the ledger runs short only over gaps | 2 wallets, 2 transactions with at most 2 outputs of 1..3 sats, a foreign coin, 2 block times or none, snapshots up to each |
| `fifo_ledger` | figures and chart points are FIFO by definition, underflow exactly when coins are missing, oldest lots first | all histories of at most 2 buys and 2 sales (0..2 sats, fee 0..1) over 3 blocks, two of them on one day |
| `sync_alone` | one sync, all faults | 3 edits (import, remove, import again), 1 fault, 2 chained transactions, 2 currencies, an xpub and a single address that it also derives |
| `sync_pair` | two overlapping syncs, safety and convergence | 3 edits, 1 transaction; no injected fault, the syncs refuse each other's writes |
| `price_build` | the snapshot has what is promised but for the dropped first days, no hole and no superseded rate, is complete unless data was withheld, the script ends | 4 days and the one after midnight, pages of 2, 3 pages, 2 attempts; all sets of candles and publications of `MCPriceBuild` |
| `privacy` | passwords are immutable, caches true, values masked | 3 sessions (two that race and one that looks on), 2 passwords, 2 imports (there and back) |
| `backup` | an import that returned, or raised after the second rename, swapped in full; one that raised before it left the live file alone; the previous database is kept with all that was written to it; an undisturbed engine serves the live file, the counts are the upload's, exports are whole; imports end | 2 imports in a row (the second meets the first one's `.bak` and leftovers), 4 sorts of upload, 1 page, 2 failing calls (a rename and its rollback), 1 kill, 7 inodes: 3 names, 1 page, 1 pooled, 1 new, 1 spare |

Each of the following finds a behaviour of the code that a sentence of the
repository excludes; `PROJECT.json` quotes the sentences.

| Run | What happens |
|---|---|
| `custom_suffix` | a descriptor with a suffix such as `/2/*` derives the same addresses on both chains; the insert "idempotent on (wallet_id, address)" is refused, at every sync, for all wallets from that one on |
| `swap_atomic` | killed between the two renames, the next start creates an empty database; importing again moves that over `.bak` |

Seen in the code or in the models, without a run of their own:

* The chart sorts by block time alone (`performance.py:143`) and may apply a send
  before the buy of its block, which raises; `RaisesIffShort` allows exactly this
  (`SharedBlock`) beside a true underflow.
* A removed wallet's id stays in `tx_io` until the next sync (foreign keys are not
  enforced), and SQLite gives it to the next wallet.
* A wallet removed while a sync scans it gets its address rows back and stays
  owned for good.
* A transaction first seen in the mempool never gets a block time, hence never a
  price, and no event is made of it. A later sale may then find no lots:
  `ShortOnlyOverGaps` says that such gaps, and block times out of order, are the
  only reason for it.
* A page that creates the engine during the swap keeps the old file: the import
  counts its rows and the application goes on with it. `EngineServesLive` holds
  unless that happened.
* `README.md:133-134`: an import "is rejected (live DB untouched) if ... the schema
  doesn't match". `_validate_db_file` looks at the names of the tables only. An
  upload with other columns goes live, and then `_row_counts` may raise
  (`CountRaises`): the import raises and the live database is the upload, against
  `backup.py:91-92` read literally. The old one is under `.bak`;
  `EndedAllOrNothing` counts this as swapped in full, which it is.
* An export that has its engine but opens the file between the renames of an
  import is an empty database, and nothing is raised, although `backup.py:116`
  means to exclude it ("Ensure the live DB exists"). `ExportIsWhole` sets this case
  apart (`hollow`) and shows that it is the only one.
* If the second rename fails and the rollback at `backup.py:201` too, there is no
  live database until the next session makes an empty one; the old one is under
  `.bak` (`RollbackFails`, `OldDatabaseKept`).
* `README.md:146`: "Dashboard total BTC equals the sum of wallet balances". It
  differs by the fees of internal transactions and what went out in `unknown`
  ones, and by what is not priced; `TotalIsAccounted` says by nothing else.
* The docstring of `per_wallet_balances` (`performance.py:205`) says "ignoring
  `unknown`"; the code looks at no class and counts those transactions too. The
  model follows the code, and `BalancesAreCoins` shows it is the docstring that is
  wrong: were unknown ones ignored, a wallet would keep coins spent in one.
  `total_owned_sats` (`performance.py:108-111`) says it includes "everything
  classified except `unknown`" and that an internal transaction nets to zero; it
  is the total of the lots, of external transactions only, and an internal one
  costs its fee.
* `privacy.py:24`: "Safe to cache because the password is immutable once set". A
  session that found none goes on unmasked after another session has set one, and
  no session hears of an import; `MaskedUntilEntered` and `CachedHashIsStored` say
  what is left of it. A hash that bcrypt cannot read stays cached after the
  restore that its error message recommends, until the page is reloaded.
* A single address typed in upper case is accepted and fetched, but none of its
  outputs is ever owned, as the server spells it in lower case. A garbled extended
  key, a `<0>` multipath or 17 keys are accepted and raise at every sync.
* `forward_fill_fx` (`build_price_snapshot.py:167`: "carrying forward the last
  published weekday rate", dropping only "days strictly before the first
  publication") starts at the first candle with no rate, and never looks at an
  earlier publication, although the answer may start with one: candles on days 3
  and 4, a publication on day 2, and the snapshot is empty. `README.md:86-87`
  promises the rate of the most recent business day. `SnapshotIsRight` asks for
  what is promised but for these days (`Dropped`). The candles of
  Bitstamp begin on a Thursday (`README.md:82-83`), so no such day is lost today.
* An empty answer of Bitstamp, were it a hiccup, ends the snapshot early without
  an error; the candle of today is taken as closed.
* Prices filled in under another `BASE_CURRENCY` stay and are summed up with the
  new ones; two imports at once share `.import.tmp`.

`ClassMatchesFlags` is checked with one sync only. With two it does not hold:
`reclassify_all` writes what differs from what it read, so two of them can
interleave into flags of one and classes of the other until the next run.

Deadlock is not checked where the program may stop: a scan that ended, a ledger
that was read, a store whose bounds on edits and faults are used up, a directory
whose imports are done, an ingest or a script that has ended, a blockchain of
`MaxTxs`.

**Fairness.** `GapScan`: the event loop runs a ready coroutine and each request
is under `asyncio.wait_for` (30 s), so it is answered or raises. `SyncStore`:
the same for the steps of a running sync, every thread being scheduled, and the
user presses "Run sync now" again (`Begin`); nothing is assumed of edits,
payments or faults, whose number is bounded. `BackupSwap`: the thread of an
import runs on; pages may do nothing for ever. `RpcFanout`: as for the scan; the
requests are finitely many, so the order of the semaphore's queue does not
matter. `PriceBuild`: a request ends
within its 60 seconds, one way or the other; nothing is assumed of the answers.

Every property of a passing run has a mutant in `PROJECT.json`: the operators
marked "Fault:" stand for a plausible bug in the definition that follows them
and are used nowhere else.

## 5. Proofs

For all values of the constants, under the assumptions named in the modules.

* `GapScanProofs`: `TypeCorrect`, `FindsEveryUsedAddress`,
  `ImplementsSerialScanner`. The invariant adds to the types where the walk is
  (`Placed`: index, window and count at each place), that the count of empties
  is that of the walk's end (`Counted`), and that what was found empty was
  unused when the scan began (`Truthful`); an address missed would need a full
  gap before it. The refinement maps `Walk` to `Probe`, `Raise` to `Raise`,
  `EarlyReturn` and `LoopEnds` to `Return`, all else to a stutter.
* `RpcFanoutProofs`: `TypeCorrect`, `AccountsForPermits`, `LeavesNothingBehind`,
  `ImplementsFetchOnce`. The invariant adds that the dictionary names the creator
  of every task, and that only (`Shared`: there is one task per transaction, made
  for a new one or by a coroutine that has its transaction), and what is answered
  at each place of a coroutine (`Answered`).
* `WalletAddressesProofs`: `TypeCorrect`, `SparrowSyncs`, `MoneyIsRecognised`.
  The places of a value as
  Sparrow exports it have scripts of their own (`PlacesAreDistinct`): each
  cosigner's key is at `<chain, index>`, and sorting only reorders; so its new
  rows are never refused, and each of its suffixes has a value for both chains.
  Money is recognised because the script derived for a place is the wallet's own
  (`DerivesWalletScript`), a sync that completed has a row for every place up to
  the gap, and the server spells the address of a script as the row does.
* `PortfolioProofs`: `TypeCorrect`, `ImportsKeepOutflows`, `ClassesAreDocumented`,
  `BalancesShowCoins`, `AccountsForTheTotal`, `SalesHaveLots`. The invariant is
  `TypeOK`, that flags and classes are those of the wallets now owned (`Synced`),
  and that the chain spends only what it created before, once (`Backed`). The
  rest are sums: inputs and outputs of one transaction by the class it has, then
  over all of them by their number on the chain. `SalesHaveLots` takes, of the
  sales up to a block time, the last one on the chain: what it and those before
  it spent had come in by then.
* `SnapshotAndPrivacyProofs`, first part: `SnapshotsAreRight`,
  `SnapshotsAreComplete`, about `PriceBuild`. Neither property is inductive, as
  both speak of the end only. `BuildInv` adds the types (`Typed`); that the pages
  read so far are the candles up to a day, and all of them up to today when the
  loop has ended without a hollow answer and below `max_pages` (`Paged`); and that
  the rates kept are those published, from the first candle on without a gap
  (`Fetched`). A page that brings something new is the candles from the cursor up
  to its last one, so the cursor moves right behind it (`PageContinues`); one that
  brings nothing ends the loop, and then nothing was ahead or the answer was
  hollow. What `forward_fill_fx` carries is defined by a recursion over the days,
  which the provers cannot follow by induction: `Latest`, the last publication up
  to a day, solves its equation (`LatestSteps`), and of two solutions the first
  day on which they differ would have a day before it on which they differ
  (`CarriedIsLatest`). The rows then are the promised ones but for the dropped
  days: on every other day the last publication of all is the last one since the
  first candle (`RowsAreExpected`).
* `SnapshotAndPrivacyProofs`, second part: `TypeCorrect`, `CachesAreTrue`,
  `MasksUntilEntered`, `PasswordsAreImmutable`, about `PrivacyLock`. What a session
  has cached of the live database is what is stored or was stored when there was
  none, and an unlocked session was told the hash it has cached.
* `FifoLedgerProofs`: `TypeCorrect`, `SellsOldestFirst`, by one invariant: a lot
  opens untouched behind the others, a slice touches the first one and drops it
  when it is empty. `RaisesOnlyWhenShort`, `FiguresAreThoseOfFifo` and
  `ChartShowsFifo` need `Account`, which keeps the books in numbered coins: the
  lots hold the numbers sold so far up to those received (`Numbered`, its witness
  says where each lot begins), the realised gains sum to what those sold have
  brought (`Gained`), the sale at hand is the last event applied and sells the next
  numbers (`Selling`), no event waits that should have come before one applied
  (`InOrder`), and up to each block no more was sold than received (`Enough`).
  An event that comes last leaves the numbers given so far alone (`NumbersStay`)
  and takes the next ones (`NewNumbers`); a slice sells coins of one lot in one
  sale. For the chart `Charted` adds which events the days past have applied.
* `SyncStoreProofs`: `TypeCorrect` (ids are fresh because a finite set of
  numbers has no element above its maximum; the rows persisted are those of the
  wallet; stored transactions have their inputs and outputs), `PricesAreFinal`
  (any number of syncs), `ClassesMatchFlags` (one sync at a time). The last needs
  `ReadIsFresh`: what `reclassify_all` read is what the table holds when it
  writes, which is exactly what a second sync destroys. `QuietSettles` is for any
  number of syncs and needs `QuietInv`: no sync that runs is quiet beside one that
  is not (`Uniform`), and a quiet one has, at each place, established its part of
  `Settled` (`Stage`): the wallets taken have their rows (`Walked`), the
  histories kept are those of now (`ReadsAreCurrent`), what is not stored is what
  is to be fetched (`Fetching`), a flag that was right when it was read still is
  (`FlagsStayRight`), then the derived, stored, flagged, classified, priced and
  marked ones in turn (`Established`). There are two lemmas for each commit: it
  advances its own sync (`...Advances`), and leaves to every other quiet one what
  that has established (`...Keeps`), because what is established already is
  written again as it is: rows are refused, nothing is left to fetch, right flags
  replace right flags.
* `BackupSwapProofs`: `TypeCorrect`, for any number of importers and pages;
  with one importer (`OneImporter`) `KeepsTheOldDatabase` and
  `SwapsInFullOrNotAtAll`. The invariant adds to the types that the three names
  are of different inodes (`Apart`) and, per place of the import, which name holds
  what (`Kept`): before the first rename the live one is the file of the previous
  database, with every row committed to it (`Keeps`), after it `.bak` is; from the
  validation on the upload is whole under the temporary name, and live after the
  second rename (`Uploaded`). What pages do is `Steady`: no name is taken away and
  no file loses rows. With two importers `Kept` fails, as they share the names.
  `ServesTheLiveDatabase` and `ExportsAreWhole` add `EngineInv`: while nothing is
  disturbed, the engine is not cached and no page holds a connection of it between
  the renames (`Connected`, `Pooled`), every database descends from the original or
  an upload (`Lineage`), what was counted or exported was whole (`Counted`,
  `Whole`), and so is the file that an export has opened but not yet copied, which
  is never the one an import writes (`Copies`).

**Sums.** `SumFunction` of the community modules folds over a finite set in an
order it chooses. The library's induction theorems take an operator as a
parameter, which the provers cannot instantiate; `PortfolioProofs` and
`FifoLedgerProofs` induct over sets instead: of the subsets (or numbers) that
violate a claim, take a smallest one, which exists because inclusion of finite
sets, or `<` on the naturals, is well-founded (`WFMin`). From the existence of the
fold (`SumsUpExists`, `SumsUpAgree`) follow `SumEmpty`, `SumAdd`, `SumSame` and
`SumDisjoint`, which is all the rest needs. Each of the two modules has these
lemmas, as neither is about the other's component.

Every invariant was checked with TLC on the bounds of its run before it was
proved; `Account`, `QuietInv`, `EngineInv` and `BuildInv` in this way as a whole.

Every safety property of a passing run is proved. Only model-checked: liveness
(`ScanEnds`, `IngestEnds`, `EventuallySettled`, `BuildEnds`, `ImportEnds`), as the
provers handle neither ENABLED nor fairness.

## 6. Not modelled

The lexing of descriptors, the byte layout of keys and scripts, hashes and
checksums (pure conversions, mostly a library's); the JSON-RPC connection below a
request; page layout, charts, filters and formatting; `rename_wallet` and
`last_sync_at` (shown only); the market price the chart carries forward; the
tables `lot`, `realized_gain` and `price_cache`, which no code writes. Evicted transactions and
reorganisations: the code never removes a stored transaction. Two imports at
once: `BackupSwap` has the importers, but its promises need them one at a time.
