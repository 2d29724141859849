# A TLA+ verification of epic-wallet

This directory models the parts of epic-wallet that keep and change its state,
checks them with TLC on small instances and proves some of their properties with
TLAPS for every value of the parameters. Paths are relative to the repository.

## 1. The system

epic-wallet is a Mimblewimble wallet (a fork of grin-wallet). A wallet holds a
*seed*, from which every key is derived, and a *database* with its outputs, a
transaction log, private contexts of unfinished slates and a few counters. It
talks to a *node* (the chain: UTXO set, kernels, mempool) and exchanges *slates*
(partially built transactions) with other wallets over HTTP, Tor, Keybase, files
or an epicbox server.

| Component | State | Operations | Interaction |
|---|---|---|---|
| Ledger: `libwallet/src/internal/{tx,selection,updater,keys}.rs`, `api_impl/{owner,foreign}.rs` | output table, tx log, contexts, next log id, next child index, last confirmed height | init_send_tx, tx_lock_outputs, finalize_tx, receive_tx, issue/process/finalize invoice, build_coinbase, cancel_tx, post_tx | each call holds the wallet mutex (`wallet_lock!`) throughout |
| Update and scan: `api_impl/owner.rs` (update_wallet_state), `internal/scan.rs` | lists read in one critical section and used in later ones | refresh outputs, confirm by kernel, scan the UTXO set, restore, repair, expire | takes and releases the mutex for every step; runs in the updater thread, in cancel_tx and in queries, beside the calls above |
| Mempool watcher: `wait_for_tx_in_mempool` | a copy of log entries | poll, save | as above, in the epicbox listener |
| Seed and lifecycle: `impls/src/lifecycle/{seed,default}.rs` | wallet.seed, its backups, init status, the open backend | create, open, close, recover, change password, delete | file system calls that may fail; the process may stop between two |
| Database: `impls/src/backends/{lmdb,db}.rs` | one SQLite table | get, put, delete, "batches", next_child, next_tx_log_id | statements of a batch are executed one at a time; several processes may open the file |
| Accounts: `libwallet/src/internal/keys.rs`, `scan.rs`, export and import in `controller/src/command.rs` | label to path mapping, active account, per account key and log id counters | create, select, receive into, restore, export, import | the scan names the accounts it finds while the user works |
| Coin selection and slates: `internal/selection.rs`, `slate.rs`, `slate_versions/` | the slate in hand | select_coins, fee loop, change split, signing rounds, versions | called with the mutex held; the slate travels |
| Commands and transports: `src/cmd`, `controller/src/command.rs`, `impls/src/adapters` | the stage a command has reached, the slates on their way | send, receive, finalize, invoice, pay, post, repost, cancel | each command is a process of its own and may be killed |
| Updater thread: `api_impl/owner_updater.rs` | a running flag, the status queue | start, stop, report | flag shared by API objects and thread |
| Epicbox: `impls/src/adapters/epicbox.rs` | connection, subscription | publish, subscribe, receive, acknowledge, reconnect | websocket; messages may be repeated |
| Owner API listener: `controller/src/controller.rs`, `api/src/owner.rs` | shared session key, keychain mask, configuration | init_secure_api, open_wallet, encrypted requests, sends | concurrent HTTP requests |
| Tor, node client, configuration, display | none, or outside the process | | |

What is hard here: the wallet mutex protects a single section, not an operation.
An update reads rows and entries in one section and writes them back in a later
one; anything that happened between is at risk. Updates may run twice at once.
The node may fail, undo blocks, or be behind. Transactions expire while they are
being confirmed. The seed file is renamed, recreated and verified in separate
file system calls, a batch of database writes in separate statements. Listener and
commands are processes that may stop between any two effects, and the epicbox server
delivers again what was not acknowledged. `PROJECT.json` lists each of these hazards at
its line.

What makes it correct: an output is spent by one transaction at a time; a log
entry is confirmed only if its transaction was mined, and then stays so; a
cancelled or expired transaction holds nothing; what is on chain and belongs to
the wallet eventually shows in it, once; no key is used twice; no seed is ever
lost. Between wallets: a slate makes one output however often it is delivered, a
transaction is posted only when both sides hold it, honest wallets complete, a proof that
was asked for verifies, and every call, send and stop comes to an end.

## 2. Modules

| Module | Content |
|---|---|
| `WalletLedger` | ledger, update and scan, mempool watcher, with the counterparty and the node as environment |
| `MCWalletLedger` | its instances for TLC |
| `WalletLedgerProofs` | types; no key is handed out twice; what is confirmed was mined, stays confirmed, and its outputs with it; a reward is credited once; an output is in the table once |
| `SeedFile`, `MCSeedFile` | seed file and lifecycle, its instance |
| `SeedFileProofs` | no seed is lost, the old password works until the new one is verified |
| `Accounts`, `MCAccounts` | accounts, their labels, keys and log ids, their restoration by a scan |
| `AccountsProofs` | outputs name their own entries, accounts keep their labels and restored ones get one |
| `WalletStore`, `MCWalletStore` | the SQLite table and the programs of statements that use it |
| `KeyValue` | the abstract store WalletStore implements: a map written atomically |
| `WalletStoreProofs` | the refinement, and that indexes, entries and output versions survive |
| `SlateExchange`, `MCSlateExchange` | two wallets, their listeners and one transport at a time, the epicbox server as environment |
| `SlateExchangeProofs` | only backed transactions are posted, one output per slate, which answers are lost |
| `Slate` | coin selection, signing rounds and slate versions as operators |
| `Commands`, `MCCommands` | one payment through the commands of two wallets, built on `Slate` |
| `CommandsProofs` | the fee loop, its refusals, expired slates, completion between honest wallets, proofs that verify |
| `OwnerSession`, `MCOwnerSession` | the owner listener, its clients and the foreign API beside it |
| `OwnerSessionProofs` | readable answers, agreement of keys and masks, sent slates are locked |
| `Updater`, `MCUpdater` | the updater thread, its flag and its status messages |
| `UpdaterProofs` | the flag is honest, a stop is not undone, the status history is complete |

### WalletLedger

State. `out` is the output table. Its database key is (key id, mmr_index), and the
scan changes an output's mmr_index, so a row is a pair <<key, position>> with
position 0 for None; much of what can go wrong is about an output that has two
rows or whose row was renamed. `txlog` is the transaction log, `ctx` the private
contexts, `nextLog`, `nextChild` and `lch` the counters. `upd[p]` is what thread p
carries through update_wallet_state: its place (`pc`), what it was started for
(`job`: update, cancel or scan), the log entries it read (`txs`), the entries still
to visit (`todo`), the outputs the node returned (`chain`) and the rows the scan read
(`rows`) with its work lists. `watch` is the same for wait_for_tx_in_mempool.
`offers`, `final` and `ttl` describe the slates in flight, `tip`, `utxo`, `mmr`,
`pool` and `mined` the node.

Actions. Every action is one critical section of the mutex with all it writes.
The API calls are one action each. `refresh_outputs` is part of the three calls that
make it (init_send_tx, process_invoice_tx, and step 1 of an update). An update is
`StartUpdate` (step 1), `RetrieveOutstanding` and `UpdateTxViaKernel` per entry
(step 2), `CollectChainOutputs`, `ScanReadOutputs`, then one action per row that is
indexed, marked unspent, restored, unlocked or deleted, `ScanReadChildIndex` and
`ScanSaveChildIndex` (step 3), and `ExpireTx` per expired entry (step 5). `cancel_tx`
is an update followed by `CancelTx`; the user's scan is step 1 and the scan with its
repair lists. `LockPanics` is the unwrap of a missing row in lock_tx_context, with what it
wrote before.

Abstractions.
- An output is the child index of its key, a kernel the transaction it belongs
  to. Amounts, fees and confirmation counts are left out: coin selection may
  return any non-empty set of at most `MaxInputs` eligible rows, with or without change.
- One account (`Accounts` has several). Entries are cancelled by id. The initial coins have no log entry
  (theirs is older than the model). Only coinbase rows keep a height, the others' is not used.
- What the node answers within one section is consistent. A scan's window (100
  blocks back) covers all outputs.
- The order of rows in the SQLite table decides which of two rows of a key wins in
  map_wallet_outputs and in the scan: the choice `pref` is arbitrary.
- A batch is one step (`WalletStore` has its statements), as are cancel_tx_log_entry and
  the save after it.
- Messages, addresses, payment proofs, timestamps and the output history table
  are left out: no decision depends on them.

### SeedFile

`file` and `bak` are wallet.seed and its numbered backups: absent, torn (created,
not completely written) or sealed (a seed under a password). Each lifecycle call is
split at its file system calls (`op.pc`): backup_seed's rename, File::create,
write_all, the test decryption, remove_file, the database. `IoError` lets any of
them fail, with what the code does then (create_wallet and change_password drop the
error of init_file), `Crash` stops the process anywhere. Calls exclude each other by
the mutex of the wallet instance. Encryption is the password that opens a file.
Not modelled: writes that complete but are lost by a power failure (the code does
not sync).

### Accounts

`acct` maps labels to account paths, `active` is the account of the backend, `child`
and `logId` are the counters of each account, `log` and `outs` its entries and outputs,
`file` what export_tx wrote, `scan[t]` what a scanning thread carries. The wallet was
recreated from its phrase: `Old` are the keys it had used. `CreateAccountPath`,
`SetActiveAccount`, `ReceiveTx`, `Refresh`, `CancelTx`, `ExportTx` and `ImportTx` are the
calls; a scan is `CollectChainOutputs`, `ReadOutputs`, `RestoreMissing` per output,
`ReadAccounts`, `NameAccount` per new account, `ReadChildIndex` and `SaveChildIndex`.
`ScanFails` is the `?` after any of its calls and `Stop` a stop of the process: what was restored
stays and found_parents is lost. The history variable `cut` keeps the accounts the scan had outputs
restored into and had yet to name (`ToName`), since no later scan will. The
entry and the output of a received slate go to the account the call names, the key
comes from the active one, as in the code. A coin keeps one row here; what a scan does to
the row of a known output is `WalletLedger`'s subject.

### WalletStore and KeyValue

`proc[p]` is a process on the database: the program of statements its current call still
has to execute, and where the statement stands. A `put` tests for the key (`Prepare`
chooses INSERT or UPDATE) and executes in a second step; the database may be busy, which
is tried again up to a limit and then given up; an INSERT may find that another process
inserted first (the UNIQUE key). `NextChild`, `NewLogEntry`, `Save`, `DeleteOutput`,
`SaveOutputHistory` and the plain records are the programs of the backend's calls, one
statement at a time, since a "batch" collects nothing. A scan's other write to the child counter
is split as the code splits it: `ScanReadChildIndex` compares in one section (and puts what it will
save in `scan[p]`), `SaveChildIndex` writes in the next one without reading again, `ScanFails` ends
it in between. `Crash` stops a process anywhere. `overlap` records that two processes were in the
same group of programs at once, which the wallet's mutex excludes within a process only, or that a
call of next_child or another scan came between a scan's comparison and its save, which nothing
excludes. What a scan found is an index at or above the counter, whichever the chain holds; of two
scans a process would run at once only one is modelled. `KeyValue` has one atomic step per
write; `AtomicWrites` is the refinement with the table as its map and the statement under way
as its call. The history table and the deletion of outputs are included, contents are opaque.

### SlateExchange

A payer and a receiver, each possibly with a listener (`cl`), and a send command of the
payer (`cmd`) over one of five methods. `net` holds the slates that the epicbox server, the
Keybase channel or the file system keeps; the epicbox server delivers a slate again
until `Made`. `OnSlate` to `Acknowledge` are the steps of the epicbox handler: receive_tx or
finalize_tx, the answer or post_tx, then `Made`, which the code sends also if the handling
failed (`lost` records it). The subscriber's socket is a mutex (`OnPing` is when it is
released); a failed read reconnects up to `ReconnectLimit` times, then the listener is dead. `SendFails`,
`ClientCrash`, `CmdCrash`, `SyncLost` and `ReadFails` are faults and share one bound.
receive_tx and finalize_tx are reduced to what `WalletLedger` shows of them: the first
refuses a slate that has an entry, the second needs context and entry. Addresses and
message encryption are left out.

### Slate and Commands

`Slate` has operators only. Amounts are small numbers and the fee is that of the code's
weight formula. `SelectCoins` keeps the soft limit, the order of the coins and the
use-all strategy, `ChangeAmounts` the division and the remainder of the split. Cryptography is
symbolic: a key is the set of inputs and outputs whose blinding factors it sums, a signature
is what it was made over, so that fee, key or offset mismatches between the rounds show
as failed verifications. `IntoVersion` and `FromVersioned` move a slate through the record
layouts of versions 2 and 3.

`Commands` runs one request (`req`, chosen from `Requests`) with the commands of both
wallets, one action per stage that leaves a trace: select, reselect, build, deliver, read the
answer, lock, finalize, post; with invoice, pay, cancel, repost, and refresh beside them. The
check of the command's arguments is in `SendArgs` and `PayArgs`. `Killed` stops a command between two
stages, `Outage` takes the node away, `Tick` moves the chain past a cutoff.

### OwnerSession

`req[c]` is the request of client c on its way through the listener: middleware check,
decryption with the handler's key, the call, the update of mask or key after it,
encryption. `key` is the handler's copy of the session key and `apiKey` the Owner's; `wallet`
is the mask of the open wallet (or that it is closed), `mask` the foreign API's copy, `lock`
the holders of the two configuration mutexes. A send is split where the code takes and
releases locks. `unread` and `overlap` are history; a renewal clears its `overlap` mark when it
draws a key while no other renewal is in flight and its own request's key was not replaced
(otherwise its client could not read the new key, and `KeyAgreement` would not follow). Keys and masks are numbers; ECDH, AES and
nonces are left out.

### Updater

`th[t]` is a thread made by start_updater, `running` the flag, `chan` and `queue` the
status channel and the queue that LogMessage fills. `UpdatePass` may fail (no wallet, wrong
mask, node error); `CheckRunning` looks at the flag; the sleep follows. `QueryBegin` and
`QueryEnd` are a query that decides on the flag whether to refresh.

## 3. Runs

Bounds are small because every hazard listed needs one coin, one or two
transactions, two blocks, and one or two threads: what matters is the order of
their steps, and all orders are explored. In the ledger runs `MaxKeys`, `MaxTxs` and
`MaxRestores` are large enough that no call of interest is blocked by them.

| Run | Instance | What it shows |
|---|---|---|
| `ledger_send` | one coin, already scanned, one send (and a second lock of it), TTL 1, one update or cancel at a time, one node outage, fair updates | nothing held by a cancelled transaction, one live row per output, outputs and entry confirmed together, a locked output stays locked for its transaction; a mined send is settled, and confirmed if no update or cancellation was under way when it was mined; an expired one is settled |
| `ledger_repair` | an unscanned coin, a watched send, a fork, user scans with delete_unconfirmed | even here nothing is confirmed that was not mined |
| `ledger_pay` | a wallet recreated from its phrase, one coin to restore, an invoice paid up to twice, two heights | no confirmation is taken back, whatever an update read before |
| `ledger_income` | two coinbase outputs, a received slate and an issued invoice, three heights, coinbases stale as soon as their block has another on top, fair updates | rewards are credited once; no key is handed out twice, and no scan moves the child index back; the wallet converges to the chain |
| `seed` | two seeds, two passwords, two backups, two faults | no seed is lost; until a password change is confirmed the old password works |
| `accounts` | two old accounts with a key each (indexes 1 and 0), one of them exported, a user label, one receive, two keys and two log ids per account, one scanning thread, errors and stops anywhere | no account loses its label, a restored account gets one unless its scan ended early, an output keeps its own entry |
| `store` | two processes, three calls or scans, one crash, one output, two ids, one retry | writes are atomic (`AtomicWrites`, the refinement), indexes and ids are given once by calls and scans that do not meet, no entry or output version is lost, statements end |
| `exchange` | two slates one after the other, every method, two faults, two reconnections | only a backed transaction is posted, one output per slate, the only answer lost without a fault is one that overtakes the lock, sends end, epicbox payments settle |
| `commands` | the requests of `MCCommands` (every method, versions, cutoffs, proofs, splits, up to four coins under a soft limit of two), three blocks, two faults | the fee loop makes progress and refuses only if the coins are short, honest wallets complete, proofs verify, expired slates are refused |
| `owner` | two clients, two session keys, two masks | answers can be read, keys and masks agree again after every change, a slate that was sent is locked, every request is answered |
| `updater` | two threads, one mask, three messages, a queue of two | the flag means a thread, a stop ends it, the status history is complete and ordered |
| `v_stale_scan` | section 4 | |

Amounts in `commands` are chosen so that selections of one to four coins, uneven splits
and changes smaller than the number of change outputs occur. A second receive in
`accounts` only adds states; a second scanner breaks `PathKept` (section 4).

Where these properties are *not* claimed is as informative. `LockedUnavailable`,
`OneLiveRow`, `CancelledHoldsNothing` and `AllOrNoneConfirmed` hold in `ledger_send`, where
the scan finds every row with the index it has; section 4 says what breaks them. Some
properties name their exceptions: `ReadableReply`, `KeyAgreement` and `ForeignMaskFollows` except
overlapping renewals, `ChildOnce`, `EntryKept` and `HistoryComplete` two processes in the same
group of programs, `ChildOnce` also a next_child between a scan's comparison and its save,
`RestoredIsNamed` a scan that ended between restoring and naming, `MinedIsConfirmed` (for
confirmation) a block during an update or a cancellation, `FlagMeansAlive` a failed pass, `ProofVerifies` and `TtlRefused` epicbox and version 2,
`HonestCompletes` uneven splits. Each exception is what the code does, seen when the property was
first stated without it.

Fairness.
- `ledger_send`, `ledger_income`: weak fairness of each thread's update step. The updater
  thread repeats update_wallet_state until it is stopped, and each step needs only the
  mutex and the node; node failures are bounded by `MaxOutages`. Nothing is assumed
  of users, counterparties or miners.
- `exchange`: a started command and running listeners go on (a crashed listener is started
  again), the server delivers and pings, the node syncs again; strong fairness of publishing,
  which waits for the socket's mutex (parking_lot's, eventually fair). Faults are bounded.
- `owner`: strong fairness of serving each request, for the same mutexes.
- `updater`: threads run and a pass ends, since the node client's calls time out.
- `store`: a statement under way is executed or refused by SQLite.

Deadlock is checked in all runs except `exchange` and `store`, where the system may stop: all
slates are done, or the processes have used their calls.

## 4. Findings

`v_stale_scan` is a run that TLC must find violated: the scan saves an output as it was
when it was read, so an output locked in between is unlocked (scan.rs:403), though
tx_lock_outputs is documented as "making them unavailable for use in further
transactions" (api/src/owner.rs:916).

The models show more. Each of these is seen by changing the constants of a run or adding
to it a property that the modules state and no run claims.

Ledger:
- The mempool watcher saves a log entry as it was when it was read, so a confirmation in
  between is lost (owner.rs:732; `ledger_send` with Watch = TRUE, AllOrNoneConfirmed).
- A send without change that was seen in the mempool is no longer outstanding and is
  never confirmed (updater.rs:161; Watch = TRUE, MinedIsConfirmed).
- An update cancels a send that was mined after it read the list: step 5 goes through the entries
  of step 2 and compares only the cutoff with the tip, so a block at the cutoff that holds the
  transaction lets it cancel (owner.rs:1056; `MinedIsConfirmed` without its condition on updates). The
  entry stays cancelled, its change is missing until a scan restores it. A user's cancel_tx that refreshed before
  the block does the same.
- A slate that is locked twice has two entries. Outputs move to the newer one, the older is never
  confirmed, and with a cutoff step 5 cancels it though the transaction was mined
  (selection.rs:140; `MinedIsConfirmed` without its condition on `EntriesOf`).
- A locked invoice payment does not stop a second one (owner.rs:555; `ledger_pay`, `InvoicePaidOnce`).
- Two sends initiated before either is locked take the same coin and the second lock
  succeeds (selection.rs:157; two sends, LockedUnavailable).
- A scan that renames a selected row makes lock_tx_context panic (selection.rs:158;
  Indexed = FALSE, LockPanics is taken).
- An output comes to have two live rows (OneLiveRow): when a repairing scan meets an unscanned locked
  coin (scan.rs:484; Repair); when an invoice payment is locked after a scan read the chain
  its change is already on and before the scan restores the change (scan.rs:413; `ledger_pay`); when a fork brings
  back a spent coin that was never scanned, which the scan renames and then un-spends under its old
  name (scan.rs:403; Indexed = FALSE, MaxForks = 1).
- A restored wallet that receives before its first scan ends reuses a key (scan.rs:544;
  `ledger_pay` with KeysAreFresh); one that mines credits a coinbase twice (Restored, CoinbaseOnce).
- With two updates at once a scan brings back the output of a transaction the other
  cancelled (scan.rs:413; two updaters, CancelledHoldsNothing), and a reward that one has just found
  on chain is credited again by the other (scan.rs:413; two updaters, CoinbaseOnce).
- If unconfirmed outputs may be spent, the locked output of an invoice that is not mined yet is
  marked spent by a refresh and un-spent by the scan after it is, which cancels the send that holds
  it while the change stays (scan.rs:440; a send and an invoice, ZeroConf, CancelledHoldsNothing).
- A repairing scan renames an output that was mined after the refresh, then deletes its old row as
  unconfirmed and cancels its entry, while the renamed row stays (scan.rs:507; a receive, Repair,
  CancelledHoldsNothing).
- A miner that builds a block reward under the key of one already spent is not credited
  (a send and MaxCoinbase > 0, CoinbaseOnce).

Accounts:
- A scan that ends early, by an error or with the process, after it restored an output leaves the
  output's account without a label, and its child index behind, for good: the accounts are named after all
  outputs were restored, and a restored output is not missing again (scan.rs:522; `RestoredIsNamed`
  without `cut`).
- Two scans at once give their new accounts the same label and one account is left
  without any, for good (scan.rs:520; Scanners of two threads, PathKept); so does a user label
  of the form account_<n>.
- import_tx does not advance the id counters, so an imported entry is overwritten by the
  next one of its account (command.rs:61).
- Keys come from the active account while entry and output go to the named one, so
  cancelling from a repairing scan looks for the entry in the wrong account (selection.rs:235).

Seed file: create_wallet with an invalid phrase succeeds without a seed file
(default.rs:194; `CreatedHasSeed`).

Database: a batch is described as atomic (db.rs:178) and is executed statement by
statement; the programs are ordered so that a stop loses nothing (`EntryKept`, `HistoryComplete`), but
two processes at once may (without the exceptions of section 3). Within one process, a scan
compares the child index in one section and saves in another (scan.rs:536), without reading again: a
next_child in between hands out an index that the scan knows to be used, or gets back an index it
already had, since the save takes the counter back (`ChildOnce` without its exception). Not
even that exception covers a next_child before the scan's comparison in a restored wallet: the
chain's indexes are not in the counter yet (the ledger's finding at scan.rs:544).

Exchange:
- `Made` is sent whether or not the slate was handled (epicbox.rs:859, whose comment says
  "successfully"; `MadeMeansHandled`): an answer that comes before tx_lock_outputs is lost.

Updater: an update that fails leaves the flag up, and queries then trust data that
nobody refreshes (`FlagMeansAlive` without its exception).

Slates:
- epicbox converts to version 2, which has no field for a proof, so a required proof
  (libwallet types.rs:96) is dropped silently (epicbox.rs:262; `ProofRequired` with the
  request set `OverEpicbox`); the cutoff is dropped with it, also by HTTP to a version 2 peer.
- The remainder of a split is taken modulo the part, so uneven change does not add up and
  the transaction is refused; change below the number of outputs divides by zero
  (selection.rs:500; `HonestCompletes` without its exceptions).
- The argument checks let an amount of 0 and 0 change outputs through: without eligible coins the
  first is refused for want of funds though the wallet has them all (selection.rs:390), the
  second divides by zero (wallet_args.rs:840, selection.rs:498).

## 5. Proofs

Every safety property of the runs is proved for all values of the constants, except those listed at
the end. Each proof finds an inductive invariant, checks it against every action of Next (one step
per action, one below it per part the action can disturb) and derives the property from it. The
invariants were checked by TLC on the runs' instances before they were proved.

Ledger, `WalletLedgerProofs`:
- `LedgerTypeOK` (TypeOK). Inductive as it is, given the assumptions on the constants, that sets
  of rows are finite (so that the ids of new coinbase entries can be counted) and that `Least`
  picks a member.
- `KeysFresh` (KeysAreFresh, if Restored = FALSE). `KeyInv`: every key on chain, in a slate, in
  the output table and in what a scan carries is below `nextChild`, so the next key is new. The
  scan's part matters: it would raise the index in a later section than the one it read it in, and
  the invariant shows that it finds no key above the index to do so. In a wallet recreated from
  its phrase it does, and a key is used twice (section 4): the hypothesis is needed.
- `ConfirmationIsFinal` (ConfirmedStays, if Watch = FALSE). An update saves entries it read steps
  before, so this does not follow from the current state alone. `Fresh`: ids at or above
  `nextLog` are unused, the entries a thread has read and still visits have ids below it, and the
  watcher is idle. A save by update_txs_via_kernel then sets confirmed, a new entry takes an
  unused id, and every other change keeps the mark. The watcher takes confirmations back
  (section 4): the hypothesis is needed here and for the next.
- `AllOrNone` (AllOrNoneConfirmed, if Watch = FALSE), with repairing scans, forks and any number
  of updates. A scan writes rows back that it read before, so `SettledInv` says of the rows it
  carries what it says of the table: an unspent row's entry is confirmed or no longer live.
- `ConfirmedMined` (ConfirmedWasMined, if Restored = FALSE), with the watcher, repairing scans,
  forks and any number of updates. An entry may be marked because one of its outputs is on chain,
  so the argument goes through the keys: `ChainInv` says that what is on chain comes from a
  mined transaction or a coinbase and that a key is in one slate's transactions only; `MarkInv`
  that a row names an entry of the slate whose output it is, in the table and in what every thread
  carries, and that entries keep their slate. A wallet recreated from its phrase may use a key
  twice. The model tells outputs apart by their keys only, while the commitments in the code also
  depend on the amounts; so nothing is claimed there.
- `RewardsOnce` (CoinbaseOnce), for a wallet that receives and mines but does not send, with one
  update at a time and not recreated from its phrase. A reward's entry is made when its output is found, by a refresh, by the scan
  or as a restored output, each in a later section than the look at the chain. `RewardInv`: a row of a
  reward that has no entry yet is expected, every other names an entry of its own, and there are no
  more entries than that; what the thread carries agrees with the table, since between its
  steps only a call can change it, and calls only add rows or drop those that are expected. A second
  thread, a key restored twice or one spent before it is used again break this (section 4): the three hypotheses are needed.
- `LivesOnce` (OneLiveRow), for any number of sends, receives and issued invoices, coins that were
  scanned or not, and with the watcher; but no paid invoices, mining, zero-confirmation spending, forks,
  repairs or restore, and one update at a time. The scan saves rows under the positions it saw, in
  sections after its reads. A row renamed or un-spent too late is of an output spent since, so an
  output may get a second row, and `OnceInv` says what makes that harmless: of two rows the one at the
  later position is spent and no slate has selected it, an output that is on chain had one row when it
  was read, and each that the thread carries is carried once. Paid invoices, forks, repairs
  and a restore do break it (section 4; a restored key may be used again). The other hypotheses belong to the argument: TLC
  found no counterexample with zero-confirmation spending or a coinbase in the instance of `ledger_send`,
  nor in the part it explored with two updates.

Seed file: `SeedSafe` (TypeOK, SeedNeverLost, OldPasswordWorks) and, on its own, `OldPasswordKept`.
SeedNeverLost is not inductive: removing a backup is safe only because the new file was
verified, and recreating wallet.seed only because it had been moved away. `CallInv` states for each
place of a call what is on disk then.

Accounts:
- `AccountsTypes` (TypeOK), with the file of exported entries and the default account's label.
- `OutputsNameOwn` (EntryOfOutput), for any number of scanners and imports. `EntryInv` adds
  that the id is below the counter of its account, so that a new entry cannot take it, and that
  there is an entry, so that import_tx, which saves only what is missing, cannot either.
- `LabelsStay` (PathKept) and `RestoredNamed` (RestoredIsNamed), if one thread scans and no user
  label has the form account_<n>. `LabelInv`: a number in use as account_<n> is below the number of
  labels, no account has two such labels, and while a scan names accounts its next number is
  in use nowhere, whatever the user creates in between. `RestoredInv` follows what was found: every account
  of found_parents is named or still on the scan's list, and when the scan ends early, in `cut`;
  the theorem says that an early end is the only way to leave an account without a label. Both
  hypotheses are needed (section 4).

Database:
- `StoreTypes` (TypeOK) and `StoreIsAtomic` (AtomicWrites): every step of WalletStore is a step of
  KeyValue or leaves the map and the call alone. `CoreInv`: keys are unique in the table, the
  statement a process stands at is the first of its program and was prepared in the form the
  table asked for, and an UPDATE whose row is gone was overtaken by a DELETE.
- `ChildIndicesFresh` (ChildOnce), `EntriesKept` (EntryKept), `VersionsKept` (HistoryComplete).
  `ChildInv`, `LogInv` and `HistInv` say, for a process that is alone in its group of programs, how
  the rest of its program relates to the counter in the table: the counter is raised before the
  id is used, so that a stop wastes an id and loses nothing; `ScanInv`, that a scan which nobody met
  since its comparison still carries an index at or above the counter and its save puts the counter
  past every index handed out; and the old version of an output is in
  the history, or still to be written there, before it is replaced.

Owner sessions: `SessionTypes` (TypeOK), `AnswersReadable` (ReadableReply), `KeysAgree` (KeyAgreement),
`ForeignMaskCurrent` (ForeignMaskFollows), `SentSlatesLocked` (SentIsLocked), from one invariant:
the key under which each answer will be encrypted (`AnswerKey`), where each call can be and what a
send has done there (`Shape`), and for renewals that did not overlap, that the one in flight carries
the Owner's key to the handler and to its client (`KeyInv`), its mask to the foreign API
(`MaskInv`).

Updater: `UpdaterTypes` (TypeOK), `FlagIsHonest` (FlagMeansAlive), `StopStays` (at most one thread is in
the loop, and nobody raises a flag taken down while it is there: what makes StopEnds true beside
fairness), `HistoryIsComplete` (CompleteHistory). `ThreadInv` is that run holds the mutex from
its first step to its last; `MessageInv` orders and counts the messages in channel, queue and history
separately, since the queue is kept newest first and drops its oldest.

Exchange: `ExchangeTypes` (TypeOK), `PostedBacked` (PostedIsBacked), `OutputOnce` (ReceivedOnce),
`EarlyAnswers` (OnlyEarlyAnswerLost). `BackedInv`: only the receiver's output puts a signed slate on its
way, wherever the slate is then (in the net, in a listener's hands, in the command), and finalized
slates have their entry. `CalmInv`: as long as nothing failed, a slate is offered once, and
the receiver that made its output is the one about to acknowledge it.

Commands, `CommandsProofs`:
- `CommandsInvariant`, the inductive invariant. It follows one payment through its rounds:
  `SelInv` what the selection holds, `HandInv` and `WireInv` that the slate in hand and on its way is one
  of the forms `Starting`, `Offered`, `Answered` (or `Issued`, `PaidFor` for an invoice), `Faithful` what
  the versions it went through kept of it, `CtxInv` and `StoredInv` that context and stored transaction belong to it.
- `LoopGrows` (SelectionGrows), `RefusalsAreShort` (RefusedMeansShort), for any coins, limits, amounts and
  fees. The sums over coins and change outputs are recursive functions, and what they compute is shown by
  induction: not with the library's induction rule, which the provers cannot instantiate, but from
  the least element of a set of numbers (`LeastNumber`, `SetInduction`). That the coins come in ascending order
  is an assumption on the requests: the code sorts them before it selects.
- `ExpiredIsRefused` (TtlRefused), `HonestWalletsComplete` (HonestCompletes), `ProofsVerify` (ProofVerifies), with the
  exceptions these properties name. A final signature is checked against keys, fee and offset of the slate
  as it came back, so the argument is that every version and transport keeps them.

Assumptions are the named ones of the modules: types of the constants, finiteness of the sets that
are counted, at least one backup name, log id and reconnection, no more initial coins than keys, a queue
with room for a message, and that the word for "no process" is not a process. TLC evaluates
them in every run.

Only model-checked:
- Liveness (`MinedIsConfirmed`, `ExpiredIsSettled`, `EventuallyAgrees`, `SendEnds`, `EpicboxSettles`,
  `Answered`, `StopEnds`, `StatementEnds`): fairness and ENABLED are out of the prover's reach.
- `CancelledHoldsNothing` and `LockedUnavailable` of `WalletLedger`. They are not true of every
  instance: a second update, a repairing scan, an unscanned coin, a coin that two
  sends selected break them (section 4), so a theorem would cover little more than the runs of section 3 show.

## 6. Not modelled, and plan

Not modelled:
- The Tor process and its configuration: an external program is started and its files are
  written; no state of the wallet depends on it.
- The node client: its answers are those of the chain in `WalletLedger`, and may fail.
- Cryptography and encodings: byte layouts of slates, proofs and addresses, the emoji
  alphabet, encryption of epicbox messages and of the seed, Bulletproofs and rewinding. They
  are functions of their arguments; the models keep what they bind together.
- Display, argument help, logging and the reading and writing of the configuration file.
- Writes that complete but are lost by a power failure.

Left to do: the three hazards without a property, whose code is the same as that of counterexamples in
section 4, and the JSON-RPC layer, of which only the sessions and what the calls require are modelled.
