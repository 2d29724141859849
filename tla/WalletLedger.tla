---------------------------- MODULE WalletLedger ----------------------------
(***************************************************************************)
(* The ledger of one wallet account: the output table, the transaction log *)
(* and the private slate contexts, the operations of the owner and foreign *)
(* APIs that change them, the multi-step wallet update that runs beside    *)
(* them, and the node's chain they are reconciled with.                    *)
(*                                                                         *)
(* Every action is one critical section of the wallet mutex (wallet_lock!).*)
(* update_wallet_state and wait_for_tx_in_mempool release the mutex        *)
(* between their steps and carry values they read in an earlier section,   *)
(* so each of their sections is an action of its own.                      *)
(*                                                                         *)
(* Amounts, confirmations counts and keys' derivation paths are abstracted:*)
(* an output is the child index of its key, coin selection may return any  *)
(* set of eligible outputs (the amounts are the subject of Slate).         *)
(***************************************************************************)
EXTENDS Integers, FiniteSets

CONSTANTS
  Slates,        \* slate ids the wallet takes part in
  Role,          \* Role[s]: how this wallet takes part in slate s
  NoSlate,       \* the tx_slate_id of an entry without a slate
  Updaters,      \* threads that may run update_wallet_state
  Coins,         \* number of unspent outputs the wallet starts with
  Indexed,       \* whether the initial coins have been scanned (mmr_index set)
  Restored,      \* whether the database was just recreated from the seed phrase
  Repair,        \* whether the user may scan with delete_unconfirmed
  Watch,         \* whether finalised sends are watched in the mempool
  ZeroConf,      \* whether sends may use minimum_confirmations = 0
  SendTtl,       \* ttl_blocks given to sends (0: none)
  RecvTtl,       \* ttl_cutoff_height of incoming slates (0: none)
  StaleCoinbase, \* age at which an unconfirmed coinbase is dropped (50 blocks)
  MaxInputs,     \* bound: inputs of one transaction
  MaxKeys,       \* bound: child keys
  MaxTxs,        \* bound: tx log ids taken by API calls
  MaxRestores,   \* bound: tx log ids taken for restored and coinbase outputs
  MaxHeight,     \* bound: height of the chain
  MaxForks,      \* bound: blocks undone by a fork
  MaxOutages,    \* bound: node failures and restarts during an update
  MaxCoinbase    \* bound: coinbase outputs built

ASSUME ConstantsAssumption ==
  /\ NoSlate \notin Slates
  /\ Role \in [Slates -> {"send", "receive", "invoice", "pay"}]
  /\ Indexed \in BOOLEAN /\ Restored \in BOOLEAN /\ Repair \in BOOLEAN
  /\ Watch \in BOOLEAN /\ ZeroConf \in BOOLEAN
  /\ Coins \in Nat /\ SendTtl \in Nat /\ RecvTtl \in Nat /\ StaleCoinbase \in Nat
  /\ MaxInputs \in Nat /\ MaxKeys \in Nat /\ MaxTxs \in Nat /\ MaxRestores \in Nat
  /\ MaxHeight \in Nat /\ MaxForks \in Nat /\ MaxOutages \in Nat /\ MaxCoinbase \in Nat
  /\ Coins <= MaxKeys

VARIABLES
  \* the wallet database
  out,        \* the output table: a row for every (key, mmr_index)
  txlog,      \* the transaction log, by id
  nextLog,    \* next tx log id
  nextChild,  \* next child index
  ctx,        \* private contexts, by slate
  lch,        \* last_confirmed_height
  \* the threads
  upd,        \* the progress of each update_wallet_state
  watch,      \* the progress of wait_for_tx_in_mempool
  \* slates in flight
  offers,     \* per slate, the transactions this wallet contributed to
  final,      \* per slate, the finalised transaction
  ttl,        \* per slate, ttl_cutoff_height (0: none)
  \* the node
  tip, utxo, mmr, pool, mined,
  \* counters of environment steps, and what was ever mined
  seen, forks, outages, cbKeys

dbVars    == <<out, txlog, nextLog, nextChild, ctx, lch>>
slateVars == <<offers, final, ttl>>
nodeVars  == <<tip, utxo, mmr, pool, mined, seen, forks, cbKeys>>
vars      == <<dbVars, upd, watch, slateVars, nodeVars, outages>>

-----------------------------------------------------------------------------
(* Data *)

Keys   == 0 .. (MaxKeys - 1)
MaxIds == MaxTxs + MaxRestores
LogIds == 0 .. (MaxIds - 1)
NoId   == -1
MaxMmr == MaxForks + 1         \* positions an output can have had on chain
Mmr    == 0 .. MaxMmr          \* 0: mmr_index is None
Rows   == Keys \X Mmr          \* the database key of an output

OutputStatus   == {"None", "Unconfirmed", "Unspent", "Locked", "Spent"}
TxLogEntryType == {"None", "ConfirmedCoinbase", "TxReceived", "TxSent",
                   "TxReceivedCancelled", "TxSentCancelled", "TxSentMempool",
                   "TxReceivedMempool", "TxSentCreated"}

\* This wallet's side of a transaction: its kernel stands for the whole
Transaction == [ins : SUBSET Keys, outs : SUBSET Keys]
NoTx        == [ins |-> {}, outs |-> {}]

OutputData == [status : OutputStatus, entry : LogIds \cup {NoId},
               cb : BOOLEAN, height : Nat]
NoRow      == [status |-> "None", entry |-> NoId, cb |-> FALSE, height |-> 0]

\* kernel_excess is the transaction whose kernel it is (NoTx: the excess stored
\* is not yet that of a complete transaction), both says that the entry debits
\* and credits the wallet
TxLogEntry == [type : TxLogEntryType, slate : Slates \cup {NoSlate},
               confirmed : BOOLEAN, ttl : Nat, kernel_excess : Transaction,
               both : BOOLEAN]
NoEntry    == [type |-> "None", slate |-> NoSlate, confirmed |-> FALSE, ttl |-> 0,
               kernel_excess |-> NoTx, both |-> FALSE]

Context == [ins : SUBSET Rows, outs : SUBSET Keys]
NoCtx   == [ins |-> {}, outs |-> {}]

UpdateState == [pc : {"idle", "outstanding", "kernels", "chain", "wallet", "repair", "index",
                      "expire", "cancel"},
                job : {"update", "cancel", "scan"}, goal : LogIds \cup {NoId},
                txs : [LogIds -> TxLogEntry], todo : SUBSET LogIds, tip : Nat,
                chain : SUBSET Rows, rows : [Rows -> OutputData],
                idx : SUBSET Rows, fix : SUBSET Rows, miss : SUBSET Rows,
                locked : SUBSET Rows, unconf : SUBSET Rows, found : 0 .. MaxKeys]
UpdateIdle  == [pc |-> "idle", job |-> "update", goal |-> NoId,
                txs |-> [i \in LogIds |-> NoEntry], todo |-> {}, tip |-> 0,
                chain |-> {}, rows |-> [r \in Rows |-> NoRow],
                idx |-> {}, fix |-> {}, miss |-> {}, locked |-> {}, unconf |-> {}, found |-> 0]

WatchState == [pc : {"idle", "polled", "save", "mark"}, slate : Slates \cup {NoSlate},
               snap : [LogIds -> TxLogEntry], todo : SUBSET LogIds]
WatchIdle  == [pc |-> "idle", slate |-> NoSlate,
               snap |-> [i \in LogIds |-> NoEntry], todo |-> {}]

Least(S) == CHOOSE x \in S : \A y \in S : x <= y

Init ==
  /\ out = [r \in Rows |-> IF ~Restored /\ r[1] < Coins /\ r[2] = (IF Indexed THEN 1 ELSE 0)
                             THEN [NoRow EXCEPT !.status = "Unspent"] ELSE NoRow]
  /\ txlog = [i \in LogIds |-> NoEntry]
  /\ nextLog = 0 /\ nextChild = (IF Restored THEN 0 ELSE Coins)
  /\ ctx = [s \in Slates |-> NoCtx]
  /\ lch = 0
  /\ upd = [p \in Updaters |-> UpdateIdle] /\ watch = WatchIdle
  /\ offers = [s \in Slates |-> {}] /\ final = [s \in Slates |-> NoTx]
  /\ ttl = [s \in Slates |-> IF Role[s] = "receive" THEN RecvTtl ELSE 0]
  /\ tip = 0 /\ utxo = 0 .. (Coins - 1) /\ mmr = [k \in Keys |-> 1]
  /\ pool = {} /\ mined = {} /\ seen = {}
  /\ forks = 0 /\ outages = 0 /\ cbKeys = {}

-----------------------------------------------------------------------------
(* Output status changes and tx log queries *)

\* Faulty variants of mark_unspent: of a locked output too; of none
MarkAnyUnspent(o)   == IF o.status \in {"Unconfirmed", "Locked"} THEN [o EXCEPT !.status = "Unspent"] ELSE o
MarkUnspentNever(o) == o

MarkUnspent(o) == IF o.status = "Unconfirmed" THEN [o EXCEPT !.status = "Unspent"] ELSE o
MarkSpent(o)   == IF o.status \in {"Unspent", "Locked"} THEN [o EXCEPT !.status = "Spent"] ELSE o

\* eligible_to_spend, up to confirmation counts and maturity
EligibleToSpend(o) ==
  \/ o.status = "Unspent"
  \/ o.status = "Unconfirmed" /\ ~o.cb /\ ZeroConf

EntriesOf(s)   == {i \in LogIds : txlog[i].type # "None" /\ txlog[i].slate = s}
\* Faulty variant: sent transactions are not looked up
OutstandingReceived(t) == ~t.confirmed /\ t.type = "TxReceived"
Outstanding(t) == ~t.confirmed /\ t.type \in {"TxReceived", "TxSent", "TxSentCreated"}
Cancellable(t) == ~t.confirmed /\ t.type \in {"TxSentCreated", "TxReceived"}
CheckTtl(s)    == ttl[s] = 0 \/ lch < ttl[s]
\* get_kernel finds the kernel: a kernel belongs to one slate only
OnChain(t)     == t.slate \in mined /\ t.kernel_excess = final[t.slate]

CancelledType(t) == CASE t = "TxSentCreated" -> "TxSentCancelled"
                      [] t = "TxReceived"    -> "TxReceivedCancelled"
                      [] OTHER               -> t
MempoolType(t)   == CASE t \in {"TxSent", "TxSentCreated"} -> "TxSentMempool"
                      [] t = "TxReceived"                  -> "TxReceivedMempool"
                      [] OTHER                             -> t
ConfirmedType(t) == IF t \in {"TxSentMempool", "TxSentCreated"} THEN "TxSent" ELSE t

-----------------------------------------------------------------------------
(* refresh_outputs: map_wallet_outputs, apply_api_outputs and              *)
(* clean_old_unconfirmed against the node's UTXO set.                      *)

\* One row of each key that has rows in S; which one depends on the order of the
\* table (pref)
OneRowPerKey(S, pref) ==
  LET rank(r) == (r[2] - pref) % (MaxMmr + 1) IN
  {r \in S : \A q \in S : q[1] = r[1] => rank(r) <= rank(q)}

\* The map is keyed by commitment: of two rows of a key one is kept
MapWalletOutputs(pref) ==
  OneRowPerKey({r \in Rows : out[r].status \notin {"None", "Spent"}}, pref)

\* Faulty variant: the status of the output is not checked
NewCoinbasesAgain(m) == {r \in m : lch <= tip /\ r[1] \in utxo /\ out[r].cb}

\* Coinbase outputs found on chain for the first time: each gets a log entry
NewCoinbases(m) ==
  {r \in m : lch <= tip /\ r[1] \in utxo /\ out[r].cb /\ out[r].status = "Unconfirmed"}

\* Ids for those entries, from next_tx_log_id, in the map's arbitrary order
CoinbaseIds(m) ==
  {f \in [NewCoinbases(m) -> {i \in LogIds : nextLog <= i /\ i < nextLog + Cardinality(NewCoinbases(m))}] :
     \A a, b \in NewCoinbases(m) : f[a] = f[b] => a = b}

ApplyOut(m, ids) ==
  [r \in Rows |->
     IF r \notin m THEN out[r]
     ELSE IF r[1] \notin utxo THEN MarkSpent(out[r])
     ELSE IF r \in NewCoinbases(m) THEN MarkUnspent([out[r] EXCEPT !.entry = ids[r]])
     ELSE MarkUnspent(out[r])]

\* Faulty variants: the output need not be on chain; entries are never confirmed
ConfirmedByAnyOutput(m) ==
  {i \in LogIds : txlog[i].type # "None"
     /\ \E r \in m : ~out[r].cb /\ out[r].status = "Unconfirmed" /\ out[r].entry = i}
ConfirmedByNothing(m) == {}

\* Entries confirmed because one of their unconfirmed outputs is on chain
ConfirmedBy(m) ==
  {i \in LogIds : txlog[i].type # "None"
     /\ \E r \in m : r[1] \in utxo /\ ~out[r].cb /\ out[r].status = "Unconfirmed" /\ out[r].entry = i}

ApplyLog(m, ids) ==
  [i \in LogIds |->
     IF \E r \in NewCoinbases(m) : ids[r] = i
       THEN [NoEntry EXCEPT !.type = "ConfirmedCoinbase", !.confirmed = TRUE]
     ELSE IF i \in ConfirmedBy(m)
       THEN [txlog[i] EXCEPT !.confirmed = TRUE, !.type = ConfirmedType(txlog[i].type)]
     ELSE txlog[i]]

CleanOldUnconfirmed(o) ==
  LET old == {r \in Rows : /\ tip >= StaleCoinbase /\ o[r].status = "Unconfirmed" /\ o[r].cb
                           /\ o[r].height > 0 /\ o[r].height < tip - StaleCoinbase}
  IN [r \in Rows |-> IF r[2] = 0 /\ \E q \in old : q[1] = r[1] THEN NoRow ELSE o[r]]

\* A node behind the last confirmed height changes nothing but old coinbases
RefreshedOut(m, ids) ==
  CleanOldUnconfirmed(IF tip < lch THEN out ELSE ApplyOut(m, ids))
RefreshedLog(m, ids) == IF tip < lch THEN txlog ELSE ApplyLog(m, ids)

\* Faulty variant: the height before the tip is recorded
RefreshOutputsOffByOne(m, ids) ==
  /\ out' = RefreshedOut(m, ids) /\ txlog' = RefreshedLog(m, ids)
  /\ nextLog' = nextLog + Cardinality(NewCoinbases(m)) /\ nextLog' <= MaxIds
  /\ lch' = IF tip < lch THEN lch ELSE tip - 1

RefreshOutputs(m, ids) ==
  /\ out' = RefreshedOut(m, ids)
  /\ txlog' = RefreshedLog(m, ids)
  /\ nextLog' = nextLog + Cardinality(NewCoinbases(m))
  /\ nextLog' <= MaxIds
  /\ lch' = IF tip < lch THEN lch ELSE tip

-----------------------------------------------------------------------------
(* Owner and foreign API calls, each under the wallet mutex *)

\* add_inputs_to_slate: refresh, select coins, derive a change key, build the
\* context and save it.  change says whether the selection leaves change.
AddInputs(s, pref, change) ==
  LET m == MapWalletOutputs(pref) IN
  \E ids \in CoinbaseIds(m) :
    LET eligible == {r \in Rows : EligibleToSpend(RefreshedOut(m, ids)[r])}
        outs     == IF change THEN {nextChild} ELSE {} IN
    \E ins \in SUBSET eligible :
      /\ ins # {} /\ Cardinality(ins) <= MaxInputs
      /\ RefreshOutputs(m, ids)
      /\ change => nextChild < MaxKeys
      /\ nextChild' = IF change THEN nextChild + 1 ELSE nextChild
      /\ ctx' = [ctx EXCEPT ![s] = [ins |-> ins, outs |-> outs]]
      /\ offers' = [offers EXCEPT ![s] = @ \cup {[ins |-> {r[1] : r \in ins}, outs |-> outs]}]
      /\ ttl' = [ttl EXCEPT ![s] = IF SendTtl = 0 THEN @ ELSE tip + SendTtl]
      /\ UNCHANGED <<upd, watch, final, nodeVars, outages>>

\* init_send_tx: a new slate
InitSendTx(s, pref, change) ==
  /\ Role[s] = "send" /\ offers[s] = {}
  /\ AddInputs(s, pref, change)

\* process_invoice_tx: refused when the log holds a TxSent entry of the slate
ProcessInvoiceTx(s, pref, change) ==
  /\ Role[s] = "pay" /\ CheckTtl(s)
  /\ \A i \in EntriesOf(s) : txlog[i].type # "TxSent"
  /\ AddInputs(s, pref, change)

\* tx_lock_outputs / lock_tx_context.  The slate passed in may already carry the
\* counterparty's part (always, when paying an invoice): then the excess is final.
TxLockOutputs(s) ==
  LET c  == ctx[s]
      tx == [ins |-> {r[1] : r \in c.ins}, outs |-> c.outs] IN
  /\ Role[s] \in {"send", "pay"} /\ c # NoCtx /\ nextLog < MaxTxs
  /\ \A r \in c.ins : out[r].status # "None"
  /\ \E excess \in IF Role[s] = "pay" THEN {tx} ELSE {tx, NoTx} :
       txlog' = [txlog EXCEPT ![nextLog] =
                   [type |-> "TxSentCreated", slate |-> s, confirmed |-> FALSE, ttl |-> ttl[s],
                    kernel_excess |-> excess, both |-> c.outs # {}]]
  /\ out' = [r \in Rows |->
               IF r \in c.ins THEN [out[r] EXCEPT !.status = "Locked", !.entry = nextLog]
               ELSE IF r[2] = 0 /\ r[1] \in c.outs
                 THEN [NoRow EXCEPT !.status = "Unconfirmed", !.entry = nextLog]
               ELSE out[r]]
  /\ nextLog' = nextLog + 1
  /\ UNCHANGED <<nextChild, ctx, lch, upd, watch, slateVars, nodeVars, outages>>

\* lock_tx_context unwraps the row of every input: a row that is gone panics the
\* call, after the log id was taken and the inputs before it were locked
LockPanics(s) ==
  LET gone == {r \in ctx[s].ins : out[r].status = "None"} IN
  /\ Role[s] \in {"send", "pay"} /\ gone # {} /\ nextLog < MaxTxs
  /\ \E done \in SUBSET (ctx[s].ins \ gone) :
       out' = [r \in Rows |-> IF r \in done
                                THEN [out[r] EXCEPT !.status = "Locked", !.entry = nextLog]
                                ELSE out[r]]
  /\ nextLog' = nextLog + 1
  /\ UNCHANGED <<txlog, nextChild, ctx, lch, upd, watch, slateVars, nodeVars, outages>>

\* update_stored_tx: the first entry of the slate of one of the types
UpdateStoredTx(s, types, tx) ==
  LET es == {i \in EntriesOf(s) : txlog[i].type \in types} IN
  /\ es # {}
  /\ txlog' = [txlog EXCEPT ![Least(es)].kernel_excess = tx]

\* finalize_tx (sender) and finalize_invoice_tx (invoice issuer): the
\* counterparty's answer completes the transaction and the context is dropped
Finalize(s, types) ==
  /\ CheckTtl(s) /\ ctx[s] # NoCtx
  /\ \E tx \in offers[s] :
       /\ tx.outs = ctx[s].outs /\ tx.ins = {r[1] : r \in ctx[s].ins}
       /\ UpdateStoredTx(s, types, tx)
       /\ final' = [final EXCEPT ![s] = tx]
  /\ ctx' = [ctx EXCEPT ![s] = NoCtx]
  /\ UNCHANGED <<out, nextLog, nextChild, lch, upd, watch, offers, ttl, nodeVars, outages>>

FinalizeTx(s)        == Role[s] = "send" /\ Finalize(s, {"TxSentCreated", "TxSent"})
FinalizeInvoiceTx(s) == Role[s] = "invoice" /\ Finalize(s, {"TxReceived"})

\* build_recipient_output: a fresh key, a TxReceived entry and its output
BuildRecipientOutput(s, excess) ==
  /\ nextChild < MaxKeys /\ nextLog < MaxTxs
  /\ txlog' = [txlog EXCEPT ![nextLog] =
                 [type |-> "TxReceived", slate |-> s, confirmed |-> FALSE, ttl |-> ttl[s],
                  kernel_excess |-> excess, both |-> FALSE]]
  /\ out' = [out EXCEPT ![<<nextChild, 0>>] =
                 [NoRow EXCEPT !.status = "Unconfirmed", !.entry = nextLog]]
  /\ offers' = [offers EXCEPT ![s] = @ \cup {[ins |-> {}, outs |-> {nextChild}]}]
  /\ nextLog' = nextLog + 1 /\ nextChild' = nextChild + 1
  /\ UNCHANGED <<lch, upd, watch, final, ttl, nodeVars, outages>>

\* receive_tx: refused when the log holds a TxReceived entry of the slate.  The
\* sender's inputs and change are in the slate, so the excess is the final one.
ReceiveTx(s) ==
  /\ Role[s] = "receive" /\ CheckTtl(s)
  /\ \A i \in EntriesOf(s) : txlog[i].type # "TxReceived"
  /\ BuildRecipientOutput(s, [ins |-> {}, outs |-> {nextChild}])
  /\ UNCHANGED ctx

\* issue_invoice_tx: a new slate; the excess is not meaningful before finalization
IssueInvoiceTx(s) ==
  /\ Role[s] = "invoice" /\ offers[s] = {}
  /\ BuildRecipientOutput(s, NoTx)
  /\ ctx' = [ctx EXCEPT ![s] = [ins |-> {}, outs |-> {nextChild}]]

\* build_coinbase: an unconfirmed coinbase output for the next block, under the
\* key the miner passes back if its row is found, else under a new one
BuildCoinbase(k) ==
  /\ \/ k = nextChild /\ nextChild < MaxKeys /\ Cardinality(cbKeys) < MaxCoinbase
     \/ k \in cbKeys \ utxo /\ out[<<k, 0>>].status # "None"
  /\ out' = [out EXCEPT ![<<k, 0>>] =
               [status |-> "Unconfirmed", entry |-> NoId, cb |-> TRUE, height |-> tip + 1]]
  /\ nextChild' = IF k = nextChild THEN nextChild + 1 ELSE nextChild
  /\ cbKeys' = cbKeys \cup {k}
  /\ UNCHANGED <<txlog, nextLog, ctx, lch, upd, watch, slateVars,
                 tip, utxo, mmr, pool, mined, seen, forks, outages>>

-----------------------------------------------------------------------------
(* update_wallet_state by thread p, one action per critical section.  goal   *)
(* is the entry to cancel afterwards when cancel_tx started the update.      *)

At(p, pc) == upd[p].pc = pc
Unchanged == UNCHANGED <<watch, slateVars, nodeVars, outages>>

\* Step 1: update_outputs.  owner::scan begins with it too, and goes on with the scan.
UpdateOutputs(p, job, goal, pref) ==
  LET m == MapWalletOutputs(pref) IN
  /\ At(p, "idle")
  /\ \E ids \in CoinbaseIds(m) : RefreshOutputs(m, ids)
  /\ upd' = [upd EXCEPT ![p].pc = IF job = "scan" THEN "chain" ELSE "outstanding",
                        ![p].job = job, ![p].goal = goal]
  /\ UNCHANGED <<nextChild, ctx>> /\ Unchanged

StartUpdate(p, pref)    == UpdateOutputs(p, "update", NoId, pref)
StartCancel(p, i, pref) == Cancellable(txlog[i]) /\ UpdateOutputs(p, "cancel", i, pref)
StartScan(p, pref)      == Repair /\ UpdateOutputs(p, "scan", NoId, pref)

\* Step 2: the outstanding transactions, read once and used in steps 2 and 5
RetrieveOutstanding(p) ==
  LET os == {i \in LogIds : Outstanding(txlog[i])} IN
  /\ At(p, "outstanding")
  /\ upd' = [upd EXCEPT ![p].pc = "kernels", ![p].todo = os,
                        ![p].txs = [i \in LogIds |-> IF i \in os THEN txlog[i] ELSE NoEntry]]
  /\ UNCHANGED dbVars /\ Unchanged

\* Faulty variant: every entry is saved back, found on chain or not
UpdateTxSavesAll(p) ==
  LET i == Least(upd[p].todo)
      t == upd[p].txs[i]
      c == [t EXCEPT !.confirmed = ~t.both /\ OnChain(t)] IN
  /\ At(p, "kernels") /\ upd[p].todo # {}
  /\ txlog' = [txlog EXCEPT ![i] = c]
  /\ upd' = [upd EXCEPT ![p].todo = @ \ {i}, ![p].txs[i] = c]
  /\ UNCHANGED <<out, nextLog, nextChild, ctx, lch>> /\ Unchanged

\* update_txs_via_kernel: the next entry of the list, saved as it was read
UpdateTxViaKernel(p) ==
  LET i == Least(upd[p].todo)
      t == upd[p].txs[i]
      c == [t EXCEPT !.confirmed = TRUE] IN
  /\ At(p, "kernels") /\ upd[p].todo # {}
  /\ IF ~t.both /\ OnChain(t)
       THEN /\ txlog' = [txlog EXCEPT ![i] = c]
            /\ upd' = [upd EXCEPT ![p].todo = @ \ {i}, ![p].txs[i] = c]
       ELSE /\ upd' = [upd EXCEPT ![p].todo = @ \ {i}]
            /\ UNCHANGED txlog
  /\ UNCHANGED <<out, nextLog, nextChild, ctx, lch>> /\ Unchanged

KernelsDone(p) ==
  /\ At(p, "kernels") /\ upd[p].todo = {}
  /\ upd' = [upd EXCEPT ![p].pc = "chain"]
  /\ UNCHANGED dbVars /\ Unchanged

\* Step 3: the tip and the wallet's outputs in the UTXO set, without the mutex
CollectChainOutputs(p) ==
  /\ At(p, "chain")
  /\ upd' = [upd EXCEPT ![p].pc = "wallet", ![p].tip = tip,
                        ![p].chain = {<<k, mmr[k]>> : k \in utxo}]
  /\ UNCHANGED dbVars /\ Unchanged

\* scan: match the chain's outputs with the wallet's rows, read once.  Of two
\* rows of a key the first in the table is matched.
ScanReadOutputs(p, pref) ==
  LET chain   == upd[p].chain
      on(r)   == \E q \in chain : q[1] = r[1]
      matched == {r \in OneRowPerKey({r \in Rows : out[r].status # "None"}, pref) : on(r)}
      idx     == matched \ chain
      fix     == {r \in matched : out[r].status = "Spent"}
      locked  == {r \in matched : out[r].status = "Locked" /\ upd[p].job = "scan"}
      unconf  == {r \in Rows : out[r].status = "Unconfirmed" /\ upd[p].job = "scan"}
      keep    == idx \cup fix \cup locked \cup unconf IN
  /\ At(p, "wallet")
  /\ upd' = [upd EXCEPT ![p].pc = "repair",
                        ![p].chain = {q \in chain : \E r \in idx : r[1] = q[1]},
                        ![p].rows = [r \in Rows |-> IF r \in keep THEN out[r] ELSE NoRow],
                        ![p].idx = idx, ![p].fix = fix,
                        ![p].miss = {q \in chain : \A r \in matched : r[1] # q[1]},
                        ![p].locked = locked, ![p].unconf = unconf]
  /\ UNCHANGED dbVars /\ Unchanged

\* Faulty variant: the old row is kept
ScanIndexKeepsOldRow(p, r) ==
  /\ At(p, "repair") /\ r \in upd[p].idx
  /\ \E q \in upd[p].chain : q[1] = r[1] /\ out' = [out EXCEPT ![q] = upd[p].rows[r]]
  /\ upd' = [upd EXCEPT ![p].idx = @ \ {r}]
  /\ UNCHANGED <<txlog, nextLog, nextChild, ctx, lch>> /\ Unchanged

\* Save the row as it was read under its new mmr_index; the old row is deleted if
\* it had none
ScanIndexOutput(p, r) ==
  /\ At(p, "repair") /\ r \in upd[p].idx
  /\ \E q \in upd[p].chain :
       /\ q[1] = r[1]
       /\ out' = [out EXCEPT ![r] = IF r[2] = 0 THEN NoRow ELSE @, ![q] = upd[p].rows[r]]
  /\ upd' = [upd EXCEPT ![p].idx = @ \ {r}]
  /\ UNCHANGED <<txlog, nextLog, nextChild, ctx, lch>> /\ Unchanged

\* cancel_tx_log_entry, then the row saved unspent under the key it was read with
UnspendRow(o, r) ==
  /\ txlog' = [i \in LogIds |-> IF i = o.entry
                                  THEN [txlog[i] EXCEPT !.type = CancelledType(@)] ELSE txlog[i]]
  /\ out' = [out EXCEPT ![r] = [o EXCEPT !.status = "Unspent"]]
  /\ UNCHANGED <<nextLog, nextChild, ctx, lch>> /\ Unchanged

\* A row marked spent whose output is in the UTXO set
ScanUnspendOutput(p, r) ==
  /\ At(p, "repair") /\ upd[p].idx = {} /\ r \in upd[p].fix
  /\ UnspendRow(upd[p].rows[r], r)
  /\ upd' = [upd EXCEPT ![p].fix = @ \ {r}]

\* restore_missing_output: an output of the wallet that it has no row of
RestoreMissingOutput(p, q) ==
  LET k == q[1] IN
  /\ At(p, "repair") /\ upd[p].idx = {} /\ upd[p].fix = {} /\ q \in upd[p].miss
  /\ nextLog < MaxIds
  /\ txlog' = [txlog EXCEPT ![nextLog] =
                 [NoEntry EXCEPT !.type = IF k \in cbKeys THEN "ConfirmedCoinbase" ELSE "TxReceived",
                                 !.confirmed = TRUE]]
  /\ out' = [out EXCEPT ![q] =
               [status |-> "Unspent", entry |-> nextLog, cb |-> k \in cbKeys, height |-> 0]]
  /\ nextLog' = nextLog + 1
  /\ upd' = [upd EXCEPT ![p].miss = @ \ {q}, ![p].found = IF k >= @ THEN k + 1 ELSE @]
  /\ UNCHANGED <<nextChild, ctx, lch>> /\ Unchanged

Repaired(p) == upd[p].idx = {} /\ upd[p].fix = {} /\ upd[p].miss = {}

\* delete_unconfirmed: a locked row whose output is in the UTXO set is unlocked
ScanUnlockOutput(p, r) ==
  /\ At(p, "repair") /\ Repaired(p) /\ r \in upd[p].locked
  /\ UnspendRow(upd[p].rows[r], r)
  /\ upd' = [upd EXCEPT ![p].locked = @ \ {r}]

\* delete_unconfirmed: a row that was unconfirmed when read is deleted
ScanDeleteOutput(p, r) ==
  LET o == upd[p].rows[r] IN
  /\ At(p, "repair") /\ Repaired(p) /\ upd[p].locked = {} /\ r \in upd[p].unconf
  /\ txlog' = [i \in LogIds |-> IF i = o.entry
                                  THEN [txlog[i] EXCEPT !.type = CancelledType(@)] ELSE txlog[i]]
  /\ out' = [out EXCEPT ![r] = NoRow]
  /\ upd' = [upd EXCEPT ![p].unconf = @ \ {r}]
  /\ UNCHANGED <<nextLog, nextChild, ctx, lch>> /\ Unchanged

\* Faulty variant: expiry one block late
AfterScanLate(p) ==
  IF upd[p].job = "scan" THEN UpdateIdle
  ELSE [UpdateIdle EXCEPT
          !.pc = "expire", !.job = upd[p].job, !.goal = upd[p].goal,
          !.todo = {i \in LogIds : upd[p].txs[i].ttl # 0 /\ upd[p].tip > upd[p].txs[i].ttl}]

\* Expired: the transactions read in step 2 whose TTL the tip of step 3 reached
AfterScan(p) ==
  IF upd[p].job = "scan" THEN UpdateIdle
  ELSE [UpdateIdle EXCEPT
          !.pc = "expire", !.job = upd[p].job, !.goal = upd[p].goal,
          !.todo = {i \in LogIds : upd[p].txs[i].ttl # 0 /\ upd[p].tip >= upd[p].txs[i].ttl}]

\* Faulty variant: the index is saved without comparing it with the current one
ScanAlwaysSavesIndex(p) ==
  /\ At(p, "repair") /\ Repaired(p) /\ upd[p].locked = {} /\ upd[p].unconf = {}
  /\ upd' = [upd EXCEPT ![p] = IF upd[p].found > 0 THEN [@ EXCEPT !.pc = "index"] ELSE AfterScan(p)]
  /\ UNCHANGED dbVars /\ Unchanged

\* The child index is read, and in a later section moved past the restored keys
ScanReadChildIndex(p) ==
  /\ At(p, "repair") /\ Repaired(p) /\ upd[p].locked = {} /\ upd[p].unconf = {}
  /\ upd' = [upd EXCEPT ![p] = IF upd[p].found > nextChild THEN [@ EXCEPT !.pc = "index"]
                               ELSE AfterScan(p)]
  /\ UNCHANGED dbVars /\ Unchanged

ScanSaveChildIndex(p) ==
  /\ At(p, "index")
  /\ nextChild' = upd[p].found
  /\ upd' = [upd EXCEPT ![p] = AfterScan(p)]
  /\ UNCHANGED <<out, txlog, nextLog, ctx, lch>> /\ Unchanged

\* Faulty variant: the inputs stay locked
CancelTxKeepsLocks(i) ==
  /\ out' = [r \in Rows |-> IF out[r].entry = i /\ out[r].status = "Unconfirmed" THEN NoRow ELSE out[r]]
  /\ txlog' = [txlog EXCEPT ![i].type = CancelledType(@)]

\* tx::cancel_tx and cancel_tx_and_outputs
CancelTxAndOutputs(i) ==
  /\ out' = [r \in Rows |->
               IF out[r].entry # i THEN out[r]
               ELSE IF out[r].status = "Unconfirmed" THEN NoRow
               ELSE IF out[r].status = "Locked" THEN [out[r] EXCEPT !.status = "Unspent"]
               ELSE out[r]]
  /\ txlog' = [txlog EXCEPT ![i].type = CancelledType(@)]

\* Step 5: cancel the next transaction of the list whose TTL has expired.  An
\* entry that can no longer be cancelled fails the whole update.
ExpireTx(p) ==
  LET i == Least(upd[p].todo) IN
  /\ At(p, "expire") /\ upd[p].todo # {}
  /\ IF Cancellable(txlog[i])
       THEN /\ CancelTxAndOutputs(i)
            /\ upd' = [upd EXCEPT ![p].todo = @ \ {i}]
       ELSE /\ upd' = [upd EXCEPT ![p] = UpdateIdle]
            /\ UNCHANGED <<out, txlog>>
  /\ UNCHANGED <<nextLog, nextChild, ctx, lch>> /\ Unchanged

UpdateDone(p) ==
  /\ At(p, "expire") /\ upd[p].todo = {}
  /\ upd' = [upd EXCEPT ![p] = IF upd[p].job = "cancel" THEN [@ EXCEPT !.pc = "cancel"]
                               ELSE UpdateIdle]
  /\ UNCHANGED dbVars /\ Unchanged

\* owner::cancel_tx, after its update succeeded
CancelTx(p) ==
  LET i == upd[p].goal IN
  /\ At(p, "cancel")
  /\ upd' = [upd EXCEPT ![p] = UpdateIdle]
  /\ IF Cancellable(txlog[i]) THEN CancelTxAndOutputs(i) ELSE UNCHANGED <<out, txlog>>
  /\ UNCHANGED <<nextLog, nextChild, ctx, lch>> /\ Unchanged

UpdateStep(p) ==
  \/ \E pref \in Mmr : StartUpdate(p, pref)
  \/ RetrieveOutstanding(p)
  \/ UpdateTxViaKernel(p)
  \/ KernelsDone(p)
  \/ CollectChainOutputs(p)
  \/ \E pref \in Mmr : ScanReadOutputs(p, pref)
  \/ \E r \in Rows : \/ ScanIndexOutput(p, r) \/ ScanUnspendOutput(p, r)
                      \/ RestoreMissingOutput(p, r)
                      \/ ScanUnlockOutput(p, r) \/ ScanDeleteOutput(p, r)
  \/ ScanReadChildIndex(p)
  \/ ScanSaveChildIndex(p)
  \/ ExpireTx(p)
  \/ UpdateDone(p)
  \/ CancelTx(p)

\* The node cannot be reached in the middle of an update, or the process stops:
\* the update ends where it is, what it saved stays
UpdateFails(p) ==
  /\ ~At(p, "idle") /\ outages < MaxOutages
  /\ upd' = [upd EXCEPT ![p] = UpdateIdle]
  /\ outages' = outages + 1
  /\ UNCHANGED <<dbVars, watch, slateVars, nodeVars>>

-----------------------------------------------------------------------------
(* wait_for_tx_in_mempool, and update_mempool_status after it *)

WatchUnchanged == UNCHANGED <<out, nextLog, nextChild, ctx, lch, upd, slateVars, nodeVars, outages>>

\* The mempool is read; a poll that does not find the transaction is repeated
PollMempool(s) ==
  /\ Watch /\ watch.pc = "idle" /\ Role[s] = "send" /\ s \in pool
  /\ watch' = [WatchIdle EXCEPT !.pc = "polled", !.slate = s]
  /\ UNCHANGED txlog /\ WatchUnchanged

\* The slate's entries with the excess found are read, the mutex is released
ReadWatchedEntries ==
  LET es == {i \in EntriesOf(watch.slate) : txlog[i].kernel_excess = final[watch.slate]} IN
  /\ watch.pc = "polled"
  /\ watch' = IF es = {} THEN WatchIdle
              ELSE [watch EXCEPT !.pc = "save", !.todo = es,
                                 !.snap = [i \in LogIds |-> IF i \in es THEN txlog[i] ELSE NoEntry]]
  /\ UNCHANGED txlog /\ WatchUnchanged

\* The next of them is saved as it was read, with its mempool type
SaveWatchedEntry ==
  LET i == Least(watch.todo) IN
  /\ watch.pc = "save"
  /\ txlog' = [txlog EXCEPT ![i] = [watch.snap[i] EXCEPT !.type = MempoolType(@)]]
  /\ watch' = IF watch.todo = {i} THEN [WatchIdle EXCEPT !.pc = "mark", !.slate = watch.slate]
              ELSE [watch EXCEPT !.todo = @ \ {i}]
  /\ WatchUnchanged

\* update_mempool_status: the first entry of the slate
UpdateMempoolStatus ==
  LET es == EntriesOf(watch.slate) IN
  /\ watch.pc = "mark"
  /\ txlog' = IF es = {} THEN txlog ELSE [txlog EXCEPT ![Least(es)].type = MempoolType(@)]
  /\ watch' = WatchIdle
  /\ WatchUnchanged

WatchStep == \/ \E s \in Slates : PollMempool(s)
             \/ ReadWatchedEntries
             \/ SaveWatchedEntry
             \/ UpdateMempoolStatus

-----------------------------------------------------------------------------
(* The counterparty and the node *)

ChainUnchanged == UNCHANGED <<dbVars, upd, watch, outages>>

\* The counterparty of a received slate or of a paid invoice finalises one of
\* the answers it got; it does so once, its own context is then gone
RemoteFinalize(s) ==
  /\ Role[s] \in {"receive", "pay"} /\ final[s] = NoTx
  /\ \E tx \in offers[s] : final' = [final EXCEPT ![s] = tx]
  /\ UNCHANGED <<offers, ttl, nodeVars>> /\ ChainUnchanged

\* post_tx: the node accepts a transaction whose inputs are available
PostTx(s) ==
  /\ final[s] # NoTx /\ s \notin pool \cup mined
  /\ final[s].ins \subseteq utxo \cup (UNION {final[q].outs : q \in pool})
  /\ \A q \in pool : final[q].ins \cap final[s].ins = {}
  /\ pool' = pool \cup {s}
  /\ UNCHANGED <<slateVars, tip, utxo, mmr, mined, seen, forks, cbKeys>> /\ ChainUnchanged

MineTx(s) ==
  /\ tip < MaxHeight /\ s \in pool /\ final[s].ins \subseteq utxo
  /\ tip' = tip + 1
  /\ utxo' = (utxo \ final[s].ins) \cup final[s].outs
  /\ \E j \in 1 .. (forks + 1) : mmr' = [k \in Keys |-> IF k \in final[s].outs THEN j ELSE mmr[k]]
  /\ pool' = pool \ {s}
  /\ mined' = mined \cup {s} /\ seen' = seen \cup {s}
  /\ UNCHANGED <<slateVars, forks, cbKeys>> /\ ChainUnchanged

MineCoinbase(k) ==
  /\ tip < MaxHeight /\ k \in cbKeys \ utxo
  /\ tip' = tip + 1 /\ utxo' = utxo \cup {k}
  /\ UNCHANGED <<slateVars, mmr, pool, mined, seen, forks, cbKeys>> /\ ChainUnchanged

MineEmpty ==
  /\ tip < MaxHeight /\ tip' = tip + 1
  /\ UNCHANGED <<slateVars, utxo, mmr, pool, mined, seen, forks, cbKeys>> /\ ChainUnchanged

\* A fork undoes the block of a transaction whose outputs are unspent
Fork(s) ==
  /\ forks < MaxForks /\ tip > 0 /\ s \in mined /\ final[s].outs \subseteq utxo
  /\ forks' = forks + 1 /\ tip' = tip - 1
  /\ utxo' = (utxo \ final[s].outs) \cup final[s].ins
  /\ mined' = mined \ {s}
  /\ UNCHANGED <<slateVars, mmr, pool, seen, cbKeys>> /\ ChainUnchanged

-----------------------------------------------------------------------------
Next ==
  \/ \E s \in Slates, pref \in Mmr, change \in BOOLEAN :
       InitSendTx(s, pref, change) \/ ProcessInvoiceTx(s, pref, change)
  \/ \E s \in Slates : \/ TxLockOutputs(s) \/ LockPanics(s)
                       \/ FinalizeTx(s) \/ FinalizeInvoiceTx(s)
                       \/ ReceiveTx(s) \/ IssueInvoiceTx(s)
  \/ \E k \in Keys : BuildCoinbase(k) \/ MineCoinbase(k)
  \/ \E p \in Updaters : \/ UpdateStep(p) \/ UpdateFails(p)
                         \/ \E i \in LogIds, pref \in Mmr : StartCancel(p, i, pref)
                         \/ \E pref \in Mmr : StartScan(p, pref)
  \/ WatchStep
  \/ \E s \in Slates : RemoteFinalize(s) \/ PostTx(s) \/ MineTx(s) \/ Fork(s)
  \/ MineEmpty

Spec == Init /\ [][Next]_vars

\* The wallet keeps updating itself: the updater thread loops for as long as the
\* owner API runs, and node failures do not last forever (MaxOutages)
FairSpec == Spec /\ \A p \in Updaters : WF_vars(UpdateStep(p))

-----------------------------------------------------------------------------
(* Properties *)

\* Every variable holds what the tables, threads and node of the code can hold.
TypeOK ==
  /\ out \in [Rows -> OutputData]
  /\ txlog \in [LogIds -> TxLogEntry]
  /\ nextLog \in 0 .. MaxIds /\ nextChild \in 0 .. MaxKeys
  /\ ctx \in [Slates -> Context]
  /\ lch \in Nat
  /\ upd \in [Updaters -> UpdateState]
  /\ watch \in WatchState
  /\ offers \in [Slates -> SUBSET Transaction]
  /\ final \in [Slates -> Transaction]
  /\ ttl \in [Slates -> Nat]
  /\ tip \in Nat /\ utxo \in SUBSET Keys /\ mmr \in [Keys -> Mmr \ {0}]
  /\ pool \in SUBSET Slates /\ mined \in SUBSET Slates /\ seen \in SUBSET Slates
  /\ forks \in 0 .. MaxForks /\ outages \in 0 .. MaxOutages /\ cbKeys \in SUBSET Keys

Cancelled == {"TxSentCancelled", "TxReceivedCancelled"}
Live      == {"TxSentCreated", "TxSent", "TxSentMempool", "TxReceived", "TxReceivedMempool"}

\* No false confirmation: an entry of a slate is only ever marked confirmed (by
\* an output found on chain, or by its kernel) if that slate's transaction was
\* mined, however reads and writes of the updates interleave with other calls.
ConfirmedWasMined ==
  \A i \in LogIds : txlog[i].confirmed /\ txlog[i].slate # NoSlate => txlog[i].slate \in seen

\* A cancelled transaction holds nothing: no output stays locked for it and none
\* stays expected from it (cancel_tx_and_outputs releases both).
CancelledHoldsNothing ==
  \A r \in Rows, i \in LogIds :
    out[r].entry = i /\ txlog[i].type \in Cancelled => out[r].status \notin {"Locked", "Unconfirmed"}

\* An output is in the table once: a coin with two live rows is counted twice in
\* the balance and can be selected twice as an input.
OneLiveRow ==
  \A r, q \in {x \in Rows : out[x].status \notin {"None", "Spent"}} : r[1] = q[1] => r = q

\* "In all cases either all outputs involved in a tx should be confirmed, or none
\* should be" (TxLogEntry::confirmed): no output an unconfirmed transaction
\* created is already spendable as confirmed.
AllOrNoneConfirmed ==
  \A r \in Rows, i \in LogIds :
    out[r].entry = i /\ out[r].status = "Unspent" /\ txlog[i].type \in Live => txlog[i].confirmed

Used == (UNION {c.outs : c \in UNION {offers[s] : s \in Slates}}) \cup cbKeys
          \cup {r[1] : r \in {x \in Rows : out[x].status # "None"}} \cup utxo

\* A block reward is credited once: the log never holds more coinbase entries than
\* coinbase outputs were built, however often an output is found, dropped as stale
\* and restored.
CoinbaseOnce ==
  Cardinality({i \in LogIds : txlog[i].type = "ConfirmedCoinbase"}) <= Cardinality(cbKeys)

\* "Get next available key in the wallet" (next_available_key): a key is handed
\* out once.  No call builds an output with a key that the wallet has used before,
\* whatever scans move the child index meanwhile.
KeysAreFresh ==
  [][\A s \in Slates : \A tx \in offers'[s] \ offers[s] : tx.outs \cap Used = {}]_vars

\* A confirmation is final: no step takes the confirmed mark from an entry.
ConfirmedStays ==
  [][\A i \in LogIds : txlog[i].confirmed => txlog'[i].confirmed]_vars

\* "making them unavailable for use in further transactions" (tx_lock_outputs):
\* a locked output stays locked for its transaction until it is spent or that
\* transaction is cancelled, whatever other calls and updates write meanwhile.
LockedUnavailable ==
  [][\A r \in Rows :
       out[r].status = "Locked" =>
         \/ txlog'[out[r].entry].type \in Cancelled
         \/ \E j \in Mmr : LET o == out'[<<r[1], j>>] IN
              \/ o.status = "Spent"
              \/ o.status = "Locked" /\ txlog'[o.entry].slate = txlog[out[r].entry].slate]_vars

\* "Don't do this multiple times" (process_invoice_tx): once the log holds an
\* entry for an invoice, no second payment of it is built.
InvoicePaidOnce ==
  [][\A s \in Slates : Role[s] = "pay" /\ EntriesOf(s) # {} => offers'[s] = offers[s]]_vars

\* The transaction of a live entry is on chain, as it was finalized.
MinedAndLive(i) ==
  /\ txlog[i].slate \in mined /\ txlog[i].kernel_excess = final[txlog[i].slate]
  /\ txlog[i].type \in Live

\* Once the transaction of an entry is mined the updates settle the entry; and if it is
\* the only one of its slate and no update or cancellation was under way, they mark it
\* confirmed, whatever calls, failures and TTLs follow.  One that was under way may still
\* cancel it: it read the entry before the block and compares only the TTL with the tip,
\* or the user's cancellation refreshed before the block (owner.rs, step 5 and cancel_tx).
MinedIsConfirmed ==
  \A i \in LogIds :
    /\ MinedAndLive(i) ~> (txlog[i].confirmed \/ txlog[i].type \in Cancelled)
    /\ (/\ MinedAndLive(i) /\ EntriesOf(txlog[i].slate) = {i}
        /\ \A p \in Updaters : At(p, "idle")) ~> txlog[i].confirmed

\* A transaction whose TTL has passed does not stay outstanding: the updates
\* cancel it (or find it confirmed).
ExpiredIsSettled ==
  \A i \in LogIds :
    (Outstanding(txlog[i]) /\ txlog[i].ttl # 0 /\ txlog[i].ttl <= tip) ~> ~Outstanding(txlog[i])

\* The wallet converges to the chain: from some point on every output it owns on
\* chain is spendable or locked, and nothing else is.
AgreesWithChain ==
  /\ \A k \in utxo : \E j \in Mmr : out[<<k, j>>].status \in {"Unspent", "Locked"}
  /\ \A r \in Rows : out[r].status = "Unspent" => r[1] \in utxo
EventuallyAgrees == <>[]AgreesWithChain

=============================================================================
