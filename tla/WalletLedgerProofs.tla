------------------------- MODULE WalletLedgerProofs -------------------------
(***************************************************************************)
(* Type correctness of the wallet ledger, for any slates, updating threads *)
(* and bounds; that a wallet which was not recreated from its phrase hands *)
(* out no key twice; and that a confirmation is final.  Updates save       *)
(* transaction log entries they read in an earlier critical section;       *)
(* without the mempool watch none of these writes can undo a confirmation  *)
(* made meanwhile, and the outputs of a transaction are settled with its   *)
(* entry.  With or without the watch, what is confirmed was mined.  A      *)
(* wallet that mines credits each block reward once, and one that does not *)
(* mine has every output in its table once.                                *)
(***************************************************************************)
EXTENDS WalletLedger, FiniteSetTheorems, WellFoundedInduction, TLAPS

(* The records the code builds, and the changes it makes to them *)

\* The empty rows, entries and contexts the tables start with are well typed.
LEMMA RecordTypes ==
  /\ NoRow \in OutputData /\ NoTx \in Transaction /\ NoEntry \in TxLogEntry
  /\ NoCtx \in Context
  <1>1. NoTx \in Transaction /\ NoCtx \in Context
    BY DEF NoTx, Transaction, NoCtx, Context
  <1>2. NoRow \in OutputData
    BY DEF NoRow, OutputData, OutputStatus, NoId
  <1>3. NoEntry \in TxLogEntry
    BY <1>1 DEF NoEntry, TxLogEntry, TxLogEntryType
  <1>4. QED
    BY <1>1, <1>2, <1>3

\* A thread that does nothing is in a well-typed state.
LEMMA IdleTypes == UpdateIdle \in UpdateState /\ WatchIdle \in WatchState
  <1>1. UpdateIdle \in UpdateState
    BY RecordTypes, ConstantsAssumption DEF UpdateIdle, UpdateState, NoId
  <1>2. WatchIdle \in WatchState
    BY RecordTypes DEF WatchIdle, WatchState
  <1>3. QED
    BY <1>1, <1>2

\* The status changes of an output (mark_unspent, mark_spent, lock) keep its type.
LEMMA OutputChanges ==
  ASSUME NEW o \in OutputData
  PROVE  /\ \A st \in OutputStatus : [o EXCEPT !.status = st] \in OutputData
         /\ \A i \in LogIds \cup {NoId} : [o EXCEPT !.entry = i] \in OutputData
         /\ \A st \in OutputStatus, i \in LogIds \cup {NoId} :
              [o EXCEPT !.status = st, !.entry = i] \in OutputData
         /\ MarkUnspent(o) \in OutputData /\ MarkSpent(o) \in OutputData
  <1>1. \A st \in OutputStatus : [o EXCEPT !.status = st] \in OutputData
    BY DEF OutputData
  <1>2. \A i \in LogIds \cup {NoId} : [o EXCEPT !.entry = i] \in OutputData
    BY DEF OutputData
  <1>3. \A st \in OutputStatus, i \in LogIds \cup {NoId} :
          [o EXCEPT !.status = st, !.entry = i] \in OutputData
    BY DEF OutputData
  <1>4. MarkUnspent(o) \in OutputData /\ MarkSpent(o) \in OutputData
    BY <1>1 DEF MarkUnspent, MarkSpent, OutputStatus
  <1>5. QED
    BY <1>1, <1>2, <1>3, <1>4

\* Cancelling, confirming and seeing an entry in the mempool give it an entry type.
LEMMA TypeChanges ==
  \A t \in TxLogEntryType : /\ CancelledType(t) \in TxLogEntryType
                            /\ MempoolType(t) \in TxLogEntryType
                            /\ ConfirmedType(t) \in TxLogEntryType
  BY DEF CancelledType, MempoolType, ConfirmedType, TxLogEntryType

\* The changes the calls make to a log entry keep its type.
LEMMA EntryChanges ==
  ASSUME NEW e \in TxLogEntry
  PROVE  /\ \A t \in TxLogEntryType : [e EXCEPT !.type = t] \in TxLogEntry
         /\ [e EXCEPT !.confirmed = TRUE] \in TxLogEntry
         /\ \A t \in TxLogEntryType : [e EXCEPT !.confirmed = TRUE, !.type = t] \in TxLogEntry
         /\ \A t \in TxLogEntryType : [e EXCEPT !.type = t, !.confirmed = TRUE] \in TxLogEntry
         /\ \A tx \in Transaction : [e EXCEPT !.kernel_excess = tx] \in TxLogEntry
         /\ e.type \in TxLogEntryType
  BY DEF TxLogEntry

\* Sets of output rows are finite, so the log ids taken for them can be counted.
LEMMA FiniteRows == \A S \in SUBSET Rows : IsFiniteSet(S) /\ Cardinality(S) \in Nat
  <1>1. IsFiniteSet(Keys) /\ IsFiniteSet(Mmr)
    BY FS_Interval, ConstantsAssumption DEF Keys, Mmr, MaxMmr
  <1>2. IsFiniteSet(Rows)
    BY <1>1, FS_Product DEF Rows
  <1>3. QED
    BY <1>2, FS_Subset, FS_CardinalityType

\* refresh_outputs leaves the tables, the next log id and the height well typed.
LEMMA RefreshType ==
  ASSUME TypeOK, NEW m \in SUBSET Rows, NEW ids \in CoinbaseIds(m)
  PROVE  /\ RefreshedOut(m, ids) \in [Rows -> OutputData]
         /\ RefreshOutputs(m, ids) =>
              /\ out' \in [Rows -> OutputData] /\ txlog' \in [LogIds -> TxLogEntry]
              /\ nextLog' \in 0 .. MaxIds /\ lch' \in Nat
  <1>1. out \in [Rows -> OutputData] /\ txlog \in [LogIds -> TxLogEntry]
    BY DEF TypeOK
  <1>2. \A r \in NewCoinbases(m) : ids[r] \in LogIds
    BY DEF CoinbaseIds
  <1>3. ApplyOut(m, ids) \in [Rows -> OutputData]
    <2>1. ASSUME NEW r \in Rows PROVE ApplyOut(m, ids)[r] \in OutputData
      <3>1. out[r] \in OutputData
        BY <1>1
      <3>2. r \in NewCoinbases(m) => [out[r] EXCEPT !.entry = ids[r]] \in OutputData
        BY <1>2, <3>1, OutputChanges
      <3>3. r \in NewCoinbases(m) => MarkUnspent([out[r] EXCEPT !.entry = ids[r]]) \in OutputData
        BY <3>2, OutputChanges
      <3>4. MarkUnspent(out[r]) \in OutputData /\ MarkSpent(out[r]) \in OutputData
        BY <3>1, OutputChanges
      <3>5. QED
        BY <3>1, <3>3, <3>4 DEF ApplyOut
    <2>2. QED
      BY <2>1 DEF ApplyOut
  <1>4. \A o \in [Rows -> OutputData] : CleanOldUnconfirmed(o) \in [Rows -> OutputData]
    BY RecordTypes DEF CleanOldUnconfirmed
  <1>5. RefreshedOut(m, ids) \in [Rows -> OutputData]
    BY <1>1, <1>3, <1>4 DEF RefreshedOut
  <1>6. ApplyLog(m, ids) \in [LogIds -> TxLogEntry]
    <2>1. ASSUME NEW i \in LogIds PROVE ApplyLog(m, ids)[i] \in TxLogEntry
      <3>1. [NoEntry EXCEPT !.type = "ConfirmedCoinbase", !.confirmed = TRUE] \in TxLogEntry
        BY RecordTypes, EntryChanges DEF TxLogEntryType
      <3>2. [txlog[i] EXCEPT !.confirmed = TRUE, !.type = ConfirmedType(txlog[i].type)] \in TxLogEntry
        BY <1>1, EntryChanges, TypeChanges
      <3>3. QED
        BY <1>1, <3>1, <3>2 DEF ApplyLog
    <2>2. QED
      BY <2>1 DEF ApplyLog
  <1>7. RefreshedLog(m, ids) \in [LogIds -> TxLogEntry]
    BY <1>1, <1>6 DEF RefreshedLog
  <1>8. Cardinality(NewCoinbases(m)) \in Nat
    BY FiniteRows DEF NewCoinbases
  <1>9. RefreshOutputs(m, ids) => nextLog' \in 0 .. MaxIds /\ lch' \in Nat
    BY <1>8, ConstantsAssumption DEF RefreshOutputs, TypeOK, MaxIds
  <1>10. QED
    BY <1>5, <1>7, <1>9 DEF RefreshOutputs

\* map_wallet_outputs returns rows of the output table.
LEMMA MapType == \A pref : MapWalletOutputs(pref) \in SUBSET Rows
  BY DEF MapWalletOutputs, OneRowPerKey

-----------------------------------------------------------------------------
(* One lemma per group of actions *)

\* init_send_tx and process_invoice_tx.
LEMMA AddInputsType ==
  ASSUME TypeOK, NEW s \in Slates, NEW pref \in Mmr, NEW change \in BOOLEAN,
         AddInputs(s, pref, change)
  PROVE  TypeOK'
  <1> DEFINE m == MapWalletOutputs(pref)
             outs == IF change THEN {nextChild} ELSE {}
  <1>0. m \in SUBSET Rows
    BY MapType
  <1>1. PICK ids \in CoinbaseIds(m) :
          \E ins \in SUBSET {r \in Rows : EligibleToSpend(RefreshedOut(m, ids)[r])} :
            /\ RefreshOutputs(m, ids)
            /\ change => nextChild < MaxKeys
            /\ nextChild' = IF change THEN nextChild + 1 ELSE nextChild
            /\ ctx' = [ctx EXCEPT ![s] = [ins |-> ins, outs |-> outs]]
            /\ offers' = [offers EXCEPT ![s] = @ \cup {[ins |-> {r[1] : r \in ins}, outs |-> outs]}]
            /\ ttl' = [ttl EXCEPT ![s] = IF SendTtl = 0 THEN @ ELSE tip + SendTtl]
            /\ UNCHANGED <<upd, watch, final, nodeVars, outages>>
    BY DEF AddInputs
  <1>2. PICK ins \in SUBSET Rows :
            /\ RefreshOutputs(m, ids)
            /\ change => nextChild < MaxKeys
            /\ nextChild' = IF change THEN nextChild + 1 ELSE nextChild
            /\ ctx' = [ctx EXCEPT ![s] = [ins |-> ins, outs |-> outs]]
            /\ offers' = [offers EXCEPT ![s] = @ \cup {[ins |-> {r[1] : r \in ins}, outs |-> outs]}]
            /\ ttl' = [ttl EXCEPT ![s] = IF SendTtl = 0 THEN @ ELSE tip + SendTtl]
            /\ UNCHANGED <<upd, watch, final, nodeVars, outages>>
    BY <1>1
  <1>3. /\ out' \in [Rows -> OutputData] /\ txlog' \in [LogIds -> TxLogEntry]
        /\ nextLog' \in 0 .. MaxIds /\ lch' \in Nat
    BY <1>0, <1>2, RefreshType
  <1>4. nextChild' \in 0 .. MaxKeys /\ outs \in SUBSET Keys
    BY <1>2, ConstantsAssumption DEF TypeOK, Keys
  <1>5. ctx' \in [Slates -> Context]
    BY <1>2, <1>4 DEF TypeOK, Context
  <1>6. [ins |-> {r[1] : r \in ins}, outs |-> outs] \in Transaction
    BY <1>4 DEF Transaction, Rows
  <1>7. offers' \in [Slates -> SUBSET Transaction]
    BY <1>2, <1>6 DEF TypeOK
  <1>8. ttl' \in [Slates -> Nat]
    BY <1>2, ConstantsAssumption DEF TypeOK
  <1>9. QED
    BY <1>2, <1>3, <1>4, <1>5, <1>7, <1>8 DEF TypeOK, nodeVars

\* tx_lock_outputs, and its panic.
LEMMA LockType ==
  ASSUME TypeOK, NEW s \in Slates, TxLockOutputs(s) \/ LockPanics(s)
  PROVE  TypeOK'
  <1>0. nextLog < MaxTxs
    BY DEF TxLockOutputs, LockPanics
  <1>1. nextLog \in LogIds /\ nextLog + 1 \in 0 .. MaxIds
    BY <1>0, ConstantsAssumption DEF TypeOK, LogIds, MaxIds
  <1>2. \A r \in Rows : [out[r] EXCEPT !.status = "Locked", !.entry = nextLog] \in OutputData
    BY <1>1, OutputChanges DEF TypeOK, OutputStatus
  <1>3. CASE TxLockOutputs(s)
    <2> DEFINE c  == ctx[s]
               tx == [ins |-> {r[1] : r \in c.ins}, outs |-> c.outs]
    <2>1. tx \in Transaction
      BY DEF TypeOK, Context, Transaction, Rows
    <2>2. [NoRow EXCEPT !.status = "Unconfirmed", !.entry = nextLog] \in OutputData
      BY <1>1, RecordTypes, OutputChanges DEF OutputStatus
    <2>3. out' \in [Rows -> OutputData]
      BY <1>2, <1>3, <2>2 DEF TypeOK, TxLockOutputs
    <2>4. \A excess \in {tx, NoTx} :
            [type |-> "TxSentCreated", slate |-> s, confirmed |-> FALSE, ttl |-> ttl[s],
             kernel_excess |-> excess, both |-> c.outs # {}] \in TxLogEntry
      <3>1. ASSUME NEW excess \in Transaction, NEW both \in BOOLEAN
            PROVE  [type |-> "TxSentCreated", slate |-> s, confirmed |-> FALSE, ttl |-> ttl[s],
                    kernel_excess |-> excess, both |-> both] \in TxLogEntry
        BY DEF TypeOK, TxLogEntry, TxLogEntryType
      <3>2. QED
        BY <2>1, <3>1, RecordTypes
    <2>5. txlog' \in [LogIds -> TxLogEntry]
      <3>1. PICK excess \in {tx, NoTx} :
              txlog' = [txlog EXCEPT ![nextLog] =
                          [type |-> "TxSentCreated", slate |-> s, confirmed |-> FALSE,
                           ttl |-> ttl[s], kernel_excess |-> excess, both |-> c.outs # {}]]
        BY <1>3 DEF TxLockOutputs
      <3>2. QED
        BY <2>4, <3>1 DEF TypeOK
    <2>6. QED
      BY <1>1, <1>3, <2>3, <2>5 DEF TypeOK, TxLockOutputs, slateVars, nodeVars
  <1>4. CASE LockPanics(s)
    <2>1. out' \in [Rows -> OutputData]
      BY ZenonT(30), <1>2, <1>4 DEF TypeOK, LockPanics
    <2>2. QED
      BY <1>1, <1>4, <2>1 DEF TypeOK, LockPanics, slateVars, nodeVars
  <1>5. QED
    BY <1>3, <1>4

\* finalize_tx and finalize_invoice_tx.
LEMMA FinalizeType ==
  ASSUME TypeOK, NEW s \in Slates, NEW types, Finalize(s, types)
  PROVE  TypeOK'
  <1>1. PICK tx \in offers[s] : UpdateStoredTx(s, types, tx) /\ final' = [final EXCEPT ![s] = tx]
    BY DEF Finalize
  <1>2. tx \in Transaction
    BY DEF TypeOK
  <1>3. txlog' \in [LogIds -> TxLogEntry]
    <2>1. \A i \in LogIds : [txlog[i] EXCEPT !.kernel_excess = tx] \in TxLogEntry
      BY <1>2, EntryChanges DEF TypeOK
    <2>2. QED
      BY <1>1, <2>1 DEF TypeOK, UpdateStoredTx
  <1>4. QED
    BY <1>1, <1>2, <1>3, RecordTypes DEF TypeOK, Finalize, nodeVars

\* receive_tx and issue_invoice_tx.
LEMMA ReceiveType ==
  ASSUME TypeOK, NEW s \in Slates, ReceiveTx(s) \/ IssueInvoiceTx(s)
  PROVE  TypeOK'
  <1> DEFINE tx == [ins |-> {}, outs |-> {nextChild}]
  <1>1. PICK excess \in {tx, NoTx} : BuildRecipientOutput(s, excess)
    BY DEF ReceiveTx, IssueInvoiceTx
  <1>2. nextChild < MaxKeys /\ nextLog < MaxTxs
    BY <1>1 DEF BuildRecipientOutput
  <1>3. /\ nextLog \in LogIds /\ nextLog + 1 \in 0 .. MaxIds
        /\ nextChild \in Keys /\ nextChild + 1 \in 0 .. MaxKeys
    BY <1>2, ConstantsAssumption DEF TypeOK, LogIds, MaxIds, Keys
  <1>4. tx \in Transaction
    BY <1>3 DEF Transaction
  <1>5. [type |-> "TxReceived", slate |-> s, confirmed |-> FALSE, ttl |-> ttl[s],
         kernel_excess |-> excess, both |-> FALSE] \in TxLogEntry
    <2>1. excess \in Transaction
      BY <1>4, RecordTypes
    <2>2. QED
      BY <2>1 DEF TypeOK, TxLogEntry, TxLogEntryType
  <1>6. txlog' \in [LogIds -> TxLogEntry]
    BY <1>1, <1>5 DEF TypeOK, BuildRecipientOutput
  <1>7. out' \in [Rows -> OutputData]
    <2>1. [NoRow EXCEPT !.status = "Unconfirmed", !.entry = nextLog] \in OutputData
      BY <1>3, RecordTypes, OutputChanges DEF OutputStatus
    <2>2. QED
      BY <1>1, <2>1 DEF TypeOK, BuildRecipientOutput
  <1>8. offers' \in [Slates -> SUBSET Transaction]
    BY <1>1, <1>4 DEF TypeOK, BuildRecipientOutput
  <1>9. ctx' \in [Slates -> Context]
    <2>1. [ins |-> {}, outs |-> {nextChild}] \in Context
      BY <1>3 DEF Context
    <2>2. QED
      BY <2>1 DEF TypeOK, ReceiveTx, IssueInvoiceTx
  <1>10. QED
    BY <1>1, <1>3, <1>6, <1>7, <1>8, <1>9 DEF TypeOK, BuildRecipientOutput, nodeVars

\* build_coinbase.
LEMMA CoinbaseType ==
  ASSUME TypeOK, NEW k \in Keys, BuildCoinbase(k)
  PROVE  TypeOK'
  <1>1. nextChild' \in 0 .. MaxKeys
    BY ConstantsAssumption DEF TypeOK, BuildCoinbase, Keys
  <1>2. [status |-> "Unconfirmed", entry |-> NoId, cb |-> TRUE, height |-> tip + 1] \in OutputData
    BY DEF TypeOK, OutputData, OutputStatus
  <1>3. out' \in [Rows -> OutputData]
    BY <1>2 DEF TypeOK, BuildCoinbase
  <1>4. QED
    BY <1>1, <1>3 DEF TypeOK, BuildCoinbase, slateVars

\* A step of an update that leaves the database alone.
LEMMA UpdOnly ==
  ASSUME TypeOK, NEW p \in Updaters, NEW u \in UpdateState,
         upd' = [upd EXCEPT ![p] = u], UNCHANGED dbVars, Unchanged
  PROVE  TypeOK'
  BY DEF TypeOK, dbVars, Unchanged, slateVars, nodeVars

\* Step 1 of an update, of a cancellation and of a scan.
LEMMA UpdateOutputsType ==
  ASSUME TypeOK, NEW p \in Updaters, NEW job \in {"update", "cancel", "scan"},
         NEW goal \in LogIds \cup {NoId}, NEW pref \in Mmr, UpdateOutputs(p, job, goal, pref)
  PROVE  TypeOK'
  <1> DEFINE m == MapWalletOutputs(pref)
  <1>0. m \in SUBSET Rows
    BY MapType
  <1>1. PICK ids \in CoinbaseIds(m) : RefreshOutputs(m, ids)
    BY DEF UpdateOutputs
  <1>2. /\ out' \in [Rows -> OutputData] /\ txlog' \in [LogIds -> TxLogEntry]
        /\ nextLog' \in 0 .. MaxIds /\ lch' \in Nat
    BY <1>0, <1>1, RefreshType
  <1>3. upd' \in [Updaters -> UpdateState]
    <2> DEFINE pc == IF job = "scan" THEN "chain" ELSE "outstanding"
    <2>1. upd[p] \in UpdateState
      BY DEF TypeOK
    <2>2. [upd[p] EXCEPT !.pc = pc, !.job = job, !.goal = goal] \in UpdateState
      <3> HIDE DEF pc
      <3>1. pc \in {"chain", "outstanding"}
        BY DEF pc
      <3>2. QED
        BY <2>1, <3>1 DEF UpdateState
    <2>3. upd' = [upd EXCEPT ![p] = [upd[p] EXCEPT !.pc = pc, !.job = job, !.goal = goal]]
      BY DEF TypeOK, UpdateOutputs
    <2>4. QED
      BY <2>2, <2>3 DEF TypeOK
  <1>4. QED
    BY <1>2, <1>3 DEF TypeOK, UpdateOutputs, Unchanged, slateVars, nodeVars

\* Step 2: the outstanding transactions and their kernels.
LEMMA KernelsType ==
  ASSUME TypeOK, NEW p \in Updaters,
         RetrieveOutstanding(p) \/ UpdateTxViaKernel(p) \/ KernelsDone(p)
  PROVE  TypeOK'
  <1> DEFINE u == upd[p]
  <1>0. u \in UpdateState
    BY DEF TypeOK
  <1>1. CASE RetrieveOutstanding(p)
    <2> DEFINE os == {i \in LogIds : Outstanding(txlog[i])}
               f  == [i \in LogIds |-> IF i \in os THEN txlog[i] ELSE NoEntry]
               v  == [u EXCEPT !.pc = "kernels", !.todo = os, !.txs = f]
    <2>1. os \in SUBSET LogIds /\ f \in [LogIds -> TxLogEntry]
      BY RecordTypes DEF TypeOK
    <2>2. v \in UpdateState
      <3> HIDE DEF os, f, u
      <3> QED BY <1>0, <2>1 DEF UpdateState
    <2>3. upd' = [upd EXCEPT ![p] = v]
      BY <1>1 DEF TypeOK, RetrieveOutstanding
    <2>4. QED
      BY <1>1, <2>2, <2>3, UpdOnly DEF RetrieveOutstanding
  <1>2. CASE UpdateTxViaKernel(p)
    <2> DEFINE i == Least(u.todo)
               t == u.txs[i]
               c == [t EXCEPT !.confirmed = TRUE]
               todo == u.todo \ {i}
               f == [u.txs EXCEPT ![i] = c]
    <2>1. todo \in SUBSET LogIds
      BY <1>0 DEF UpdateState
    <2>2. i \in LogIds => c \in TxLogEntry
      BY <1>0, EntryChanges DEF UpdateState
    <2>3. f \in [LogIds -> TxLogEntry]
      BY <1>0, <2>2 DEF UpdateState
    <2>4. [u EXCEPT !.todo = todo] \in UpdateState /\ [u EXCEPT !.todo = todo, !.txs = f] \in UpdateState
      <3> HIDE DEF u, todo, f
      <3> QED BY <1>0, <2>1, <2>3 DEF UpdateState
    <2>5. \/ upd' = [upd EXCEPT ![p] = [u EXCEPT !.todo = todo]] /\ txlog' = txlog
          \/ upd' = [upd EXCEPT ![p] = [u EXCEPT !.todo = todo, !.txs = f]]
             /\ txlog' = [txlog EXCEPT ![i] = c]
      BY <1>0, <1>2 DEF TypeOK, UpdateTxViaKernel, UpdateState
    <2>6. upd' \in [Updaters -> UpdateState] /\ txlog' \in [LogIds -> TxLogEntry]
      <3> HIDE DEF i, c, f, todo, u
      <3> QED BY <2>2, <2>4, <2>5 DEF TypeOK
    <2>7. QED
      BY <1>2, <2>6 DEF TypeOK, UpdateTxViaKernel, Unchanged, slateVars, nodeVars
  <1>3. CASE KernelsDone(p)
    <2>1. [u EXCEPT !.pc = "chain"] \in UpdateState
      BY <1>0 DEF UpdateState
    <2>2. QED
      BY <1>3, <2>1, UpdOnly DEF TypeOK, KernelsDone
  <1>4. QED
    BY <1>1, <1>2, <1>3

\* The two reads of a scan.
LEMMA ScanReadType ==
  ASSUME TypeOK, NEW p \in Updaters, NEW pref \in Mmr,
         CollectChainOutputs(p) \/ ScanReadOutputs(p, pref)
  PROVE  TypeOK'
  <1> DEFINE u == upd[p]
  <1>0. u \in UpdateState
    BY DEF TypeOK
  <1>1. CASE CollectChainOutputs(p)
    <2> DEFINE ch == {<<k, mmr[k]>> : k \in utxo}
    <2>1. ch \in SUBSET Rows
      BY DEF TypeOK, Rows
    <2>2. [u EXCEPT !.pc = "wallet", !.tip = tip, !.chain = ch] \in UpdateState
      <3> HIDE DEF u, ch
      <3> QED BY <1>0, <2>1 DEF TypeOK, UpdateState
    <2>3. upd' = [upd EXCEPT ![p] = [u EXCEPT !.pc = "wallet", !.tip = tip, !.chain = ch]]
      BY <1>1 DEF TypeOK, CollectChainOutputs
    <2>4. QED
      BY <1>1, <2>2, <2>3, UpdOnly DEF CollectChainOutputs
  <1>2. CASE ScanReadOutputs(p, pref)
    <2> DEFINE
      on(r)   == \E q \in u.chain : q[1] = r[1]
      matched == {r \in OneRowPerKey({r \in Rows : out[r].status # "None"}, pref) : on(r)}
      idx     == matched \ u.chain
      fix     == {r \in matched : out[r].status = "Spent"}
      locked  == {r \in matched : out[r].status = "Locked" /\ u.job = "scan"}
      unconf  == {r \in Rows : out[r].status = "Unconfirmed" /\ u.job = "scan"}
      keep    == idx \cup fix \cup locked \cup unconf
      chain   == {q \in u.chain : \E r \in idx : r[1] = q[1]}
      rows    == [r \in Rows |-> IF r \in keep THEN out[r] ELSE NoRow]
      miss    == {q \in u.chain : \A r \in matched : r[1] # q[1]}
      v       == [u EXCEPT !.pc = "repair", !.chain = chain, !.rows = rows, !.idx = idx,
                           !.fix = fix, !.miss = miss, !.locked = locked, !.unconf = unconf]
    <2>1. matched \in SUBSET Rows /\ u.chain \in SUBSET Rows
      BY <1>0 DEF OneRowPerKey, UpdateState
    <2>2. /\ idx \in SUBSET Rows /\ fix \in SUBSET Rows /\ locked \in SUBSET Rows
          /\ unconf \in SUBSET Rows /\ chain \in SUBSET Rows /\ miss \in SUBSET Rows
      <3> HIDE DEF matched
      <3> QED BY <2>1
    <2>3. rows \in [Rows -> OutputData]
      <3> HIDE DEF keep
      <3> QED BY RecordTypes DEF TypeOK
    <2>4. v \in UpdateState
      <3> HIDE DEF u, idx, fix, locked, unconf, chain, miss, rows
      <3> QED BY <1>0, <2>2, <2>3 DEF UpdateState
    <2>5. upd' = [upd EXCEPT ![p] = v]
      <3>1. upd' = [upd EXCEPT ![p].pc = "repair", ![p].chain = chain, ![p].rows = rows,
                               ![p].idx = idx, ![p].fix = fix, ![p].miss = miss,
                               ![p].locked = locked, ![p].unconf = unconf]
        BY <1>2 DEF ScanReadOutputs
      <3> HIDE DEF idx, fix, locked, unconf, chain, miss, rows
      <3> QED BY <3>1 DEF TypeOK
    <2>6. QED
      <3> HIDE DEF v
      <3> QED BY <1>2, <2>4, <2>5, UpdOnly DEF ScanReadOutputs
  <1>3. QED
    BY <1>1, <1>2

\* Striking rows off the work lists of a scan keeps an updater well typed.
LEMMA UpdChanges ==
  ASSUME NEW u \in UpdateState, NEW S \in SUBSET Rows
  PROVE  /\ [u EXCEPT !.idx = @ \ S] \in UpdateState /\ [u EXCEPT !.fix = @ \ S] \in UpdateState
         /\ [u EXCEPT !.locked = @ \ S] \in UpdateState /\ [u EXCEPT !.unconf = @ \ S] \in UpdateState
  BY DEF UpdateState

\* The writes of a scan.
LEMMA ScanWriteType ==
  ASSUME TypeOK, NEW p \in Updaters, NEW r \in Rows,
         \/ ScanIndexOutput(p, r) \/ ScanUnspendOutput(p, r) \/ RestoreMissingOutput(p, r)
         \/ ScanUnlockOutput(p, r) \/ ScanDeleteOutput(p, r)
  PROVE  TypeOK'
  <1> DEFINE u == upd[p]
             o == u.rows[r]
  <1>0. u \in UpdateState /\ o \in OutputData
    BY DEF TypeOK, UpdateState
  <1>1. \A e : [i \in LogIds |-> IF i = e THEN [txlog[i] EXCEPT !.type = CancelledType(@)]
                                  ELSE txlog[i]] \in [LogIds -> TxLogEntry]
    <2>1. \A i \in LogIds : [txlog[i] EXCEPT !.type = CancelledType(@)] \in TxLogEntry
      BY EntryChanges, TypeChanges DEF TypeOK
    <2>2. QED
      BY <2>1 DEF TypeOK
  <1>2. UnspendRow(o, r) => out' \in [Rows -> OutputData] /\ txlog' \in [LogIds -> TxLogEntry]
    <2>1. [o EXCEPT !.status = "Unspent"] \in OutputData
      BY <1>0, OutputChanges DEF OutputStatus
    <2>2. QED
      <3> HIDE DEF o, u
      <3>1. UnspendRow(o, r) => out' \in [Rows -> OutputData]
        BY <2>1 DEF TypeOK, UnspendRow
      <3>2. UnspendRow(o, r) => txlog' \in [LogIds -> TxLogEntry]
        BY ZenonT(30), <1>1 DEF UnspendRow
      <3>3. QED
        BY <3>1, <3>2
  <1>3. CASE ScanIndexOutput(p, r)
    <2>1. out' \in [Rows -> OutputData]
      <3>1. PICK q \in u.chain :
              out' = [out EXCEPT ![r] = IF r[2] = 0 THEN NoRow ELSE @, ![q] = o]
        BY <1>3 DEF ScanIndexOutput
      <3>2. [out EXCEPT ![r] = IF r[2] = 0 THEN NoRow ELSE @] \in [Rows -> OutputData]
        BY RecordTypes DEF TypeOK
      <3>3. QED
        BY <1>0, <3>1, <3>2
    <2>2. upd' \in [Updaters -> UpdateState]
      <3>1. upd' = [upd EXCEPT ![p] = [u EXCEPT !.idx = @ \ {r}]]
        BY <1>3 DEF TypeOK, ScanIndexOutput
      <3>2. QED
        BY <1>0, <3>1, UpdChanges DEF TypeOK
    <2>3. QED
      BY <1>3, <2>1, <2>2 DEF TypeOK, ScanIndexOutput, Unchanged, slateVars, nodeVars
  <1>4. CASE ScanUnspendOutput(p, r)
    <2>1. upd' \in [Updaters -> UpdateState]
      <3>1. upd' = [upd EXCEPT ![p] = [u EXCEPT !.fix = @ \ {r}]]
        BY <1>4 DEF TypeOK, ScanUnspendOutput
      <3>2. QED
        BY <1>0, <3>1, UpdChanges DEF TypeOK
    <2>2. QED
      BY <1>2, <1>4, <2>1 DEF TypeOK, ScanUnspendOutput, UnspendRow, Unchanged, slateVars, nodeVars
  <1>5. CASE ScanUnlockOutput(p, r)
    <2>1. upd' \in [Updaters -> UpdateState]
      <3>1. upd' = [upd EXCEPT ![p] = [u EXCEPT !.locked = @ \ {r}]]
        BY <1>5 DEF TypeOK, ScanUnlockOutput
      <3>2. QED
        BY <1>0, <3>1, UpdChanges DEF TypeOK
    <2>2. QED
      BY <1>2, <1>5, <2>1 DEF TypeOK, ScanUnlockOutput, UnspendRow, Unchanged, slateVars, nodeVars
  <1>6. CASE ScanDeleteOutput(p, r)
    <2>1. upd' \in [Updaters -> UpdateState]
      <3>1. upd' = [upd EXCEPT ![p] = [u EXCEPT !.unconf = @ \ {r}]]
        BY <1>6 DEF TypeOK, ScanDeleteOutput
      <3>2. QED
        BY <1>0, <3>1, UpdChanges DEF TypeOK
    <2>2. out' \in [Rows -> OutputData] /\ txlog' \in [LogIds -> TxLogEntry]
      <3>1. out' = [out EXCEPT ![r] = NoRow]
        BY <1>6 DEF ScanDeleteOutput
      <3>2. txlog' = [i \in LogIds |-> IF i = o.entry
                        THEN [txlog[i] EXCEPT !.type = CancelledType(@)] ELSE txlog[i]]
        BY <1>6 DEF ScanDeleteOutput
      <3>3. QED
        BY <1>1, <3>1, <3>2, RecordTypes DEF TypeOK
    <2>3. QED
      BY <1>6, <2>1, <2>2 DEF TypeOK, ScanDeleteOutput, Unchanged, slateVars, nodeVars
  <1>7. CASE RestoreMissingOutput(p, r)
    <2> DEFINE k == r[1]
    <2>0. nextLog < MaxIds
      BY <1>7 DEF RestoreMissingOutput
    <2>1. nextLog \in LogIds /\ nextLog + 1 \in 0 .. MaxIds /\ k \in Keys
      BY <2>0, ConstantsAssumption DEF TypeOK, LogIds, MaxIds, Rows
    <2>2. txlog' \in [LogIds -> TxLogEntry]
      <3>1. \A t \in TxLogEntryType : [NoEntry EXCEPT !.type = t, !.confirmed = TRUE] \in TxLogEntry
        BY RecordTypes, EntryChanges
      <3>2. QED
        BY <1>7, <3>1 DEF TypeOK, RestoreMissingOutput, TxLogEntryType
    <2>3. out' \in [Rows -> OutputData]
      <3>1. \A b \in BOOLEAN :
              [status |-> "Unspent", entry |-> nextLog, cb |-> b, height |-> 0] \in OutputData
        BY <2>1 DEF OutputData, OutputStatus
      <3>2. out' = [out EXCEPT ![r] =
                      [status |-> "Unspent", entry |-> nextLog, cb |-> k \in cbKeys, height |-> 0]]
        BY <1>7 DEF RestoreMissingOutput
      <3>3. (k \in cbKeys) \in BOOLEAN
        OBVIOUS
      <3>4. QED
        BY <3>1, <3>2, <3>3 DEF TypeOK
    <2>4. upd' \in [Updaters -> UpdateState]
      <3> DEFINE found == IF k >= u.found THEN k + 1 ELSE u.found
                 miss  == u.miss \ {r}
      <3>1. found \in 0 .. MaxKeys /\ miss \in SUBSET Rows
        BY <1>0, <2>1, ConstantsAssumption DEF UpdateState, Keys
      <3>2. upd' = [upd EXCEPT ![p] = [u EXCEPT !.miss = miss, !.found = found]]
        BY <1>7 DEF TypeOK, RestoreMissingOutput
      <3>3. [u EXCEPT !.miss = miss, !.found = found] \in UpdateState
        <4> HIDE DEF u, miss, found
        <4> QED BY <1>0, <3>1 DEF UpdateState
      <3>4. QED
        BY <3>2, <3>3 DEF TypeOK
    <2>5. QED
      BY <1>7, <2>1, <2>2, <2>3, <2>4
         DEF TypeOK, RestoreMissingOutput, Unchanged, slateVars, nodeVars
  <1>8. QED
    BY <1>3, <1>4, <1>5, <1>6, <1>7

\* What update_wallet_state carries past its scan is well typed.
LEMMA AfterScanType == ASSUME TypeOK, NEW p \in Updaters PROVE AfterScan(p) \in UpdateState
  <1> DEFINE todo == {i \in LogIds : upd[p].txs[i].ttl # 0 /\ upd[p].tip >= upd[p].txs[i].ttl}
  <1>1. upd[p] \in UpdateState
    BY DEF TypeOK
  <1>2. [UpdateIdle EXCEPT !.pc = "expire", !.job = upd[p].job, !.goal = upd[p].goal,
                           !.todo = todo] \in UpdateState
    <2>1. todo \in SUBSET LogIds
      OBVIOUS
    <2> HIDE DEF todo
    <2>2. QED
      BY <1>1, <2>1, IdleTypes DEF UpdateState
  <1>3. QED
    BY <1>2, IdleTypes DEF AfterScan

\* cancel_tx_and_outputs keeps the types of the output table and of the log.
LEMMA CancelType ==
  ASSUME TypeOK, NEW i, CancelTxAndOutputs(i)
  PROVE  out' \in [Rows -> OutputData] /\ txlog' \in [LogIds -> TxLogEntry]
  <1>1. i \in LogIds => [txlog[i] EXCEPT !.type = CancelledType(@)] \in TxLogEntry
    BY EntryChanges, TypeChanges DEF TypeOK
  <1>2. \A r \in Rows : [out[r] EXCEPT !.status = "Unspent"] \in OutputData
    BY OutputChanges DEF TypeOK, OutputStatus
  <1>3. out' \in [Rows -> OutputData]
    BY <1>2, RecordTypes DEF TypeOK, CancelTxAndOutputs
  <1>4. txlog' = [txlog EXCEPT ![i] = [txlog[i] EXCEPT !.type = CancelledType(@)]]
    BY DEF CancelTxAndOutputs, TypeOK
  <1>5. txlog' \in [LogIds -> TxLogEntry]
    BY <1>1, <1>4 DEF TypeOK
  <1>6. QED
    BY <1>3, <1>5

\* The child index, the expiry of transactions, the end of an update.
LEMMA UpdateEndType ==
  ASSUME TypeOK, NEW p \in Updaters,
         \/ ScanReadChildIndex(p) \/ ScanSaveChildIndex(p) \/ ExpireTx(p)
         \/ UpdateDone(p) \/ CancelTx(p) \/ UpdateFails(p)
  PROVE  TypeOK'
  <1> DEFINE u == upd[p]
  <1>0. u \in UpdateState /\ UpdateIdle \in UpdateState /\ AfterScan(p) \in UpdateState
    BY AfterScanType, IdleTypes DEF TypeOK
  <1>1. CASE ScanReadChildIndex(p)
    <2>1. [u EXCEPT !.pc = "index"] \in UpdateState
      BY <1>0 DEF UpdateState
    <2>2. QED
      BY <1>0, <1>1, <2>1, UpdOnly DEF ScanReadChildIndex
  <1>2. CASE ScanSaveChildIndex(p)
    <2>1. u.found \in 0 .. MaxKeys
      BY <1>0 DEF UpdateState
    <2>2. upd' \in [Updaters -> UpdateState]
      BY <1>0, <1>2 DEF TypeOK, ScanSaveChildIndex
    <2>3. QED
      BY <1>2, <2>1, <2>2 DEF TypeOK, ScanSaveChildIndex, Unchanged, slateVars, nodeVars
  <1>3. CASE ExpireTx(p)
    <2> DEFINE i == Least(u.todo)
    <2>1. [u EXCEPT !.todo = @ \ {i}] \in UpdateState
      BY <1>0 DEF UpdateState
    <2>2. upd' \in [Updaters -> UpdateState]
      <3>1. \/ upd' = [upd EXCEPT ![p] = [u EXCEPT !.todo = @ \ {i}]]
            \/ upd' = [upd EXCEPT ![p] = UpdateIdle]
        BY <1>3 DEF TypeOK, ExpireTx
      <3>2. QED
        BY <1>0, <2>1, <3>1 DEF TypeOK
    <2>3. out' \in [Rows -> OutputData] /\ txlog' \in [LogIds -> TxLogEntry]
      BY <1>3, CancelType DEF TypeOK, ExpireTx
    <2>4. QED
      BY <1>3, <2>2, <2>3 DEF TypeOK, ExpireTx, Unchanged, slateVars, nodeVars
  <1>4. CASE UpdateDone(p)
    <2>1. [u EXCEPT !.pc = "cancel"] \in UpdateState
      BY <1>0 DEF UpdateState
    <2>2. QED
      BY <1>0, <1>4, <2>1, UpdOnly DEF UpdateDone
  <1>5. CASE CancelTx(p)
    <2>1. out' \in [Rows -> OutputData] /\ txlog' \in [LogIds -> TxLogEntry]
      BY <1>5, CancelType DEF TypeOK, CancelTx
    <2>2. upd' \in [Updaters -> UpdateState]
      BY <1>0, <1>5 DEF TypeOK, CancelTx
    <2>3. QED
      BY <1>5, <2>1, <2>2 DEF TypeOK, CancelTx, Unchanged, slateVars, nodeVars
  <1>6. CASE UpdateFails(p)
    <2>1. upd' \in [Updaters -> UpdateState] /\ outages' \in 0 .. MaxOutages
      BY <1>0, <1>6, ConstantsAssumption DEF TypeOK, UpdateFails
    <2>2. QED
      BY <1>6, <2>1 DEF TypeOK, UpdateFails, dbVars, slateVars, nodeVars
  <1>7. QED
    BY <1>1, <1>2, <1>3, <1>4, <1>5, <1>6

\* wait_for_tx_in_mempool and update_mempool_status.
LEMMA WatchType ==
  ASSUME TypeOK, WatchStep
  PROVE  TypeOK'
  <1>0. WatchIdle \in WatchState /\ watch \in WatchState
    BY IdleTypes DEF TypeOK
  <1>1. ASSUME NEW s \in Slates, PollMempool(s) PROVE TypeOK'
    <2>1. watch' \in WatchState
      BY <1>0, <1>1 DEF PollMempool, WatchState
    <2>2. QED
      BY <1>1, <2>1 DEF TypeOK, PollMempool, WatchUnchanged, slateVars, nodeVars
  <1>2. CASE ReadWatchedEntries
    <2> DEFINE es == {i \in EntriesOf(watch.slate) : txlog[i].kernel_excess = final[watch.slate]}
               f  == [i \in LogIds |-> IF i \in es THEN txlog[i] ELSE NoEntry]
    <2>1. es \in SUBSET LogIds /\ f \in [LogIds -> TxLogEntry]
      BY RecordTypes DEF TypeOK, EntriesOf
    <2>2. [watch EXCEPT !.pc = "save", !.todo = es, !.snap = f] \in WatchState
      <3> HIDE DEF es, f
      <3> QED BY <1>0, <2>1 DEF WatchState
    <2>3. watch' \in WatchState
      BY <1>0, <1>2, <2>2 DEF ReadWatchedEntries
    <2>4. QED
      BY <1>2, <2>3 DEF TypeOK, ReadWatchedEntries, WatchUnchanged, slateVars, nodeVars
  <1>3. CASE SaveWatchedEntry
    <2> DEFINE i == Least(watch.todo)
    <2>1. [WatchIdle EXCEPT !.pc = "mark", !.slate = watch.slate] \in WatchState
      BY <1>0 DEF WatchState
    <2>2. [watch EXCEPT !.todo = @ \ {i}] \in WatchState
      BY <1>0 DEF WatchState
    <2>3. watch' \in WatchState
      BY <1>3, <2>1, <2>2 DEF SaveWatchedEntry
    <2>4. i \in LogIds => [watch.snap[i] EXCEPT !.type = MempoolType(@)] \in TxLogEntry
      BY <1>0, EntryChanges, TypeChanges DEF WatchState
    <2>5. txlog' \in [LogIds -> TxLogEntry]
      BY <1>3, <2>4 DEF TypeOK, SaveWatchedEntry
    <2>6. QED
      BY <1>3, <2>3, <2>5 DEF TypeOK, SaveWatchedEntry, WatchUnchanged, slateVars, nodeVars
  <1>4. CASE UpdateMempoolStatus
    <2> DEFINE i == Least(EntriesOf(watch.slate))
    <2>1. i \in LogIds => [txlog[i] EXCEPT !.type = MempoolType(@)] \in TxLogEntry
      BY EntryChanges, TypeChanges DEF TypeOK
    <2>2. txlog' \in [LogIds -> TxLogEntry]
      BY <1>4, <2>1 DEF TypeOK, UpdateMempoolStatus
    <2>3. QED
      BY <1>0, <1>4, <2>2 DEF TypeOK, UpdateMempoolStatus, WatchUnchanged, slateVars, nodeVars
  <1>5. QED
    BY <1>1, <1>2, <1>3, <1>4 DEF WatchStep

\* The counterparty and the node.
LEMMA NodeType ==
  ASSUME TypeOK,
         \/ \E s \in Slates : RemoteFinalize(s) \/ PostTx(s) \/ MineTx(s) \/ Fork(s)
         \/ \E k \in Keys : MineCoinbase(k)
         \/ MineEmpty
  PROVE  TypeOK'
  <1> USE DEF TypeOK, ChainUnchanged, dbVars, slateVars, nodeVars
  <1>1. ASSUME NEW s \in Slates, RemoteFinalize(s) PROVE TypeOK'
    BY <1>1 DEF RemoteFinalize
  <1>2. ASSUME NEW s \in Slates, PostTx(s) PROVE TypeOK'
    BY <1>2 DEF PostTx
  <1>3. ASSUME NEW s \in Slates, MineTx(s) PROVE TypeOK'
    <2>1. utxo' \in SUBSET Keys
      BY <1>3 DEF MineTx, Transaction
    <2>2. mmr' \in [Keys -> Mmr \ {0}]
      BY <1>3, ConstantsAssumption DEF MineTx, Mmr, MaxMmr
    <2>3. QED
      BY <1>3, <2>1, <2>2 DEF MineTx
  <1>4. ASSUME NEW s \in Slates, Fork(s) PROVE TypeOK'
    <2>1. utxo' \in SUBSET Keys
      BY <1>4 DEF Fork, Transaction
    <2>2. forks' \in 0 .. MaxForks /\ tip' \in Nat
      BY <1>4, ConstantsAssumption DEF Fork
    <2>3. QED
      BY <1>4, <2>1, <2>2 DEF Fork
  <1>5. ASSUME NEW k \in Keys, MineCoinbase(k) PROVE TypeOK'
    BY <1>5 DEF MineCoinbase
  <1>6. CASE MineEmpty
    BY <1>6 DEF MineEmpty
  <1>7. QED
    BY <1>1, <1>2, <1>3, <1>4, <1>5, <1>6

\* The first state is well typed.
LEMMA InitType == Init => TypeOK
  <1> SUFFICES ASSUME Init PROVE TypeOK
    OBVIOUS
  <1>1. out \in [Rows -> OutputData]
    <2>1. [NoRow EXCEPT !.status = "Unspent"] \in OutputData
      BY RecordTypes, OutputChanges DEF OutputStatus
    <2>2. QED
      BY <2>1, RecordTypes DEF Init
  <1>2. nextLog \in 0 .. MaxIds /\ nextChild \in 0 .. MaxKeys
    BY SMTT(30), ConstantsAssumption DEF Init, MaxIds
  <1>3. utxo \in SUBSET Keys /\ mmr \in [Keys -> Mmr \ {0}]
    BY SMTT(30), ConstantsAssumption DEF Init, Keys, Mmr, MaxMmr
  <1>4. ttl \in [Slates -> Nat] /\ forks \in 0 .. MaxForks /\ outages \in 0 .. MaxOutages
    BY ConstantsAssumption DEF Init
  <1>5. QED
    BY <1>1, <1>2, <1>3, <1>4, RecordTypes, IdleTypes DEF Init, TypeOK

\* Every step of the wallet, its threads and the node keeps the types.
LEMMA NextType == TypeOK /\ [Next]_vars => TypeOK'
  <1> SUFFICES ASSUME TypeOK, [Next]_vars PROVE TypeOK'
    OBVIOUS
  <1>1. ASSUME NEW s \in Slates, NEW pref \in Mmr, NEW change \in BOOLEAN,
               InitSendTx(s, pref, change) \/ ProcessInvoiceTx(s, pref, change)
        PROVE  TypeOK'
    BY <1>1, AddInputsType DEF InitSendTx, ProcessInvoiceTx
  <1>2. ASSUME NEW s \in Slates,
               \/ TxLockOutputs(s) \/ LockPanics(s) \/ FinalizeTx(s) \/ FinalizeInvoiceTx(s)
               \/ ReceiveTx(s) \/ IssueInvoiceTx(s)
        PROVE  TypeOK'
    BY <1>2, LockType, FinalizeType, ReceiveType DEF FinalizeTx, FinalizeInvoiceTx
  <1>3. ASSUME NEW p \in Updaters, UpdateStep(p)
        PROVE  TypeOK'
    <2>1. ASSUME NEW pref \in Mmr, StartUpdate(p, pref) PROVE TypeOK'
      BY <2>1, UpdateOutputsType DEF StartUpdate
    <2>2. ASSUME NEW pref \in Mmr, ScanReadOutputs(p, pref) PROVE TypeOK'
      BY <2>2, ScanReadType
    <2>3. CASE CollectChainOutputs(p)
      <3>1. 0 \in Mmr
        BY ConstantsAssumption DEF Mmr, MaxMmr
      <3>2. QED
        BY <2>3, <3>1, ScanReadType
    <2>4. QED
      BY <1>3, <2>1, <2>2, <2>3, KernelsType, ScanWriteType, UpdateEndType DEF UpdateStep
  <1>4. ASSUME NEW p \in Updaters, NEW i \in LogIds, NEW pref \in Mmr, StartCancel(p, i, pref)
        PROVE  TypeOK'
    BY <1>4, UpdateOutputsType DEF StartCancel
  <1>5. ASSUME NEW p \in Updaters, NEW pref \in Mmr, StartScan(p, pref)
        PROVE  TypeOK'
    BY <1>5, UpdateOutputsType DEF StartScan
  <1>6. ASSUME NEW p \in Updaters, UpdateFails(p) PROVE TypeOK'
    BY <1>6, UpdateEndType
  <1>7. CASE UNCHANGED vars
    BY <1>7 DEF TypeOK, vars, dbVars, slateVars, nodeVars
  <1>8. ASSUME NEW k \in Keys, BuildCoinbase(k) PROVE TypeOK'
    BY <1>8, CoinbaseType
  <1>9. QED
    BY <1>1, <1>2, <1>3, <1>4, <1>5, <1>6, <1>7, <1>8, WatchType, NodeType DEF Next

\* The tables, threads and node of the ledger hold what they may hold, for any
\* number of slates, updaters, keys, log ids and forks.
THEOREM LedgerTypeOK == Spec => []TypeOK
  BY InitType, NextType, PTL DEF Spec

-----------------------------------------------------------------------------
(* Keys are handed out once: every key in use anywhere (in the tables, in a  *)
(* slate, on chain, in what a scan read) is below the next child index, so   *)
(* the key a call derives is one nobody has.  A scan then never moves the    *)
(* index, which it would do in a later critical section than it read it.     *)

TxBelow(tx, n) == \A k \in tx.ins \cup tx.outs : k < n
UpdBelow(u, n) == /\ u.pc # "index" /\ u.found <= n
                  /\ \A r \in u.chain \cup u.fix \cup u.miss \cup u.locked : r[1] < n

NodeKeys  == \A k \in utxo \cup cbKeys : k < nextChild
SlateKeys == \A s \in Slates : /\ TxBelow(final[s], nextChild)
                               /\ \A tx \in offers[s] : TxBelow(tx, nextChild)
                               /\ \A k \in ctx[s].outs : k < nextChild
TableKeys == \A r \in Rows : out[r].status # "None" => r[1] < nextChild
ScanKeys  == \A p \in Updaters : UpdBelow(upd[p], nextChild)
KeyInv    == NodeKeys /\ SlateKeys /\ TableKeys /\ ScanKeys

\* What a step must do to keep every key below the index: it is enough to look at
\* the keys it adds.
LEMMA KeysKept ==
  ASSUME TypeOK, TypeOK', KeyInv, nextChild <= nextChild',
         \A k \in utxo' \cup cbKeys' : k \in utxo \cup cbKeys \/ k < nextChild',
         \A s \in Slates : final'[s] = final[s] \/ TxBelow(final'[s], nextChild'),
         \A s \in Slates : \A tx \in offers'[s] : tx \in offers[s] \/ TxBelow(tx, nextChild'),
         \A s \in Slates : ctx'[s].outs = ctx[s].outs \/ \A k \in ctx'[s].outs : k < nextChild',
         \A r \in Rows : out'[r].status # "None" => out[r].status # "None" \/ r[1] < nextChild',
         \A p \in Updaters : upd'[p] = upd[p] \/ UpdBelow(upd'[p], nextChild')
  PROVE  KeyInv'
  <1> DEFINE n == nextChild
             m == nextChild'
  <1>1. n \in Int /\ m \in Int /\ n <= m /\ Keys \subseteq Int
    BY DEF TypeOK, Keys
  <1>2. \A k \in Keys : k < n => k < m
    BY <1>1
  <1>3. \A r \in Rows : r[1] < n => r[1] < m
    BY <1>2 DEF Rows
  <1>4. \A tx \in Transaction : TxBelow(tx, n) => TxBelow(tx, m)
    BY <1>2 DEF TxBelow, Transaction
  <1>5. NodeKeys'
    BY <1>2 DEF KeyInv, NodeKeys, TypeOK
  <1>6. SlateKeys'
    <2>1. ASSUME NEW s \in Slates PROVE TxBelow(final'[s], m)
      BY <1>4 DEF KeyInv, SlateKeys, TypeOK
    <2>2. ASSUME NEW s \in Slates, NEW tx \in offers'[s] PROVE TxBelow(tx, m)
      BY <1>4 DEF KeyInv, SlateKeys, TypeOK
    <2>3. ASSUME NEW s \in Slates, NEW k \in ctx'[s].outs PROVE k < m
      BY <1>2 DEF KeyInv, SlateKeys, TypeOK, Context
    <2>4. QED
      BY <2>1, <2>2, <2>3 DEF SlateKeys
  <1>7. TableKeys'
    BY <1>3 DEF KeyInv, TableKeys
  <1>8. ScanKeys'
    <2>1. ASSUME NEW u \in UpdateState, UpdBelow(u, n) PROVE UpdBelow(u, m)
      <3>1. /\ u.found \in Int
            /\ u.chain \cup u.fix \cup u.miss \cup u.locked \subseteq Rows
        BY DEF UpdateState
      <3>2. QED
        BY <1>1, <1>3, <2>1, <3>1 DEF UpdBelow
    <2>2. QED
      BY <2>1 DEF KeyInv, ScanKeys, TypeOK
  <1>9. QED
    BY <1>5, <1>6, <1>7, <1>8 DEF KeyInv

\* refresh_outputs adds no row.
LEMMA RefreshAddsNoRow ==
  ASSUME TypeOK, NEW m \in SUBSET Rows, NEW ids \in CoinbaseIds(m), NEW r \in Rows,
         RefreshedOut(m, ids)[r].status # "None"
  PROVE  out[r].status # "None"
  <1> DEFINE o == out[r]
  <1>1. o \in OutputData
    BY DEF TypeOK
  <1>2. NoRow.status = "None"
    BY DEF NoRow
  <1>3. RefreshedOut(m, ids)[r] \in {o, ApplyOut(m, ids)[r]}
    BY <1>2 DEF RefreshedOut, CleanOldUnconfirmed
  <1>4. ApplyOut(m, ids)[r] \in {o, MarkSpent(o), MarkUnspent(o), MarkUnspent([o EXCEPT !.entry = ids[r]])}
    BY DEF ApplyOut
  <1>5. \A e : [o EXCEPT !.entry = e].status = o.status
    BY <1>1 DEF OutputData
  <1>6. o.status = "None" => /\ MarkSpent(o).status = "None" /\ MarkUnspent(o).status = "None"
                             /\ MarkUnspent([o EXCEPT !.entry = ids[r]]).status = "None"
    BY <1>5 DEF MarkSpent, MarkUnspent
  <1>7. QED
    BY <1>3, <1>4, <1>6

\* init_send_tx and process_invoice_tx: the inputs have rows, the change output
\* takes the next key.
LEMMA AddInputsKeys ==
  ASSUME TypeOK, TypeOK', KeyInv, NEW s \in Slates, NEW pref \in Mmr, NEW change \in BOOLEAN,
         AddInputs(s, pref, change)
  PROVE  /\ KeyInv'
         /\ \A t \in Slates : \A tx \in offers'[t] \ offers[t] : tx.outs \subseteq {nextChild}
  <1> DEFINE m == MapWalletOutputs(pref)
             outs == IF change THEN {nextChild} ELSE {}
  <1>0. m \in SUBSET Rows /\ nextChild \in Int
    BY MapType DEF TypeOK
  <1>1. PICK ids \in CoinbaseIds(m) :
          \E ins \in SUBSET {r \in Rows : EligibleToSpend(RefreshedOut(m, ids)[r])} :
            /\ RefreshOutputs(m, ids)
            /\ nextChild' = IF change THEN nextChild + 1 ELSE nextChild
            /\ ctx' = [ctx EXCEPT ![s] = [ins |-> ins, outs |-> outs]]
            /\ offers' = [offers EXCEPT ![s] = @ \cup {[ins |-> {r[1] : r \in ins}, outs |-> outs]}]
            /\ UNCHANGED <<upd, watch, final, nodeVars, outages>>
    BY DEF AddInputs
  <1>2. PICK ins \in SUBSET {r \in Rows : EligibleToSpend(RefreshedOut(m, ids)[r])} :
            /\ RefreshOutputs(m, ids)
            /\ nextChild' = IF change THEN nextChild + 1 ELSE nextChild
            /\ ctx' = [ctx EXCEPT ![s] = [ins |-> ins, outs |-> outs]]
            /\ offers' = [offers EXCEPT ![s] = @ \cup {[ins |-> {r[1] : r \in ins}, outs |-> outs]}]
            /\ UNCHANGED <<upd, watch, final, nodeVars, outages>>
    BY <1>1
  <1> DEFINE tx == [ins |-> {r[1] : r \in ins}, outs |-> outs]
             c  == [ins |-> ins, outs |-> outs]
  <1>3. \A r \in Rows : out'[r].status # "None" => out[r].status # "None"
    BY <1>0, <1>2, RefreshAddsNoRow DEF RefreshOutputs
  <1>4. \A r \in ins : r \in Rows /\ r[1] < nextChild
    <2>1. \A r \in ins : RefreshedOut(m, ids)[r].status # "None"
      BY DEF EligibleToSpend
    <2>2. QED
      BY <1>0, <2>1, RefreshAddsNoRow DEF KeyInv, TableKeys
  <1>5. nextChild <= nextChild' /\ \A k \in outs : k < nextChild'
    BY <1>0, <1>2
  <1>6. \A r \in ins : r[1] < nextChild'
    BY <1>0, <1>2, <1>4 DEF Rows, Keys
  <1>7. TxBelow(tx, nextChild') /\ c.outs = outs /\ tx.outs \subseteq {nextChild}
    BY <1>5, <1>6 DEF TxBelow
  <1>8. offers' = [offers EXCEPT ![s] = @ \cup {tx}] /\ ctx' = [ctx EXCEPT ![s] = c]
    BY <1>2
  <1> HIDE DEF tx, c, outs
  <1>9. \A t \in Slates : \A x \in offers'[t] : x \in offers[t] \/ x = tx
    BY <1>8 DEF TypeOK
  <1>10. \A t \in Slates : ctx'[t].outs = ctx[t].outs \/ \A k \in ctx'[t].outs : k < nextChild'
    BY <1>5, <1>7, <1>8 DEF TypeOK
  <1>11. UNCHANGED <<final, upd, utxo, cbKeys>>
    BY <1>2 DEF nodeVars
  <1>12. \A t \in Slates : \A x \in offers'[t] : x \in offers[t] \/ TxBelow(x, nextChild')
    BY <1>7, <1>9
  <1>13. KeyInv'
    BY <1>3, <1>5, <1>10, <1>11, <1>12, KeysKept
  <1>14. QED
    BY <1>7, <1>9, <1>13

\* The other API calls and the node: a new output or coinbase takes the next key,
\* and the chain holds keys of slates and of coinbases only.
LEMMA ApiKeys ==
  ASSUME TypeOK, TypeOK', KeyInv,
         \/ \E s \in Slates : \/ TxLockOutputs(s) \/ LockPanics(s)
                              \/ FinalizeTx(s) \/ FinalizeInvoiceTx(s)
                              \/ ReceiveTx(s) \/ IssueInvoiceTx(s)
                              \/ RemoteFinalize(s) \/ PostTx(s) \/ MineTx(s) \/ Fork(s)
         \/ \E k \in Keys : BuildCoinbase(k) \/ MineCoinbase(k)
         \/ MineEmpty
  PROVE  /\ KeyInv'
         /\ \A t \in Slates : \A tx \in offers'[t] \ offers[t] : tx.outs \subseteq {nextChild}
  <1> DEFINE Old == \A t \in Slates : \A tx \in offers'[t] \ offers[t] : tx.outs \subseteq {nextChild}
  <1>0. nextChild \in Int
    BY DEF TypeOK
  <1>1. ASSUME NEW s \in Slates, TxLockOutputs(s) \/ LockPanics(s) PROVE KeyInv' /\ Old
    <2>1. UNCHANGED <<nextChild, ctx, upd, offers, final, utxo, cbKeys>>
      BY <1>1 DEF TxLockOutputs, LockPanics, slateVars, nodeVars
    <2>2. ASSUME NEW r \in Rows, out'[r].status # "None"
          PROVE  out[r].status # "None" \/ r[1] < nextChild
      <3>1. CASE TxLockOutputs(s)
        <4>1. r \in ctx[s].ins \/ r[1] \in ctx[s].outs \/ out'[r] = out[r]
          BY <3>1 DEF TxLockOutputs
        <4>2. r \in ctx[s].ins => out[r].status # "None"
          BY <3>1 DEF TxLockOutputs
        <4>3. QED
          BY <2>2, <4>1, <4>2 DEF KeyInv, SlateKeys
      <3>2. CASE LockPanics(s)
        <4>1. out'[r] = out[r] \/ out[r].status # "None"
          BY <3>2 DEF LockPanics
        <4>2. QED
          BY <2>2, <4>1
      <3>3. QED
        BY <1>1, <3>1, <3>2
    <2>3. KeyInv'
      BY <1>0, <2>1, <2>2, KeysKept
    <2>4. QED
      BY <2>1, <2>3
  <1>2. ASSUME NEW s \in Slates, NEW types, Finalize(s, types) PROVE KeyInv' /\ Old
    <2>1. UNCHANGED <<nextChild, out, upd, offers, utxo, cbKeys>>
      BY <1>2 DEF Finalize, nodeVars
    <2>2. PICK tx \in offers[s] : final' = [final EXCEPT ![s] = tx]
      BY <1>2 DEF Finalize
    <2>3. ctx' = [ctx EXCEPT ![s] = NoCtx]
      BY <1>2 DEF Finalize
    <2>4. \A t \in Slates : final'[t] = final[t] \/ TxBelow(final'[t], nextChild)
      BY <2>2 DEF TypeOK, KeyInv, SlateKeys
    <2>5. \A t \in Slates : ctx'[t].outs = ctx[t].outs \/ ctx'[t].outs = {}
      BY <2>3 DEF TypeOK, NoCtx
    <2>6. KeyInv'
      BY <1>0, <2>1, <2>4, <2>5, KeysKept
    <2>7. QED
      BY <2>1, <2>6
  <1>3. ASSUME NEW s \in Slates, ReceiveTx(s) \/ IssueInvoiceTx(s) PROVE KeyInv' /\ Old
    <2> DEFINE tx == [ins |-> {}, outs |-> {nextChild}]
    <2>1. PICK x : BuildRecipientOutput(s, x)
      BY <1>3 DEF ReceiveTx, IssueInvoiceTx
    <2>2. ctx' = ctx \/ ctx' = [ctx EXCEPT ![s] = tx]
      BY <1>3 DEF ReceiveTx, IssueInvoiceTx
    <2>3. nextChild' = nextChild + 1 /\ UNCHANGED <<upd, final, utxo, cbKeys>>
      BY <2>1 DEF BuildRecipientOutput, nodeVars
    <2>4. offers' = [offers EXCEPT ![s] = @ \cup {tx}]
      BY <2>1 DEF BuildRecipientOutput
    <2>5. TxBelow(tx, nextChild') /\ tx.outs = {nextChild}
      BY <1>0, <2>3 DEF TxBelow
    <2> HIDE DEF tx
    <2>6. \A t \in Slates : \A y \in offers'[t] : y \in offers[t] \/ y = tx
      BY <2>4 DEF TypeOK
    <2>7. \A t \in Slates : ctx'[t].outs = ctx[t].outs \/ \A k \in ctx'[t].outs : k < nextChild'
      BY <1>0, <2>2, <2>3, <2>5 DEF TypeOK
    <2>8. \A r \in Rows : out'[r] = out[r] \/ r = <<nextChild, 0>>
      BY <2>1 DEF BuildRecipientOutput, TypeOK
    <2>9. \A r \in Rows : r = <<nextChild, 0>> => r[1] < nextChild'
      BY <1>0, <2>3
    <2>10. nextChild <= nextChild'
      BY <1>0, <2>3
    <2>11. \A t \in Slates : \A y \in offers'[t] : y \in offers[t] \/ TxBelow(y, nextChild')
      BY <2>5, <2>6
    <2>12. \A r \in Rows : out'[r].status # "None" => out[r].status # "None" \/ r[1] < nextChild'
      BY <2>8, <2>9
    <2>13. KeyInv'
      BY <2>3, <2>7, <2>10, <2>11, <2>12, KeysKept
    <2>14. QED
      BY <2>5, <2>6, <2>13
  <1>4. ASSUME NEW k \in Keys, BuildCoinbase(k) PROVE KeyInv' /\ Old
    <2>1. UNCHANGED <<ctx, upd, offers, final, utxo>> /\ cbKeys' = cbKeys \cup {k}
      BY <1>4 DEF BuildCoinbase, slateVars
    <2>2. nextChild <= nextChild' /\ k < nextChild'
      <3>1. k = nextChild \/ k \in cbKeys
        BY <1>4 DEF BuildCoinbase
      <3>2. nextChild' = IF k = nextChild THEN nextChild + 1 ELSE nextChild
        BY <1>4 DEF BuildCoinbase
      <3>3. QED
        BY <1>0, <3>1, <3>2 DEF KeyInv, NodeKeys
    <2>3. \A r \in Rows : out'[r] = out[r] \/ r[1] = k
      BY <1>4 DEF BuildCoinbase, TypeOK
    <2>4. KeyInv'
      BY <2>1, <2>2, <2>3, KeysKept
    <2>5. QED
      BY <2>1, <2>4
  <1>5. ASSUME UNCHANGED <<nextChild, ctx, upd, offers, out, cbKeys>>,
               \A k \in utxo' : k < nextChild,
               \A s \in Slates : final'[s] = final[s] \/ TxBelow(final'[s], nextChild)
        PROVE  KeyInv' /\ Old
    <2>1. KeyInv'
      BY <1>0, <1>5, KeysKept
    <2>2. QED
      BY <1>5, <2>1
  <1>6. /\ \A k \in utxo : k < nextChild
        /\ \A s \in Slates : TxBelow(final[s], nextChild)
        /\ \A s \in Slates : \A tx \in offers[s] : TxBelow(tx, nextChild)
        /\ \A k \in cbKeys : k < nextChild
    BY DEF KeyInv, NodeKeys, SlateKeys
  <1>7. ASSUME NEW s \in Slates, RemoteFinalize(s) \/ PostTx(s) \/ MineTx(s) \/ Fork(s)
        PROVE  KeyInv' /\ Old
    <2>1. UNCHANGED <<nextChild, ctx, upd, offers, out, cbKeys>>
      BY <1>7 DEF RemoteFinalize, PostTx, MineTx, Fork, ChainUnchanged, dbVars, slateVars, nodeVars
    <2>2. \A k \in utxo' : k \in utxo \/ k \in final[s].ins \/ k \in final[s].outs
      BY <1>7 DEF RemoteFinalize, PostTx, MineTx, Fork, nodeVars
    <2>3. \A k \in utxo' : k < nextChild
      BY <1>6, <2>2 DEF TxBelow
    <2>4. final' = final \/ \E tx \in offers[s] : final' = [final EXCEPT ![s] = tx]
      BY <1>7 DEF RemoteFinalize, PostTx, MineTx, Fork, slateVars
    <2>5. \A t \in Slates : final'[t] = final[t] \/ TxBelow(final'[t], nextChild)
      BY <1>6, <2>4 DEF TypeOK
    <2>6. QED
      BY <1>5, <2>1, <2>3, <2>5
  <1>8. ASSUME NEW k \in Keys, MineCoinbase(k) PROVE KeyInv' /\ Old
    <2>1. UNCHANGED <<nextChild, ctx, upd, offers, out, cbKeys, final>>
      BY <1>8 DEF MineCoinbase, ChainUnchanged, dbVars, slateVars
    <2>2. \A j \in utxo' : j < nextChild
      BY <1>6, <1>8 DEF MineCoinbase
    <2>3. QED
      BY <1>5, <2>1, <2>2
  <1>9. CASE MineEmpty
    <2>1. UNCHANGED <<nextChild, ctx, upd, offers, out, cbKeys, final, utxo>>
      BY <1>9 DEF MineEmpty, ChainUnchanged, dbVars, slateVars
    <2>2. QED
      BY <1>5, <1>6, <2>1
  <1>10. QED
    BY <1>1, <1>2, <1>3, <1>4, <1>7, <1>8, <1>9 DEF FinalizeTx, FinalizeInvoiceTx

\* The steps of an update: it reads keys that are on chain and writes rows of keys
\* it read, and what it restores is below the index, so the index never moves.
LEMMA UpdateKeys ==
  ASSUME TypeOK, TypeOK', KeyInv, NEW p \in Updaters,
         \/ UpdateStep(p) \/ UpdateFails(p)
         \/ \E i \in LogIds, pref \in Mmr : StartCancel(p, i, pref)
         \/ \E pref \in Mmr : StartScan(p, pref)
  PROVE  KeyInv' /\ UNCHANGED <<nextChild, ctx, slateVars, nodeVars>>
  <1> DEFINE u == upd[p]
             n == nextChild
             Below(v) == UpdBelow(v, nextChild)
             Rest == UNCHANGED <<nextChild, ctx, slateVars, nodeVars>>
             NoNew == \A r \in Rows : out'[r].status # "None" => out[r].status # "None" \/ r[1] < n
  <1>0. n \in Int /\ u \in UpdateState /\ Below(u)
    BY DEF TypeOK, KeyInv, ScanKeys
  <1>1. ASSUME Rest, NoNew, NEW v, upd' = [upd EXCEPT ![p] = v], Below(v) PROVE KeyInv'
    <2>1. \A q \in Updaters : upd'[q] = upd[q] \/ UpdBelow(upd'[q], nextChild')
      BY <1>1 DEF TypeOK
    <2>2. UNCHANGED <<nextChild, ctx, offers, final, utxo, cbKeys>>
      BY <1>1 DEF slateVars, nodeVars
    <2>3. QED
      BY <1>0, <1>1, <2>1, <2>2, KeysKept
  <1>2. Below(UpdateIdle) /\ Below(AfterScan(p))
    BY <1>0 DEF UpdBelow, UpdateIdle, AfterScan, TypeOK
  <1>3. ASSUME NEW v, v.pc # "index", v.found = u.found, v.chain \subseteq u.chain,
               v.fix \subseteq u.fix, v.miss \subseteq u.miss, v.locked \subseteq u.locked
        PROVE  Below(v)
    BY <1>0, <1>3 DEF UpdBelow
  <1>4. \A r \in Rows : r \in u.chain \cup u.fix \cup u.miss \cup u.locked => r[1] < n
    BY <1>0 DEF UpdBelow
  <1>5. ASSUME NEW job, NEW goal, NEW pref \in Mmr, UpdateOutputs(p, job, goal, pref)
        PROVE  KeyInv' /\ Rest
    <2> DEFINE pc == IF job = "scan" THEN "chain" ELSE "outstanding"
               v  == [u EXCEPT !.pc = pc, !.job = job, !.goal = goal]
    <2>1. PICK ids \in CoinbaseIds(MapWalletOutputs(pref)) : RefreshOutputs(MapWalletOutputs(pref), ids)
      BY <1>5 DEF UpdateOutputs
    <2>2. NoNew
      BY <2>1, MapType, RefreshAddsNoRow DEF RefreshOutputs
    <2>3. upd' = [upd EXCEPT ![p] = v] /\ Rest
      BY <1>5 DEF UpdateOutputs, Unchanged, TypeOK, nodeVars
    <2>4. /\ v.pc = pc /\ v.found = u.found /\ v.chain = u.chain /\ v.fix = u.fix
          /\ v.miss = u.miss /\ v.locked = u.locked
      BY <1>0 DEF UpdateState
    <2>5. QED
      <3>1. pc # "index"
        OBVIOUS
      <3> HIDE DEF v, pc
      <3>2. Below(v)
        BY <1>3, <2>4, <3>1
      <3> HIDE DEF Below
      <3>3. QED
        BY <1>1, <2>2, <2>3, <3>2
  <1>6. CASE RetrieveOutstanding(p)
    <2> DEFINE os == {i \in LogIds : Outstanding(txlog[i])}
               f  == [i \in LogIds |-> IF i \in os THEN txlog[i] ELSE NoEntry]
               v  == [u EXCEPT !.pc = "kernels", !.todo = os, !.txs = f]
    <2>1. upd' = [upd EXCEPT ![p] = v] /\ Rest /\ NoNew
      BY <1>6 DEF RetrieveOutstanding, TypeOK, dbVars, Unchanged, nodeVars
    <2>2. /\ v.pc = "kernels" /\ v.found = u.found /\ v.chain = u.chain /\ v.fix = u.fix
          /\ v.miss = u.miss /\ v.locked = u.locked
      <3> HIDE DEF os, f, u
      <3> QED BY <1>0 DEF UpdateState
    <2>3. QED
      <3> HIDE DEF v
      <3>1. Below(v)
        BY <1>3, <2>2
      <3> HIDE DEF Below
      <3>2. QED
        BY <1>1, <2>1, <3>1
  <1>7. CASE UpdateTxViaKernel(p)
    <2> DEFINE i == Least(u.todo)
               c == [u.txs[i] EXCEPT !.confirmed = TRUE]
               v == [u EXCEPT !.todo = @ \ {i}]
               w == [u EXCEPT !.todo = @ \ {i}, !.txs[i] = c]
    <2>1. (upd' = [upd EXCEPT ![p] = v] \/ upd' = [upd EXCEPT ![p] = w]) /\ Rest /\ NoNew
      BY <1>7 DEF UpdateTxViaKernel, TypeOK, Unchanged, nodeVars
    <2>2. /\ v.pc = u.pc /\ v.found = u.found /\ v.chain = u.chain /\ v.fix = u.fix
          /\ v.miss = u.miss /\ v.locked = u.locked
      <3> HIDE DEF u, i
      <3> QED BY <1>0 DEF UpdateState
    <2>3. /\ w.pc = u.pc /\ w.found = u.found /\ w.chain = u.chain /\ w.fix = u.fix
          /\ w.miss = u.miss /\ w.locked = u.locked
      <3> HIDE DEF u, i, c
      <3> QED BY <1>0 DEF UpdateState
    <2>4. u.pc # "index"
      BY <1>7 DEF UpdateTxViaKernel, At
    <2>5. QED
      <3> HIDE DEF v, w
      <3>1. Below(v) /\ Below(w)
        BY <1>3, <2>2, <2>3, <2>4
      <3> HIDE DEF Below
      <3>2. QED
        BY <1>1, <2>1, <3>1
  <1>8. CASE KernelsDone(p)
    <2> DEFINE v == [u EXCEPT !.pc = "chain"]
    <2>1. upd' = [upd EXCEPT ![p] = v] /\ Rest /\ NoNew
      BY <1>8 DEF KernelsDone, TypeOK, dbVars, Unchanged, nodeVars
    <2>2. /\ v.pc = "chain" /\ v.found = u.found /\ v.chain = u.chain /\ v.fix = u.fix
          /\ v.miss = u.miss /\ v.locked = u.locked
      BY <1>0 DEF UpdateState
    <2>3. QED
      <3> HIDE DEF v
      <3>1. Below(v)
        BY <1>3, <2>2
      <3> HIDE DEF Below
      <3>2. QED
        BY <1>1, <2>1, <3>1
  <1>9. CASE CollectChainOutputs(p)
    <2> DEFINE ch == {<<k, mmr[k]>> : k \in utxo}
               v  == [u EXCEPT !.pc = "wallet", !.tip = tip, !.chain = ch]
    <2>1. upd' = [upd EXCEPT ![p] = v] /\ Rest /\ NoNew
      BY <1>9 DEF CollectChainOutputs, TypeOK, dbVars, Unchanged, nodeVars
    <2>2. \A r \in ch : r[1] < n
      BY DEF KeyInv, NodeKeys
    <2>3. /\ v.pc = "wallet" /\ v.found = u.found /\ v.chain = ch /\ v.fix = u.fix
          /\ v.miss = u.miss /\ v.locked = u.locked
      <3> HIDE DEF ch
      <3> QED BY <1>0 DEF UpdateState
    <2>4. QED
      <3> HIDE DEF v, ch
      <3>1. Below(v)
        BY <1>0, <2>2, <2>3 DEF UpdBelow
      <3> HIDE DEF Below
      <3>2. QED
        BY <1>1, <2>1, <3>1
  <1>10. ASSUME NEW pref \in Mmr, ScanReadOutputs(p, pref) PROVE KeyInv' /\ Rest
    <2> DEFINE
      on(r)   == \E q \in u.chain : q[1] = r[1]
      matched == {r \in OneRowPerKey({r \in Rows : out[r].status # "None"}, pref) : on(r)}
      c       == matched \ u.chain
      d       == {r \in matched : out[r].status = "Spent"}
      f       == {r \in matched : out[r].status = "Locked" /\ u.job = "scan"}
      g       == {r \in Rows : out[r].status = "Unconfirmed" /\ u.job = "scan"}
      keep    == c \cup d \cup f \cup g
      a       == {q \in u.chain : \E r \in c : r[1] = q[1]}
      b       == [r \in Rows |-> IF r \in keep THEN out[r] ELSE NoRow]
      e       == {q \in u.chain : \A r \in matched : r[1] # q[1]}
      v       == [u EXCEPT !.pc = "repair", !.chain = a, !.rows = b, !.idx = c, !.fix = d,
                           !.miss = e, !.locked = f, !.unconf = g]
    <2>1. upd' = [upd EXCEPT ![p].pc = "repair", ![p].chain = a, ![p].rows = b,
                             ![p].idx = c, ![p].fix = d, ![p].miss = e,
                             ![p].locked = f, ![p].unconf = g]
      BY <1>10 DEF ScanReadOutputs
    <2>2. \A r \in matched : r[1] < n
      BY DEF KeyInv, TableKeys, OneRowPerKey
    <2>3. a \subseteq u.chain /\ e \subseteq u.chain /\ d \subseteq matched /\ f \subseteq matched
      <3> HIDE DEF matched
      <3> QED OBVIOUS
    <2> HIDE DEF a, b, c, d, e, f, g, matched
    <2>4. upd' = [upd EXCEPT ![p] = v] /\ Rest /\ NoNew
      <3>1. upd' = [upd EXCEPT ![p] = v]
        BY <2>1 DEF TypeOK
      <3>2. UNCHANGED dbVars /\ Unchanged
        BY <1>10 DEF ScanReadOutputs
      <3>3. QED
        BY <3>1, <3>2 DEF dbVars, Unchanged, nodeVars
    <2>5. v.pc = "repair" /\ v.found = u.found /\ v.chain = a /\ v.fix = d /\ v.miss = e /\ v.locked = f
      BY <1>0 DEF UpdateState
    <2>6. \A r \in a \cup d \cup e \cup f : r[1] < n
      <3>1. u.chain \subseteq Rows
        BY <1>0 DEF UpdateState
      <3>2. QED
        BY <1>4, <2>2, <2>3, <3>1
    <2>7. QED
      <3> HIDE DEF v
      <3>1. Below(v)
        BY <1>0, <2>5, <2>6 DEF UpdBelow
      <3> HIDE DEF Below
      <3>2. QED
        BY <1>1, <2>4, <3>1
  <1>11. ASSUME NEW r \in Rows, ScanIndexOutput(p, r) PROVE KeyInv' /\ Rest
    <2> DEFINE v == [u EXCEPT !.idx = @ \ {r}]
    <2>1. upd' = [upd EXCEPT ![p] = v] /\ Rest
      BY <1>11 DEF ScanIndexOutput, TypeOK, Unchanged, nodeVars
    <2>2. PICK q \in u.chain : out' = [out EXCEPT ![r] = IF r[2] = 0 THEN NoRow ELSE @, ![q] = u.rows[r]]
      BY <1>11 DEF ScanIndexOutput
    <2>3. NoNew
      <3>1. \A t \in Rows : t = q \/ out'[t] = out[t] \/ out'[t] = NoRow
        BY <2>2 DEF TypeOK
      <3>2. q[1] < n
        BY <1>0 DEF UpdBelow
      <3>3. QED
        BY <3>1, <3>2 DEF NoRow
    <2>4. /\ v.pc = u.pc /\ v.found = u.found /\ v.chain = u.chain /\ v.fix = u.fix
          /\ v.miss = u.miss /\ v.locked = u.locked
      BY <1>0 DEF UpdateState
    <2>5. QED
      <3> HIDE DEF v
      <3>1. Below(v)
        BY <1>0, <1>3, <2>4 DEF UpdBelow
      <3> HIDE DEF Below
      <3>2. QED
        BY <1>1, <2>1, <2>3, <3>1
  <1>12. ASSUME NEW o, NEW r \in u.fix \cup u.locked, UnspendRow(o, r) PROVE NoNew /\ Rest
    <2>1. \A t \in Rows : t = r \/ out'[t] = out[t]
      BY <1>12 DEF UnspendRow, TypeOK
    <2>2. r[1] < n
      BY <1>0, <1>12 DEF UpdBelow
    <2>3. QED
      BY <1>12, <2>1, <2>2 DEF UnspendRow, Unchanged, nodeVars
  <1>13. ASSUME NEW r \in Rows, ScanUnspendOutput(p, r) PROVE KeyInv' /\ Rest
    <2> DEFINE v == [u EXCEPT !.fix = @ \ {r}]
    <2>1. upd' = [upd EXCEPT ![p] = v] /\ r \in u.fix /\ UnspendRow(u.rows[r], r)
      BY <1>13 DEF ScanUnspendOutput, TypeOK
    <2>2. /\ v.pc = u.pc /\ v.found = u.found /\ v.chain = u.chain /\ v.fix \subseteq u.fix
          /\ v.miss = u.miss /\ v.locked = u.locked
      BY <1>0 DEF UpdateState
    <2>3. QED
      <3> HIDE DEF v
      <3>1. Below(v)
        BY <1>0, <1>3, <2>2 DEF UpdBelow
      <3> HIDE DEF Below
      <3>2. QED
        BY <1>1, <1>12, <2>1, <3>1
  <1>14. ASSUME NEW r \in Rows, ScanUnlockOutput(p, r) PROVE KeyInv' /\ Rest
    <2> DEFINE v == [u EXCEPT !.locked = @ \ {r}]
    <2>1. upd' = [upd EXCEPT ![p] = v] /\ r \in u.locked /\ UnspendRow(u.rows[r], r)
      BY <1>14 DEF ScanUnlockOutput, TypeOK
    <2>2. /\ v.pc = u.pc /\ v.found = u.found /\ v.chain = u.chain /\ v.fix = u.fix
          /\ v.miss = u.miss /\ v.locked \subseteq u.locked
      BY <1>0 DEF UpdateState
    <2>3. QED
      <3> HIDE DEF v
      <3>1. Below(v)
        BY <1>0, <1>3, <2>2 DEF UpdBelow
      <3> HIDE DEF Below
      <3>2. QED
        BY <1>1, <1>12, <2>1, <3>1
  <1>15. ASSUME NEW r \in Rows, ScanDeleteOutput(p, r) PROVE KeyInv' /\ Rest
    <2> DEFINE v == [u EXCEPT !.unconf = @ \ {r}]
    <2>1. upd' = [upd EXCEPT ![p] = v] /\ Rest /\ out' = [out EXCEPT ![r] = NoRow]
      BY <1>15 DEF ScanDeleteOutput, TypeOK, Unchanged, nodeVars
    <2>2. NoNew
      BY <2>1 DEF TypeOK, NoRow
    <2>3. /\ v.pc = u.pc /\ v.found = u.found /\ v.chain = u.chain /\ v.fix = u.fix
          /\ v.miss = u.miss /\ v.locked = u.locked
      BY <1>0 DEF UpdateState
    <2>4. QED
      <3> HIDE DEF v
      <3>1. Below(v)
        BY <1>0, <1>3, <2>3 DEF UpdBelow
      <3> HIDE DEF Below
      <3>2. QED
        BY <1>1, <2>1, <2>2, <3>1
  <1>16. ASSUME NEW r \in Rows, RestoreMissingOutput(p, r) PROVE KeyInv' /\ Rest
    <2> DEFINE ms == u.miss \ {r}
               fd == IF r[1] >= u.found THEN r[1] + 1 ELSE u.found
               v  == [u EXCEPT !.miss = ms, !.found = fd]
    <2>1. upd' = [upd EXCEPT ![p] = v] /\ Rest /\ r \in u.miss
      BY <1>16 DEF RestoreMissingOutput, TypeOK, Unchanged, nodeVars
    <2>2. r[1] < n /\ r[1] \in Int /\ u.found \in Int /\ u.found <= n
      BY <1>0, <1>4, <2>1 DEF UpdBelow, UpdateState, Rows, Keys
    <2>3. fd <= n
      BY <1>0, <2>2
    <2>4. NoNew
      <3>1. \A t \in Rows : t = r \/ out'[t] = out[t]
        BY <1>16 DEF RestoreMissingOutput, TypeOK
      <3>2. QED
        BY <2>2, <3>1
    <2>5. /\ v.pc = u.pc /\ v.found = fd /\ v.chain = u.chain /\ v.fix = u.fix
          /\ v.miss = ms /\ v.locked = u.locked
      <3> HIDE DEF ms, fd
      <3> QED BY <1>0 DEF UpdateState
    <2>6. QED
      <3>1. ms \subseteq u.miss
        OBVIOUS
      <3> HIDE DEF v, fd, ms
      <3>2. Below(v)
        BY <1>0, <2>3, <2>5, <3>1 DEF UpdBelow
      <3> HIDE DEF Below
      <3>3. QED
        BY <1>1, <2>1, <2>4, <3>2
  <1>17. CASE ScanReadChildIndex(p)
    <2>1. ~(u.found > n)
      BY <1>0 DEF UpdBelow, UpdateState
    <2>2. upd' = [upd EXCEPT ![p] = AfterScan(p)] /\ Rest /\ NoNew
      BY <1>17, <2>1 DEF ScanReadChildIndex, dbVars, Unchanged, nodeVars
    <2>3. QED
      <3> HIDE DEF Below
      <3> QED BY <1>1, <1>2, <2>2
  <1>18. ~ScanSaveChildIndex(p)
    BY <1>0 DEF ScanSaveChildIndex, At, UpdBelow
  <1>19. ASSUME NEW i, CancelTxAndOutputs(i) PROVE NoNew
    <2>1. \A r \in Rows : out[r] \in OutputData
      BY DEF TypeOK
    <2>2. ASSUME NEW r \in Rows, out'[r].status # "None" PROVE out[r].status # "None"
      BY <1>19, <2>2 DEF CancelTxAndOutputs, NoRow
    <2>3. QED
      BY <2>2
  <1>20. CASE ExpireTx(p)
    <2> DEFINE i == Least(u.todo)
               v == [u EXCEPT !.todo = @ \ {i}]
    <2>1. (upd' = [upd EXCEPT ![p] = v] \/ upd' = [upd EXCEPT ![p] = UpdateIdle]) /\ Rest
      BY <1>20 DEF ExpireTx, TypeOK, Unchanged, nodeVars
    <2>2. CancelTxAndOutputs(i) \/ out' = out
      BY <1>20 DEF ExpireTx
    <2>3. /\ v.pc = u.pc /\ v.found = u.found /\ v.chain = u.chain /\ v.fix = u.fix
          /\ v.miss = u.miss /\ v.locked = u.locked
      <3> HIDE DEF u, i
      <3> QED BY <1>0 DEF UpdateState
    <2>4. QED
      <3> HIDE DEF v, i
      <3>1. Below(v)
        BY <1>0, <1>3, <2>3 DEF UpdBelow
      <3> HIDE DEF Below
      <3>2. NoNew
        BY <1>19, <2>2
      <3>3. QED
        BY <1>1, <1>2, <2>1, <3>1, <3>2
  <1>21. CASE UpdateDone(p)
    <2> DEFINE v == [u EXCEPT !.pc = "cancel"]
    <2>1. (upd' = [upd EXCEPT ![p] = v] \/ upd' = [upd EXCEPT ![p] = UpdateIdle]) /\ Rest /\ NoNew
      BY <1>21 DEF UpdateDone, TypeOK, dbVars, Unchanged, nodeVars
    <2>2. /\ v.pc = "cancel" /\ v.found = u.found /\ v.chain = u.chain /\ v.fix = u.fix
          /\ v.miss = u.miss /\ v.locked = u.locked
      BY <1>0 DEF UpdateState
    <2>3. QED
      <3> HIDE DEF v
      <3>1. Below(v)
        BY <1>3, <2>2
      <3> HIDE DEF Below
      <3>2. QED
        BY <1>1, <1>2, <2>1, <3>1
  <1>22. CASE CancelTx(p)
    <2>1. upd' = [upd EXCEPT ![p] = UpdateIdle] /\ Rest
      BY <1>22 DEF CancelTx, Unchanged, nodeVars
    <2>2. CancelTxAndOutputs(u.goal) \/ out' = out
      BY <1>22 DEF CancelTx
    <2>3. NoNew
      BY <1>19, <2>2
    <2>4. QED
      <3> HIDE DEF Below
      <3> QED BY <1>1, <1>2, <2>1, <2>3
  <1>23. CASE UpdateFails(p)
    <2>1. upd' = [upd EXCEPT ![p] = UpdateIdle] /\ Rest /\ NoNew
      BY <1>23 DEF UpdateFails, dbVars, nodeVars
    <2>2. QED
      <3> HIDE DEF Below
      <3> QED BY <1>1, <1>2, <2>1
  <1>24. QED
    BY <1>5, <1>6, <1>7, <1>8, <1>9, <1>10, <1>11, <1>13, <1>14, <1>15, <1>16, <1>17, <1>18,
       <1>20, <1>21, <1>22, <1>23 DEF UpdateStep, StartUpdate, StartCancel, StartScan

\* Nothing the mempool watch writes has a key.
LEMMA WatchKeys ==
  ASSUME TypeOK, TypeOK', KeyInv, WatchStep
  PROVE  KeyInv' /\ UNCHANGED <<nextChild, ctx, slateVars, nodeVars>>
  <1>1. UNCHANGED <<nextChild, out, ctx, upd, slateVars, nodeVars>>
    BY DEF WatchStep, PollMempool, ReadWatchedEntries, SaveWatchedEntry, UpdateMempoolStatus,
           WatchUnchanged
  <1>2. nextChild \in Int
    BY DEF TypeOK
  <1>3. QED
    BY <1>1, <1>2, KeysKept DEF slateVars, nodeVars

\* The keys of a wallet that was not just restored are below its child index.
LEMMA KeyInit == ASSUME Restored = FALSE PROVE Init => KeyInv
  <1> SUFFICES ASSUME Init PROVE KeyInv
    OBVIOUS
  <1>1. nextChild = Coins /\ Coins \in Nat
    BY ConstantsAssumption DEF Init
  <1>2. NodeKeys
    BY <1>1 DEF Init, NodeKeys
  <1>3. SlateKeys
    BY DEF Init, SlateKeys, TxBelow, NoTx, NoCtx
  <1>4. TableKeys
    BY <1>1 DEF Init, TableKeys, NoRow
  <1>5. ScanKeys
    BY <1>1 DEF Init, ScanKeys, UpdBelow, UpdateIdle
  <1>6. QED
    BY <1>2, <1>3, <1>4, <1>5 DEF KeyInv

\* Every step keeps the keys below the index, and a transaction it adds to a slate
\* has no output but one with the next key.
LEMMA KeyStep ==
  ASSUME TypeOK, KeyInv, [Next]_vars
  PROVE  /\ KeyInv'
         /\ \A s \in Slates : \A tx \in offers'[s] \ offers[s] : tx.outs \subseteq {nextChild}
  <1>0. TypeOK'
    BY NextType
  <1>1. ASSUME NEW s \in Slates, NEW pref \in Mmr, NEW change \in BOOLEAN,
               InitSendTx(s, pref, change) \/ ProcessInvoiceTx(s, pref, change)
        PROVE  /\ KeyInv'
               /\ \A t \in Slates : \A tx \in offers'[t] \ offers[t] : tx.outs \subseteq {nextChild}
    BY <1>0, <1>1, AddInputsKeys DEF InitSendTx, ProcessInvoiceTx
  <1>2. ASSUME KeyInv', offers' = offers
        PROVE  /\ KeyInv'
               /\ \A t \in Slates : \A tx \in offers'[t] \ offers[t] : tx.outs \subseteq {nextChild}
    BY <1>2
  <1>3. ASSUME NEW p \in Updaters,
               \/ UpdateStep(p) \/ UpdateFails(p)
               \/ \E i \in LogIds, pref \in Mmr : StartCancel(p, i, pref)
               \/ \E pref \in Mmr : StartScan(p, pref)
        PROVE  KeyInv' /\ offers' = offers
    BY <1>0, <1>3, UpdateKeys DEF slateVars
  <1>4. CASE WatchStep
    BY <1>0, <1>2, <1>4, WatchKeys DEF slateVars
  <1>5. CASE UNCHANGED vars
    <2>1. UNCHANGED <<nextChild, out, ctx, upd, offers, final, utxo, cbKeys>>
      BY <1>5 DEF vars, dbVars, slateVars, nodeVars
    <2>2. KeyInv'
      BY <2>1 DEF KeyInv, NodeKeys, SlateKeys, TableKeys, ScanKeys
    <2>3. QED
      BY <1>2, <2>1, <2>2
  <1>6. QED
    BY <1>0, <1>1, <1>2, <1>3, <1>4, <1>5, ApiKeys DEF Next

\* A wallet whose database was not just recreated from its seed phrase never builds
\* an output with a key it has used before: whatever scans, restores of missing
\* outputs, forks and repairs run beside the calls, no derived key is in the output
\* table, in another slate, on chain or a coinbase's.
THEOREM KeysFresh == ASSUME Restored = FALSE PROVE Spec => KeysAreFresh
  <1>1. ASSUME KeyInv, NEW k \in Used PROVE k < nextChild
    <2>1. \/ \E s \in Slates : \E tx \in offers[s] : k \in tx.outs
          \/ \E r \in Rows : out[r].status # "None" /\ k = r[1]
          \/ k \in utxo \cup cbKeys
      <3> DEFINE All == UNION {offers[s] : s \in Slates}
      <3>1. k \in UNION {c.outs : c \in All} => \E c \in All : k \in c.outs
        <4> HIDE DEF All
        <4> QED BY Zenon
      <3>2. \A c \in All : \E s \in Slates : c \in offers[s]
        BY Zenon
      <3>3. k \in {r[1] : r \in {x \in Rows : out[x].status # "None"}} =>
              \E r \in Rows : out[r].status # "None" /\ k = r[1]
        BY Zenon
      <3>4. \/ k \in UNION {c.outs : c \in All}
            \/ k \in {r[1] : r \in {x \in Rows : out[x].status # "None"}}
            \/ k \in utxo \cup cbKeys
        <4> DEFINE A == UNION {c.outs : c \in All}
                   B == {r[1] : r \in {x \in Rows : out[x].status # "None"}}
        <4>1. Used = A \cup cbKeys \cup B \cup utxo
          BY Zenon DEF Used
        <4> HIDE DEF A, B
        <4>2. k \in A \/ k \in B \/ k \in utxo \cup cbKeys
          BY <4>1
        <4>3. QED
          BY <4>2 DEF A, B
      <3>5. CASE k \in UNION {c.outs : c \in All}
        <4> HIDE DEF All
        <4>1. PICK c \in All : k \in c.outs
          BY <3>1, <3>5
        <4>2. PICK s \in Slates : c \in offers[s]
          BY <3>2
        <4>3. QED
          BY <4>1, <4>2
      <3>6. CASE k \in {r[1] : r \in {x \in Rows : out[x].status # "None"}}
        BY <3>3, <3>6
      <3>7. QED
        BY <3>4, <3>5, <3>6
    <2>2. QED
      BY <1>1, <2>1 DEF KeyInv, NodeKeys, SlateKeys, TableKeys, TxBelow
  <1>2. TypeOK /\ KeyInv /\ [Next]_vars =>
          [\A s \in Slates : \A tx \in offers'[s] \ offers[s] : tx.outs \cap Used = {}]_vars
    <2> SUFFICES ASSUME TypeOK, KeyInv, [Next]_vars
                 PROVE  \A s \in Slates : \A tx \in offers'[s] \ offers[s] : tx.outs \cap Used = {}
      OBVIOUS
    <2>1. nextChild \notin Used
      <3>1. ~(nextChild < nextChild)
        BY DEF TypeOK
      <3>2. QED
        BY <1>1, <3>1
    <2>2. QED
      BY <2>1, KeyStep
  <1>3. TypeOK /\ KeyInv /\ [Next]_vars => KeyInv'
    BY KeyStep
  <1>4. QED
    BY <1>2, <1>3, KeyInit, LedgerTypeOK, PTL DEF Spec, KeysAreFresh

-----------------------------------------------------------------------------
(* A confirmation is final *)

\* Log ids from next_tx_log_id on have no entry, and no update holds one: what an
\* update read, it read of ids taken before.
Known(i)  == i < nextLog
FreshLog  == \A i \in LogIds : ~Known(i) => txlog[i] = NoEntry
KnownTodo == \A p \in Updaters : \A i \in upd[p].todo : Known(i)
KnownTxs  == \A p \in Updaters, i \in LogIds : ~Known(i) => upd[p].txs[i] = NoEntry
Fresh     == FreshLog /\ KnownTodo /\ KnownTxs /\ watch = WatchIdle

\* What a step must do: take no confirmed mark away, and no used id back
Stays   == \A i \in LogIds : txlog[i].confirmed => txlog'[i].confirmed
Forward == nextLog <= nextLog'

\* Least of a non-empty set of log ids is one of them.
LEMMA LeastIsIn == ASSUME NEW S \in SUBSET LogIds, S # {} PROVE Least(S) \in S
  <1> DEFINE R == {ss \in Nat \X Nat : ss[1] < ss[2]}
  <1>1. OpToRel(<, Nat) = R
    BY SMT DEF OpToRel
  <1>2. \E x \in S : \A y \in S : ~ (<<y, x>> \in R)
    <2>1. IsWellFoundedOn(R, Nat)
      BY <1>1, NatLessThanWellFounded
    <2>2. S \subseteq Nat
      BY DEF LogIds
    <2> HIDE DEF R
    <2>3. QED
      BY <2>1, <2>2, WFMin
  <1>3. \E x \in S : \A y \in S : x <= y
    <2>1. \A x, y \in Nat : ~ (<<y, x>> \in R) => x <= y
      OBVIOUS
    <2>2. S \subseteq Nat
      BY DEF LogIds
    <2> HIDE DEF R
    <2>3. QED
      BY <1>2, <2>1, <2>2
  <1>4. QED
    BY <1>3 DEF Least

\* A step of which the updates notice nothing keeps what they know.
LEMMA UpdKeeps ==
  ASSUME TypeOK, Fresh, TypeOK', Forward, upd' = upd
  PROVE  KnownTodo' /\ KnownTxs'
  <1>1. \A i \in LogIds : Known(i) => Known(i)'
    BY DEF Known, Forward, LogIds, TypeOK
  <1>2. KnownTodo'
    BY <1>1 DEF Fresh, KnownTodo, TypeOK, UpdateState
  <1>3. KnownTxs'
    BY <1>1 DEF Fresh, KnownTxs
  <1>4. QED
    BY <1>2, <1>3

\* The step of one update: it is enough to look at that update.
LEMMA OneUpdKeeps ==
  ASSUME TypeOK, Fresh, TypeOK', Forward, NEW p \in Updaters, NEW u,
         upd' = [upd EXCEPT ![p] = u],
         \A i \in u.todo : Known(i), \A i \in LogIds : ~Known(i) => u.txs[i] = NoEntry
  PROVE  KnownTodo' /\ KnownTxs'
  <1>1. \A i \in LogIds : Known(i) => Known(i)'
    BY DEF Known, Forward, LogIds, TypeOK
  <1>2. \A q \in Updaters : \/ q = p /\ upd'[q] = u
                            \/ upd'[q] = upd[q]
    BY DEF TypeOK
  <1>3. \A q \in Updaters : upd'[q].todo \subseteq LogIds
    BY DEF TypeOK, UpdateState
  <1>4. KnownTodo'
    BY <1>1, <1>2, <1>3 DEF Fresh, KnownTodo
  <1>5. KnownTxs'
    BY <1>1, <1>2 DEF Fresh, KnownTxs
  <1>6. QED
    BY <1>4, <1>5

\* refresh_outputs confirms entries and adds coinbase entries under new ids.
LEMMA RefreshStays ==
  ASSUME TypeOK, FreshLog, NEW m \in SUBSET Rows, NEW ids \in CoinbaseIds(m),
         RefreshOutputs(m, ids)
  PROVE  FreshLog' /\ Stays /\ Forward
  <1> DEFINE n == Cardinality(NewCoinbases(m))
  <1>1. n \in Nat /\ nextLog \in Nat /\ nextLog' = nextLog + n
    BY FiniteRows DEF NewCoinbases, RefreshOutputs, TypeOK
  <1>2. \A r \in NewCoinbases(m) : nextLog <= ids[r] /\ ids[r] < nextLog + n
    BY DEF CoinbaseIds
  <1>3. \A i \in LogIds : i \in ConfirmedBy(m) => txlog[i] # NoEntry
    BY DEF ConfirmedBy, NoEntry
  <1>4. Stays
    BY <1>3 DEF Stays, RefreshOutputs, RefreshedLog, ApplyLog, NoEntry, TypeOK, TxLogEntry
  <1>5. ASSUME NEW i \in LogIds, ~(i < nextLog') PROVE txlog'[i] = NoEntry
    <2>1. ~(i < nextLog) /\ ~(\E r \in NewCoinbases(m) : ids[r] = i)
      BY <1>1, <1>2, <1>5 DEF LogIds
    <2>2. txlog[i] = NoEntry /\ i \notin ConfirmedBy(m)
      BY <1>3, <2>1 DEF FreshLog, Known
    <2>3. QED
      BY <2>1, <2>2 DEF RefreshOutputs, RefreshedLog, ApplyLog
  <1>6. QED
    BY <1>1, <1>4, <1>5 DEF FreshLog, Known, Forward

\* A new entry takes a fresh id, so it replaces no confirmed one.
LEMMA NewEntryStays ==
  ASSUME TypeOK, FreshLog, NEW e, nextLog \in LogIds,
         txlog' = [txlog EXCEPT ![nextLog] = e], nextLog' = nextLog + 1
  PROVE  FreshLog' /\ Stays /\ Forward
  <1>1. ~txlog[nextLog].confirmed
    BY DEF FreshLog, Known, NoEntry, LogIds
  <1>2. Stays
    BY <1>1 DEF Stays, TypeOK
  <1>3. FreshLog' /\ Forward
    BY DEF FreshLog, Known, Forward, TypeOK, LogIds
  <1>4. QED
    BY <1>2, <1>3

\* A change of an entry that is there, or of the type of one by cancel_tx_log_entry.
LEMMA ChangeStays ==
  ASSUME TypeOK, FreshLog, nextLog' = nextLog, DOMAIN txlog' = LogIds,
         \A i \in LogIds : \/ txlog'[i] = txlog[i]
                           \/ Known(i) /\ (txlog[i].confirmed => txlog'[i].confirmed)
  PROVE  FreshLog' /\ Stays /\ Forward
  <1>1. Stays /\ Forward
    BY DEF Stays, Forward, TypeOK
  <1>2. FreshLog'
    BY DEF FreshLog, Known
  <1>3. QED
    BY <1>1, <1>2
-----------------------------------------------------------------------------
(* One lemma per group of actions *)

Kept == FreshLog' /\ KnownTodo' /\ KnownTxs' /\ Stays

\* API calls and node steps: the updates stand still.
LEMMA ApiStays ==
  ASSUME TypeOK, Fresh, TypeOK',
         \/ \E s \in Slates, pref \in Mmr, change \in BOOLEAN :
              InitSendTx(s, pref, change) \/ ProcessInvoiceTx(s, pref, change)
         \/ \E s \in Slates : \/ TxLockOutputs(s) \/ LockPanics(s)
                              \/ FinalizeTx(s) \/ FinalizeInvoiceTx(s)
                              \/ ReceiveTx(s) \/ IssueInvoiceTx(s)
                              \/ RemoteFinalize(s) \/ PostTx(s) \/ MineTx(s) \/ Fork(s)
         \/ \E k \in Keys : BuildCoinbase(k) \/ MineCoinbase(k)
         \/ MineEmpty
  PROVE  Kept /\ watch' = watch
  <1>0. FreshLog
    BY DEF Fresh
  <1>1. ASSUME FreshLog', Stays, Forward, upd' = upd PROVE Kept
    BY <1>1, UpdKeeps DEF Kept
  <1>2. ASSUME NEW s \in Slates, NEW pref \in Mmr, NEW change \in BOOLEAN,
               AddInputs(s, pref, change)
        PROVE  Kept /\ watch' = watch
    <2>1. \E ids \in CoinbaseIds(MapWalletOutputs(pref)) : RefreshOutputs(MapWalletOutputs(pref), ids)
      BY <1>2 DEF AddInputs
    <2>2. FreshLog' /\ Stays /\ Forward
      BY <1>0, <2>1, MapType, RefreshStays
    <2>3. QED
      BY <1>1, <1>2, <2>2 DEF AddInputs
  <1>3. ASSUME NEW s \in Slates, TxLockOutputs(s) PROVE Kept /\ watch' = watch
    <2>1. nextLog \in LogIds
      <3>1. nextLog < MaxTxs
        BY <1>3 DEF TxLockOutputs
      <3>2. QED
        BY <3>1, ConstantsAssumption DEF TypeOK, LogIds, MaxIds
    <2>2. \E e : txlog' = [txlog EXCEPT ![nextLog] = e]
      BY <1>3 DEF TxLockOutputs
    <2>3. nextLog' = nextLog + 1 /\ upd' = upd /\ watch' = watch
      BY <1>3 DEF TxLockOutputs
    <2>4. QED
      BY <1>0, <1>1, <2>1, <2>2, <2>3, NewEntryStays
  <1>4. ASSUME NEW s \in Slates, LockPanics(s) PROVE Kept /\ watch' = watch
    <2>1. txlog' = txlog /\ nextLog' = nextLog + 1 /\ upd' = upd /\ watch' = watch
      BY <1>4 DEF LockPanics
    <2>2. FreshLog' /\ Stays /\ Forward
      BY <1>0, <2>1 DEF FreshLog, Known, Stays, Forward, TypeOK, LogIds
    <2>3. QED
      BY <1>1, <2>1, <2>2
  <1>5. ASSUME NEW s \in Slates, NEW types, Finalize(s, types) PROVE Kept /\ watch' = watch
    <2> DEFINE es == {i \in EntriesOf(s) : txlog[i].type \in types}
    <2>1. PICK tx \in offers[s] : es # {} /\ txlog' = [txlog EXCEPT ![Least(es)].kernel_excess = tx]
      BY <1>5 DEF Finalize, UpdateStoredTx
    <2>2. Least(es) \in es /\ es \subseteq LogIds
      BY <2>1, LeastIsIn DEF EntriesOf
    <2>3. Known(Least(es))
      BY <1>0, <2>2 DEF FreshLog, EntriesOf, NoEntry
    <2>4. \A i \in LogIds : \/ txlog'[i] = txlog[i]
                            \/ Known(i) /\ (txlog[i].confirmed => txlog'[i].confirmed)
      <3> HIDE DEF es
      <3> QED BY <2>1, <2>2, <2>3 DEF TypeOK, TxLogEntry
    <2>5. nextLog' = nextLog /\ upd' = upd /\ watch' = watch /\ DOMAIN txlog' = LogIds
      BY <1>5 DEF Finalize, TypeOK
    <2>6. QED
      BY <1>0, <1>1, <2>4, <2>5, ChangeStays
  <1>6. ASSUME NEW s \in Slates, ReceiveTx(s) \/ IssueInvoiceTx(s) PROVE Kept /\ watch' = watch
    <2>1. \E x : BuildRecipientOutput(s, x)
      BY <1>6 DEF ReceiveTx, IssueInvoiceTx
    <2>2. nextLog \in LogIds
      <3>1. nextLog < MaxTxs
        BY <2>1 DEF BuildRecipientOutput
      <3>2. QED
        BY <3>1, ConstantsAssumption DEF TypeOK, LogIds, MaxIds
    <2>3. \E e : txlog' = [txlog EXCEPT ![nextLog] = e]
      BY <2>1 DEF BuildRecipientOutput
    <2>4. nextLog' = nextLog + 1 /\ upd' = upd /\ watch' = watch
      BY <2>1 DEF BuildRecipientOutput
    <2>5. QED
      BY <1>0, <1>1, <2>2, <2>3, <2>4, NewEntryStays
  <1>7. ASSUME UNCHANGED <<txlog, nextLog, upd, watch>> PROVE Kept /\ watch' = watch
    <2>1. FreshLog' /\ Stays /\ Forward
      BY <1>0, <1>7 DEF FreshLog, Known, Stays, Forward, TypeOK
    <2>2. QED
      BY <1>1, <1>7, <2>1
  <1>8. ASSUME NEW s \in Slates, RemoteFinalize(s) \/ PostTx(s) \/ MineTx(s) \/ Fork(s)
        PROVE  Kept /\ watch' = watch
    BY <1>7, <1>8 DEF RemoteFinalize, PostTx, MineTx, Fork, ChainUnchanged, dbVars
  <1>9. ASSUME NEW k \in Keys, BuildCoinbase(k) \/ MineCoinbase(k)
        PROVE  Kept /\ watch' = watch
    BY <1>7, <1>9 DEF BuildCoinbase, MineCoinbase, ChainUnchanged, dbVars
  <1>10. CASE MineEmpty
    BY <1>7, <1>10 DEF MineEmpty, ChainUnchanged, dbVars
  <1>11. QED
    BY <1>2, <1>3, <1>4, <1>5, <1>6, <1>8, <1>9, <1>10
       DEF InitSendTx, ProcessInvoiceTx, FinalizeTx, FinalizeInvoiceTx

\* The steps of an update.
LEMMA UpdateStays ==
  ASSUME TypeOK, Fresh, TypeOK', NEW p \in Updaters,
         \/ UpdateStep(p) \/ UpdateFails(p)
         \/ \E i \in LogIds, pref \in Mmr : StartCancel(p, i, pref)
         \/ \E pref \in Mmr : StartScan(p, pref)
  PROVE  Kept /\ watch' = watch
  <1> DEFINE u == upd[p]
             Ok(v) == (\A i \in v.todo : Known(i)) /\ \A i \in LogIds : ~Known(i) => v.txs[i] = NoEntry
  <1>0. /\ FreshLog /\ u \in UpdateState
        /\ \A i \in u.todo : Known(i)
        /\ \A i \in LogIds : ~Known(i) => u.txs[i] = NoEntry
    BY DEF Fresh, KnownTodo, KnownTxs, TypeOK
  <1>1. ASSUME FreshLog', Stays, Forward, NEW v, upd' = [upd EXCEPT ![p] = v], Ok(v)
        PROVE  Kept
    BY <1>1, OneUpdKeeps DEF Kept
  <1>2. ASSUME nextLog' = nextLog, txlog' = txlog PROVE FreshLog' /\ Stays /\ Forward
    BY <1>0, <1>2 DEF FreshLog, Known, Stays, Forward, TypeOK
  <1>3. Ok(UpdateIdle)
    BY DEF UpdateIdle
  <1>4. Ok(AfterScan(p))
    <2>1. \A i \in LogIds : ~Known(i) => u.txs[i].ttl = 0
      BY <1>0 DEF NoEntry
    <2>2. QED
      BY <1>3, <2>1 DEF AfterScan, UpdateIdle
  <1>5. ASSUME NEW job, NEW goal, NEW pref \in Mmr, UpdateOutputs(p, job, goal, pref)
        PROVE  Kept /\ watch' = watch
    <2> DEFINE pc == IF job = "scan" THEN "chain" ELSE "outstanding"
               v  == [u EXCEPT !.pc = pc, !.job = job, !.goal = goal]
    <2>1. \E ids \in CoinbaseIds(MapWalletOutputs(pref)) : RefreshOutputs(MapWalletOutputs(pref), ids)
      BY <1>5 DEF UpdateOutputs
    <2>2. FreshLog' /\ Stays /\ Forward
      BY <1>0, <2>1, MapType, RefreshStays
    <2>3. upd' = [upd EXCEPT ![p] = v]
      BY <1>5 DEF UpdateOutputs, TypeOK
    <2>4. v.todo = u.todo /\ v.txs = u.txs
      BY <1>0 DEF UpdateState
    <2>5. Kept
      <3> HIDE DEF v
      <3> QED BY <1>0, <1>1, <2>2, <2>3, <2>4
    <2>6. QED
      BY <1>5, <2>5 DEF UpdateOutputs, Unchanged
  <1>6. CASE RetrieveOutstanding(p)
    <2> DEFINE os == {i \in LogIds : Outstanding(txlog[i])}
               f  == [i \in LogIds |-> IF i \in os THEN txlog[i] ELSE NoEntry]
               v  == [u EXCEPT !.pc = "kernels", !.todo = os, !.txs = f]
    <2>1. upd' = [upd EXCEPT ![p] = v] /\ nextLog' = nextLog /\ txlog' = txlog /\ watch' = watch
      BY <1>6 DEF RetrieveOutstanding, TypeOK, dbVars, Unchanged
    <2>2. \A i \in os : Known(i)
      BY <1>0 DEF FreshLog, Outstanding, NoEntry
    <2>3. v.todo = os /\ v.txs = f
      <3> HIDE DEF os, f, u
      <3> QED BY <1>0 DEF UpdateState
    <2>4. Ok(v)
      <3> HIDE DEF v, os
      <3> QED BY <2>2, <2>3
    <2>5. QED
      <3> HIDE DEF v, Ok
      <3> QED BY <1>1, <1>2, <2>1, <2>4
  <1>7. CASE UpdateTxViaKernel(p)
    <2> DEFINE i == Least(u.todo)
               c == [u.txs[i] EXCEPT !.confirmed = TRUE]
               v == [u EXCEPT !.todo = @ \ {i}]
               w == [u EXCEPT !.todo = @ \ {i}, !.txs[i] = c]
    <2>1. i \in LogIds /\ Known(i)
      BY <1>0, <1>7, LeastIsIn DEF UpdateTxViaKernel, UpdateState
    <2>2. nextLog' = nextLog /\ watch' = watch
      BY <1>7 DEF UpdateTxViaKernel, Unchanged
    <2>3. \/ upd' = [upd EXCEPT ![p] = v] /\ txlog' = txlog
          \/ upd' = [upd EXCEPT ![p] = w] /\ txlog' = [txlog EXCEPT ![i] = c]
      BY <1>7 DEF UpdateTxViaKernel, TypeOK
    <2>4. c.confirmed
      BY <1>0, <2>1 DEF UpdateState, TxLogEntry
    <2>5. Ok(v)
      <3>1. v.todo = u.todo \ {i} /\ v.txs = u.txs
        BY <1>0 DEF UpdateState
      <3>2. QED
        BY <1>0, <3>1
    <2>6. Ok(w)
      <3>1. w.todo = u.todo \ {i} /\ w.txs = [u.txs EXCEPT ![i] = c]
        BY <1>0 DEF UpdateState
      <3>2. u.txs \in [LogIds -> TxLogEntry]
        BY <1>0 DEF UpdateState
      <3> HIDE DEF w, c, i
      <3>3. QED
        BY <1>0, <2>1, <3>1, <3>2
    <2> HIDE DEF v, w, c, i, Ok
    <2>7. CASE upd' = [upd EXCEPT ![p] = v] /\ txlog' = txlog
      BY <1>1, <1>2, <2>2, <2>5, <2>7
    <2>8. CASE upd' = [upd EXCEPT ![p] = w] /\ txlog' = [txlog EXCEPT ![i] = c]
      <3>1. FreshLog' /\ Stays /\ Forward
        BY <1>0, <2>1, <2>2, <2>4, <2>8, ChangeStays DEF TypeOK
      <3>2. QED
        BY <1>1, <2>2, <2>6, <2>8, <3>1
    <2>9. QED
      BY <2>3, <2>7, <2>8
  <1>8. CASE KernelsDone(p)
    <2> DEFINE v == [u EXCEPT !.pc = "chain"]
    <2>1. upd' = [upd EXCEPT ![p] = v] /\ nextLog' = nextLog /\ txlog' = txlog /\ watch' = watch
      BY <1>8 DEF KernelsDone, TypeOK, dbVars, Unchanged
    <2>2. v.todo = u.todo /\ v.txs = u.txs
      BY <1>0 DEF UpdateState
    <2>3. QED
      <3> HIDE DEF v
      <3> QED BY <1>0, <1>1, <1>2, <2>1, <2>2
  <1>9. CASE CollectChainOutputs(p)
    <2> DEFINE v == [u EXCEPT !.pc = "wallet", !.tip = tip, !.chain = {<<k, mmr[k]>> : k \in utxo}]
    <2>1. upd' = [upd EXCEPT ![p] = v] /\ nextLog' = nextLog /\ txlog' = txlog /\ watch' = watch
      BY <1>9 DEF CollectChainOutputs, TypeOK, dbVars, Unchanged
    <2>2. v.todo = u.todo /\ v.txs = u.txs
      BY <1>0 DEF UpdateState
    <2>3. QED
      <3> HIDE DEF v
      <3> QED BY <1>0, <1>1, <1>2, <2>1, <2>2
  <1>10. ASSUME NEW pref \in Mmr, ScanReadOutputs(p, pref) PROVE Kept /\ watch' = watch
    <2>1. PICK a, b, c, d, e, f, g :
            upd' = [upd EXCEPT ![p].pc = "repair", ![p].chain = a, ![p].rows = b,
                               ![p].idx = c, ![p].fix = d, ![p].miss = e,
                               ![p].locked = f, ![p].unconf = g]
      BY ZenonT(30), <1>10 DEF ScanReadOutputs
    <2> DEFINE v == [u EXCEPT !.pc = "repair", !.chain = a, !.rows = b, !.idx = c, !.fix = d,
                              !.miss = e, !.locked = f, !.unconf = g]
    <2>2. upd' = [upd EXCEPT ![p] = v]
      BY <2>1 DEF TypeOK
    <2>3. v.todo = u.todo /\ v.txs = u.txs
      BY <1>0 DEF UpdateState
    <2>4. nextLog' = nextLog /\ txlog' = txlog /\ watch' = watch
      BY <1>10 DEF ScanReadOutputs, dbVars, Unchanged
    <2>5. QED
      <3> HIDE DEF v
      <3> QED BY <1>0, <1>1, <1>2, <2>2, <2>3, <2>4
  <1>11. ASSUME NEW e PROVE \A i \in LogIds :
           LET x == IF i = e THEN [txlog[i] EXCEPT !.type = CancelledType(@)] ELSE txlog[i]
           IN  x = txlog[i] \/ (Known(i) /\ (txlog[i].confirmed => x.confirmed))
    <2>1. [NoEntry EXCEPT !.type = CancelledType(@)] = NoEntry
      BY DEF NoEntry, CancelledType
    <2>2. \A i \in LogIds : txlog[i].confirmed => [txlog[i] EXCEPT !.type = CancelledType(@)].confirmed
      BY DEF TypeOK, TxLogEntry
    <2>3. QED
      BY <1>0, <2>1, <2>2 DEF FreshLog
  <1>12. ASSUME NEW e, nextLog' = nextLog,
                txlog' = [i \in LogIds |-> IF i = e THEN [txlog[i] EXCEPT !.type = CancelledType(@)]
                                            ELSE txlog[i]]
         PROVE  FreshLog' /\ Stays /\ Forward
    BY <1>0, <1>11, <1>12, ChangeStays
  <1>13. ASSUME NEW r \in Rows, ScanIndexOutput(p, r) PROVE Kept /\ watch' = watch
    <2> DEFINE v == [u EXCEPT !.idx = @ \ {r}]
    <2>1. upd' = [upd EXCEPT ![p] = v] /\ nextLog' = nextLog /\ txlog' = txlog /\ watch' = watch
      BY <1>13 DEF ScanIndexOutput, TypeOK, Unchanged
    <2>2. v.todo = u.todo /\ v.txs = u.txs
      BY <1>0 DEF UpdateState
    <2>3. QED
      <3> HIDE DEF v
      <3> QED BY <1>0, <1>1, <1>2, <2>1, <2>2
  <1>14. ASSUME NEW r \in Rows, ScanUnspendOutput(p, r) PROVE Kept /\ watch' = watch
    <2> DEFINE v == [u EXCEPT !.fix = @ \ {r}]
    <2>1. upd' = [upd EXCEPT ![p] = v] /\ watch' = watch
      BY <1>14 DEF ScanUnspendOutput, UnspendRow, TypeOK, Unchanged
    <2>2. v.todo = u.todo /\ v.txs = u.txs
      BY <1>0 DEF UpdateState
    <2>3. FreshLog' /\ Stays /\ Forward
      BY <1>12, <1>14 DEF ScanUnspendOutput, UnspendRow
    <2>4. QED
      <3> HIDE DEF v
      <3> QED BY <1>0, <1>1, <2>1, <2>2, <2>3
  <1>15. ASSUME NEW r \in Rows, ScanUnlockOutput(p, r) PROVE Kept /\ watch' = watch
    <2> DEFINE v == [u EXCEPT !.locked = @ \ {r}]
    <2>1. upd' = [upd EXCEPT ![p] = v] /\ watch' = watch
      BY <1>15 DEF ScanUnlockOutput, UnspendRow, TypeOK, Unchanged
    <2>2. v.todo = u.todo /\ v.txs = u.txs
      BY <1>0 DEF UpdateState
    <2>3. FreshLog' /\ Stays /\ Forward
      BY <1>12, <1>15 DEF ScanUnlockOutput, UnspendRow
    <2>4. QED
      <3> HIDE DEF v
      <3> QED BY <1>0, <1>1, <2>1, <2>2, <2>3
  <1>16. ASSUME NEW r \in Rows, ScanDeleteOutput(p, r) PROVE Kept /\ watch' = watch
    <2> DEFINE v == [u EXCEPT !.unconf = @ \ {r}]
    <2>1. upd' = [upd EXCEPT ![p] = v] /\ watch' = watch
      BY <1>16 DEF ScanDeleteOutput, TypeOK, Unchanged
    <2>2. v.todo = u.todo /\ v.txs = u.txs
      BY <1>0 DEF UpdateState
    <2>3. FreshLog' /\ Stays /\ Forward
      BY <1>12, <1>16 DEF ScanDeleteOutput
    <2>4. QED
      <3> HIDE DEF v
      <3> QED BY <1>0, <1>1, <2>1, <2>2, <2>3
  <1>17. ASSUME NEW r \in Rows, RestoreMissingOutput(p, r) PROVE Kept /\ watch' = watch
    <2> DEFINE v == [u EXCEPT !.miss = @ \ {r}, !.found = IF r[1] >= @ THEN r[1] + 1 ELSE @]
    <2>1. upd' = [upd EXCEPT ![p] = v] /\ watch' = watch
      BY <1>17 DEF RestoreMissingOutput, TypeOK, Unchanged
    <2>2. v.todo = u.todo /\ v.txs = u.txs
      BY <1>0 DEF UpdateState
    <2>3. nextLog < MaxIds
      BY <1>17 DEF RestoreMissingOutput
    <2>4. nextLog \in LogIds
      BY <2>3, ConstantsAssumption DEF TypeOK, LogIds, MaxIds
    <2>5. \E e : txlog' = [txlog EXCEPT ![nextLog] = e] /\ nextLog' = nextLog + 1
      BY <1>17 DEF RestoreMissingOutput
    <2>6. FreshLog' /\ Stays /\ Forward
      BY <1>0, <2>4, <2>5, NewEntryStays
    <2>7. QED
      <3> HIDE DEF v
      <3> QED BY <1>0, <1>1, <2>1, <2>2, <2>6
  <1>18. CASE ScanReadChildIndex(p)
    <2>1. [u EXCEPT !.pc = "index"].todo = u.todo /\ [u EXCEPT !.pc = "index"].txs = u.txs
      BY <1>0 DEF UpdateState
    <2>2. Ok([u EXCEPT !.pc = "index"])
      BY <1>0, <2>1
    <2>3. \E v : upd' = [upd EXCEPT ![p] = v] /\ Ok(v)
      <3> HIDE DEF Ok
      <3> QED BY <1>4, <1>18, <2>2 DEF ScanReadChildIndex
    <2>4. nextLog' = nextLog /\ txlog' = txlog /\ watch' = watch
      BY <1>18 DEF ScanReadChildIndex, dbVars, Unchanged
    <2>5. QED
      <3> HIDE DEF Ok
      <3> QED BY <1>1, <1>2, <2>3, <2>4
  <1>19. CASE ScanSaveChildIndex(p)
    <2>1. /\ upd' = [upd EXCEPT ![p] = AfterScan(p)]
          /\ nextLog' = nextLog /\ txlog' = txlog /\ watch' = watch
      BY <1>19 DEF ScanSaveChildIndex, Unchanged
    <2>2. QED
      <3> HIDE DEF Ok
      <3> QED BY <1>1, <1>2, <1>4, <2>1
  <1>20. ASSUME NEW i \in LogIds, Cancellable(txlog[i]), CancelTxAndOutputs(i), nextLog' = nextLog
         PROVE  FreshLog' /\ Stays /\ Forward
    <2>1. Known(i)
      BY <1>0, <1>20 DEF FreshLog, Cancellable, NoEntry
    <2>2. \A j \in LogIds : \/ txlog'[j] = txlog[j]
                            \/ Known(j) /\ (txlog[j].confirmed => txlog'[j].confirmed)
      BY <1>20, <2>1 DEF CancelTxAndOutputs, TypeOK, TxLogEntry
    <2>3. DOMAIN txlog' = LogIds
      BY <1>20 DEF CancelTxAndOutputs, TypeOK
    <2>4. QED
      BY <1>0, <1>20, <2>2, <2>3, ChangeStays
  <1>21. CASE ExpireTx(p)
    <2> DEFINE i == Least(u.todo)
               v == [u EXCEPT !.todo = @ \ {i}]
    <2>1. i \in LogIds /\ nextLog' = nextLog /\ watch' = watch
      BY <1>0, <1>21, LeastIsIn DEF ExpireTx, UpdateState, Unchanged
    <2>2. Ok(v)
      <3>1. v.todo = u.todo \ {i} /\ v.txs = u.txs
        BY <1>0 DEF UpdateState
      <3>2. QED
        BY <1>0, <3>1
    <2>3. CASE Cancellable(txlog[i])
      <3>1. CancelTxAndOutputs(i) /\ upd' = [upd EXCEPT ![p] = v]
        BY <1>21, <2>3 DEF ExpireTx, TypeOK
      <3> HIDE DEF i, v, Ok
      <3>2. QED
        BY <1>1, <1>20, <2>1, <2>2, <2>3, <3>1
    <2>4. CASE ~Cancellable(txlog[i])
      <3>1. upd' = [upd EXCEPT ![p] = UpdateIdle] /\ txlog' = txlog
        BY <1>21, <2>4 DEF ExpireTx
      <3> HIDE DEF i, v, Ok
      <3>2. QED
        BY <1>1, <1>2, <1>3, <2>1, <3>1
    <2>5. QED
      BY <2>3, <2>4
  <1>22. CASE UpdateDone(p)
    <2>1. [u EXCEPT !.pc = "cancel"].todo = u.todo /\ [u EXCEPT !.pc = "cancel"].txs = u.txs
      BY <1>0 DEF UpdateState
    <2>2. Ok([u EXCEPT !.pc = "cancel"])
      BY <1>0, <2>1
    <2>3. \E v : upd' = [upd EXCEPT ![p] = v] /\ Ok(v)
      <3> HIDE DEF Ok
      <3> QED BY <1>3, <1>22, <2>2 DEF UpdateDone
    <2>4. nextLog' = nextLog /\ txlog' = txlog /\ watch' = watch
      BY <1>22 DEF UpdateDone, dbVars, Unchanged
    <2>5. QED
      <3> HIDE DEF Ok
      <3> QED BY <1>1, <1>2, <2>3, <2>4
  <1>23. CASE CancelTx(p)
    <2>1. upd' = [upd EXCEPT ![p] = UpdateIdle] /\ nextLog' = nextLog /\ watch' = watch
      BY <1>23 DEF CancelTx, Unchanged
    <2>2. FreshLog' /\ Stays /\ Forward
      <3>1. CASE u.goal \in LogIds
        BY <1>2, <1>20, <1>23, <2>1, <3>1 DEF CancelTx
      <3>2. CASE u.goal \notin LogIds
        <4>1. txlog' = txlog
          <5>1. CancelTxAndOutputs(u.goal) => txlog' = txlog
            BY <3>2 DEF CancelTxAndOutputs, TypeOK
          <5>2. QED
            BY <1>23, <5>1 DEF CancelTx
        <4>2. QED
          BY <1>2, <2>1, <4>1
      <3>3. QED
        BY <3>1, <3>2
    <2>3. QED
      <3> HIDE DEF Ok
      <3> QED BY <1>1, <1>3, <2>1, <2>2
  <1>24. CASE UpdateFails(p)
    <2>1. /\ upd' = [upd EXCEPT ![p] = UpdateIdle]
          /\ nextLog' = nextLog /\ txlog' = txlog /\ watch' = watch
      BY <1>24 DEF UpdateFails, dbVars
    <2>2. QED
      <3> HIDE DEF Ok
      <3> QED BY <1>1, <1>2, <1>3, <2>1
  <1>25. QED
    BY <1>5, <1>6, <1>7, <1>8, <1>9, <1>10, <1>13, <1>14, <1>15, <1>16, <1>17, <1>18, <1>19,
       <1>21, <1>22, <1>23, <1>24 DEF UpdateStep, StartUpdate, StartCancel, StartScan

\* With the mempool watch off, an entry once marked confirmed stays so: no write of
\* an update, however old the entry it read, and no cancellation takes it back.
THEOREM ConfirmationIsFinal == ASSUME Watch = FALSE PROVE Spec => ConfirmedStays
  <1>1. Init => Fresh
    BY DEF Init, Fresh, FreshLog, KnownTodo, KnownTxs, UpdateIdle
  <1>2. TypeOK /\ Fresh /\ [Next]_vars => Fresh' /\ Stays
    <2> SUFFICES ASSUME TypeOK, Fresh, [Next]_vars PROVE Fresh' /\ Stays
      OBVIOUS
    <2>1. TypeOK'
      BY NextType
    <2>2. ~WatchStep
      BY DEF Fresh, WatchStep, PollMempool, ReadWatchedEntries, SaveWatchedEntry,
             UpdateMempoolStatus, WatchIdle
    <2>3. CASE UNCHANGED vars
      BY <2>3 DEF vars, dbVars, Fresh, FreshLog, KnownTodo, KnownTxs, Known, Stays
    <2>4. CASE Next
      <3>1. Kept /\ watch' = watch
        BY <2>1, <2>2, <2>4, ApiStays, UpdateStays DEF Next
      <3>2. QED
        BY <3>1 DEF Kept, Fresh
    <2>5. QED
      BY <2>3, <2>4
  <1>3. TypeOK /\ Fresh /\ [Next]_vars =>
          [\A i \in LogIds : txlog[i].confirmed => txlog'[i].confirmed]_vars
    BY <1>2 DEF Stays
  <1>4. QED
    BY <1>1, <1>2, <1>3, LedgerTypeOK, PTL DEF Spec, ConfirmedStays

-----------------------------------------------------------------------------
(* All or none: no output of an unconfirmed transaction is spendable.  A row *)
(* is written back as it was read in an earlier section, so the rows the     *)
(* updates hold must satisfy what the table does.                            *)

\* In log L with next id n: the entry, if live, is confirmed; a row names an id
\* that was taken, and if it is unspent an entry that is settled; an entry that
\* waits for confirmation is one that cancel_tx_log_entry cancels.
Settled(L, i)  == L[i].type \in Live => L[i].confirmed
RowOk(L, n, o) == o.entry \in LogIds => o.entry < n /\ (o.status = "Unspent" => Settled(L, o.entry))
PendingOk(e)   == e.type \in Live /\ ~e.confirmed => e.type \in {"TxSentCreated", "TxReceived"}

TableSettled == \A r \in Rows : RowOk(txlog, nextLog, out[r])
ReadSettled  == \A p \in Updaters : \A r \in Rows : RowOk(txlog, nextLog, upd[p].rows[r])
Pending      == \A i \in LogIds : PendingOk(txlog[i])
SettledInv   == TableSettled /\ ReadSettled /\ Pending

\* What a step may do to an entry: confirm it, cancel it, change neither its type
\* nor its mark, or write a new one under a fresh id.
Moves(e, f) == \/ f.confirmed
               \/ f.type = e.type /\ f.confirmed = e.confirmed
               \/ f.type = CancelledType(e.type) /\ f.confirmed = e.confirmed
LogMoves    == \A i \in LogIds : \/ Moves(txlog[i], txlog'[i])
                                 \/ ~Known(i) /\ txlog'[i].type \in {"TxSentCreated", "TxReceived"}

\* A row that is all right stays so while it is not written.
LEMMA RowsStay ==
  ASSUME TypeOK, TypeOK', Forward, LogMoves, NEW o, RowOk(txlog, nextLog, o)
  PROVE  RowOk(txlog', nextLog', o)
  <1>1. SUFFICES ASSUME o.entry \in LogIds
                 PROVE  o.entry < nextLog' /\ (o.status = "Unspent" => Settled(txlog', o.entry))
    BY DEF RowOk
  <1> DEFINE i == o.entry
  <1>2. i < nextLog /\ (o.status = "Unspent" => Settled(txlog, i))
    BY <1>1 DEF RowOk
  <1>3. i < nextLog'
    BY SMTT(30), <1>1, <1>2 DEF Forward, TypeOK, LogIds
  <1>4. Moves(txlog[i], txlog'[i])
    BY <1>1, <1>2 DEF LogMoves, Known
  <1>5. Settled(txlog, i) => Settled(txlog', i)
    <2>1. CancelledType(txlog[i].type) \in Live => txlog[i].type \in Live
      BY DEF CancelledType, Live
    <2>2. QED
      BY <1>4, <2>1 DEF Moves, Settled
  <1>6. QED
    BY <1>2, <1>3, <1>5

\* Entries that wait for confirmation stay ones that can be cancelled.
LEMMA PendingStays ==
  ASSUME Pending, LogMoves
  PROVE  Pending'
  <1>1. ASSUME NEW i \in LogIds PROVE PendingOk(txlog'[i])
    <2>1. PendingOk(txlog[i])
      BY DEF Pending
    <2>2. CASE Moves(txlog[i], txlog'[i])
      <3>1. CancelledType(txlog[i].type) \in Live => CancelledType(txlog[i].type) = txlog[i].type
        BY DEF CancelledType, Live
      <3>2. QED
        BY <2>1, <2>2, <3>1 DEF Moves, PendingOk
    <2>3. CASE txlog'[i].type \in {"TxSentCreated", "TxReceived"}
      BY <2>3 DEF PendingOk
    <2>4. QED
      BY <2>2, <2>3 DEF LogMoves
  <1>2. QED
    BY <1>1 DEF Pending

\* Cancelling an entry settles it.
LEMMA CancelSettles ==
  ASSUME TypeOK, Pending, NEW i \in LogIds, txlog'[i].confirmed = txlog[i].confirmed,
         txlog'[i].type = CancelledType(txlog[i].type)
  PROVE  Settled(txlog', i)
  <1>1. PendingOk(txlog[i])
    BY DEF Pending
  <1>2. CASE txlog[i].type \in {"TxSentCreated", "TxReceived"}
    BY <1>2 DEF CancelledType, Settled, Live
  <1>3. CASE txlog[i].type \notin {"TxSentCreated", "TxReceived"}
    <2>1. CancelledType(txlog[i].type) = txlog[i].type
      BY <1>3 DEF CancelledType
    <2>2. QED
      BY <1>1, <1>3, <2>1 DEF PendingOk, Settled
  <1>4. QED
    BY <1>2, <1>3

\* A step that moves the log as it may and writes only good rows keeps the
\* invariant; an update that reads, reads the table.
LEMMA SettledKept ==
  ASSUME TypeOK, TypeOK', SettledInv, Forward, LogMoves,
         \A r \in Rows : \/ out'[r] = out[r] \/ RowOk(txlog', nextLog', out'[r]),
         \A p \in Updaters, r \in Rows : \/ upd'[p].rows[r] = upd[p].rows[r]
                                         \/ upd'[p].rows[r] \in {NoRow, out[r]}
  PROVE  SettledInv'
  <1>1. \A o : RowOk(txlog, nextLog, o) => RowOk(txlog', nextLog', o)
    BY RowsStay
  <1>2. TableSettled'
    BY <1>1 DEF SettledInv, TableSettled
  <1>3. RowOk(txlog', nextLog', NoRow)
    BY DEF RowOk, NoRow, NoId, LogIds
  <1>4. ReadSettled'
    BY <1>1, <1>3 DEF SettledInv, TableSettled, ReadSettled
  <1>5. Pending'
    BY PendingStays DEF SettledInv
  <1>6. QED
    BY <1>2, <1>4, <1>5 DEF SettledInv

\* refresh_outputs: an output found on chain becomes unspent together with the
\* confirmation of its entry.
LEMMA RefreshSettles ==
  ASSUME TypeOK, TypeOK', FreshLog, SettledInv, NEW m \in SUBSET Rows, NEW ids \in CoinbaseIds(m),
         RefreshOutputs(m, ids)
  PROVE  /\ Forward /\ LogMoves
         /\ \A r \in Rows : \/ out'[r] = out[r] \/ RowOk(txlog', nextLog', out'[r])
  <1>1. Forward
    BY RefreshStays
  <1>2. ASSUME NEW i \in LogIds
        PROVE  /\ Moves(txlog[i], txlog'[i])
               /\ tip >= lch /\ i \in ConfirmedBy(m) => txlog'[i].confirmed
               /\ tip >= lch /\ (\E r \in NewCoinbases(m) : ids[r] = i) =>
                    txlog'[i].type = "ConfirmedCoinbase"
    <2>1. txlog[i] \in TxLogEntry /\ tip \in Nat /\ lch \in Nat
      BY DEF TypeOK
    <2>2. \/ txlog'[i] = txlog[i] /\ (tip < lch \/ (i \notin ConfirmedBy(m) /\ ~\E r \in NewCoinbases(m) : ids[r] = i))
          \/ txlog'[i].confirmed /\ txlog'[i].type = "ConfirmedCoinbase"
          \/ txlog'[i].confirmed /\ ~\E r \in NewCoinbases(m) : ids[r] = i
      <3>1. [NoEntry EXCEPT !.type = "ConfirmedCoinbase", !.confirmed = TRUE].confirmed
            /\ [NoEntry EXCEPT !.type = "ConfirmedCoinbase", !.confirmed = TRUE].type = "ConfirmedCoinbase"
        BY DEF NoEntry
      <3>2. [txlog[i] EXCEPT !.confirmed = TRUE, !.type = ConfirmedType(txlog[i].type)].confirmed
        BY <2>1 DEF TxLogEntry
      <3>3. QED
        BY <3>1, <3>2 DEF RefreshOutputs, RefreshedLog, ApplyLog
    <2>3. QED
      BY <2>1, <2>2 DEF Moves
  <1>3. LogMoves
    BY <1>2 DEF LogMoves
  <1>4. ASSUME NEW r \in Rows, out'[r] # out[r] PROVE RowOk(txlog', nextLog', out'[r])
    <2> DEFINE o == out[r]
    <2>1. o \in OutputData /\ RowOk(txlog, nextLog, o) /\ out'[r] \in OutputData
      BY DEF TypeOK, SettledInv, TableSettled
    <2>2. RowOk(txlog', nextLog', NoRow)
      BY DEF RowOk, NoRow, NoId, LogIds
    <2>3. RowOk(txlog', nextLog', o)
      BY <1>1, <1>3, <2>1, RowsStay
    <2>4. out'[r] \in {NoRow, o} \/ (tip >= lch /\ out'[r] = ApplyOut(m, ids)[r])
      BY DEF RefreshOutputs, RefreshedOut, CleanOldUnconfirmed, TypeOK
    <2>5. ASSUME tip >= lch, out'[r] = ApplyOut(m, ids)[r] PROVE RowOk(txlog', nextLog', out'[r])
      <3>1. \/ out'[r] = MarkSpent(o)
            \/ r \in NewCoinbases(m) /\ out'[r] = MarkUnspent([o EXCEPT !.entry = ids[r]])
            \/ r \notin NewCoinbases(m) /\ r \in m /\ r[1] \in utxo /\ out'[r] = MarkUnspent(o)
        BY <1>4, <2>5 DEF ApplyOut
      <3>2. CASE out'[r] = MarkSpent(o)
        <4>1. (MarkSpent(o).entry = o.entry /\ MarkSpent(o).status = "Spent") \/ MarkSpent(o) = o
          BY <2>1 DEF MarkSpent, OutputData
        <4>2. QED
          BY <2>3, <3>2, <4>1 DEF RowOk
      <3>3. CASE r \in NewCoinbases(m) /\ out'[r] = MarkUnspent([o EXCEPT !.entry = ids[r]])
        <4>1. out'[r].entry = ids[r]
          BY <2>1, <3>3 DEF MarkUnspent, OutputData
        <4>2. ids[r] \in LogIds /\ ids[r] < nextLog + Cardinality(NewCoinbases(m))
          BY <3>3 DEF CoinbaseIds
        <4>3. txlog'[ids[r]].type = "ConfirmedCoinbase"
          BY <1>2, <2>5, <3>3, <4>2
        <4>4. Settled(txlog', ids[r])
          BY <4>3 DEF Settled, Live
        <4>5. QED
          BY <4>1, <4>2, <4>4 DEF RowOk, RefreshOutputs
      <3>4. CASE r \notin NewCoinbases(m) /\ r \in m /\ r[1] \in utxo /\ out'[r] = MarkUnspent(o)
        <4>1. o.status = "Unconfirmed" /\ out'[r] = [o EXCEPT !.status = "Unspent"]
          BY <1>4, <3>4 DEF MarkUnspent
        <4>2. ~o.cb
          BY <2>5, <3>4, <4>1 DEF NewCoinbases, TypeOK
        <4>3. out'[r].entry = o.entry
          BY <2>1, <4>1 DEF OutputData
        <4>4. ASSUME o.entry \in LogIds PROVE o.entry < nextLog' /\ Settled(txlog', o.entry)
          <5>1. o.entry < nextLog'
            BY <2>3, <4>4 DEF RowOk
          <5>2. CASE txlog[o.entry].type # "None"
            <6>1. o.entry \in ConfirmedBy(m)
              BY <3>4, <4>1, <4>2, <4>4, <5>2 DEF ConfirmedBy
            <6>2. QED
              BY <1>2, <2>5, <4>4, <5>1, <6>1 DEF Settled
          <5>3. CASE txlog[o.entry].type = "None"
            <6>1. Moves(txlog[o.entry], txlog'[o.entry])
              BY <1>2, <4>4
            <6>2. QED
              BY <5>1, <5>3, <6>1 DEF Moves, Settled, Live, CancelledType
          <5>4. QED
            BY <5>2, <5>3
        <4>5. QED
          BY <4>3, <4>4 DEF RowOk
      <3>5. QED
        BY <3>1, <3>2, <3>3, <3>4
    <2>6. QED
      BY <2>2, <2>3, <2>4, <2>5
  <1>5. QED
    BY <1>1, <1>3, <1>4

\* The API calls and the node: new outputs wait for confirmation, and inputs are
\* locked, so nothing becomes unspent but what the refresh finds on chain.
LEMMA ApiSettled ==
  ASSUME TypeOK, Fresh, SettledInv, TypeOK',
         \/ \E s \in Slates, pref \in Mmr, change \in BOOLEAN :
              InitSendTx(s, pref, change) \/ ProcessInvoiceTx(s, pref, change)
         \/ \E s \in Slates : \/ TxLockOutputs(s) \/ LockPanics(s)
                              \/ FinalizeTx(s) \/ FinalizeInvoiceTx(s)
                              \/ ReceiveTx(s) \/ IssueInvoiceTx(s)
                              \/ RemoteFinalize(s) \/ PostTx(s) \/ MineTx(s) \/ Fork(s)
         \/ \E k \in Keys : BuildCoinbase(k) \/ MineCoinbase(k)
         \/ MineEmpty
  PROVE  SettledInv'
  <1>0. FreshLog /\ nextLog \in Nat
    BY DEF Fresh, TypeOK
  <1>1. ASSUME Forward, LogMoves, upd' = upd,
               \A r \in Rows : \/ out'[r] = out[r] \/ RowOk(txlog', nextLog', out'[r])
        PROVE  SettledInv'
    BY <1>1, SettledKept
  <1>2. ASSUME NEW s \in Slates, NEW pref \in Mmr, NEW change \in BOOLEAN,
               AddInputs(s, pref, change)
        PROVE  SettledInv'
    <2>1. \E ids \in CoinbaseIds(MapWalletOutputs(pref)) : RefreshOutputs(MapWalletOutputs(pref), ids)
      BY <1>2 DEF AddInputs
    <2>2. /\ Forward /\ LogMoves
          /\ \A r \in Rows : \/ out'[r] = out[r] \/ RowOk(txlog', nextLog', out'[r])
      BY <1>0, <2>1, MapType, RefreshSettles
    <2>3. QED
      BY <1>1, <1>2, <2>2 DEF AddInputs
  <1>3. ASSUME NEW o \in OutputData, NEW st \in {"Locked", "Unconfirmed"}, nextLog' = nextLog + 1
        PROVE  RowOk(txlog', nextLog', [o EXCEPT !.status = st, !.entry = nextLog])
    <2>1. /\ [o EXCEPT !.status = st, !.entry = nextLog].entry = nextLog
          /\ [o EXCEPT !.status = st, !.entry = nextLog].status = st
      BY DEF OutputData
    <2>2. QED
      BY <1>0, <1>3, <2>1 DEF RowOk
  <1>4. ASSUME NEW e, nextLog \in LogIds, txlog' = [txlog EXCEPT ![nextLog] = e],
               e.type \in {"TxSentCreated", "TxReceived"}
        PROVE  LogMoves
    BY <1>0, <1>4 DEF LogMoves, Moves, Known, TypeOK
  <1>5. ASSUME NEW s \in Slates, TxLockOutputs(s) PROVE SettledInv'
    <2>1. nextLog \in LogIds
      <3>1. nextLog < MaxTxs
        BY <1>5 DEF TxLockOutputs
      <3>2. QED
        BY <3>1, ConstantsAssumption DEF TypeOK, LogIds, MaxIds
    <2>2. PICK x : txlog' = [txlog EXCEPT ![nextLog] =
                      [type |-> "TxSentCreated", slate |-> s, confirmed |-> FALSE, ttl |-> ttl[s],
                       kernel_excess |-> x, both |-> ctx[s].outs # {}]]
      BY <1>5 DEF TxLockOutputs
    <2>3. nextLog' = nextLog + 1 /\ upd' = upd
      BY <1>5 DEF TxLockOutputs
    <2>4. \A r \in Rows : \/ out'[r] = out[r]
                          \/ out'[r] = [out[r] EXCEPT !.status = "Locked", !.entry = nextLog]
                          \/ out'[r] = [NoRow EXCEPT !.status = "Unconfirmed", !.entry = nextLog]
      BY <1>5 DEF TxLockOutputs
    <2>5. \A r \in Rows : \/ out'[r] = out[r] \/ RowOk(txlog', nextLog', out'[r])
      <3>1. NoRow \in OutputData /\ \A r \in Rows : out[r] \in OutputData
        BY RecordTypes DEF TypeOK
      <3>2. \A r \in Rows : RowOk(txlog', nextLog', [out[r] EXCEPT !.status = "Locked", !.entry = nextLog])
        BY <1>3, <2>3, <3>1
      <3>3. RowOk(txlog', nextLog', [NoRow EXCEPT !.status = "Unconfirmed", !.entry = nextLog])
        BY <1>3, <2>3, <3>1
      <3>4. QED
        BY <2>4, <3>2, <3>3
    <2>6. LogMoves
      <3> DEFINE e == [type |-> "TxSentCreated", slate |-> s, confirmed |-> FALSE, ttl |-> ttl[s],
                       kernel_excess |-> x, both |-> ctx[s].outs # {}]
      <3>1. e.type = "TxSentCreated" /\ txlog' = [txlog EXCEPT ![nextLog] = e]
        BY <2>2
      <3> HIDE DEF e
      <3>2. QED
        BY <1>4, <2>1, <3>1
    <2>7. Forward
      BY <1>0, <2>3 DEF Forward
    <2>8. QED
      BY <1>1, <2>3, <2>5, <2>6, <2>7
  <1>6. ASSUME NEW s \in Slates, LockPanics(s) PROVE SettledInv'
    <2>1. txlog' = txlog /\ nextLog' = nextLog + 1 /\ upd' = upd
      BY <1>6 DEF LockPanics
    <2>2. \A r \in Rows : \/ out'[r] = out[r]
                          \/ out'[r] = [out[r] EXCEPT !.status = "Locked", !.entry = nextLog]
      BY <1>6 DEF LockPanics
    <2>3. \A r \in Rows : \/ out'[r] = out[r] \/ RowOk(txlog', nextLog', out'[r])
      <3>1. \A r \in Rows : out[r] \in OutputData
        BY DEF TypeOK
      <3>2. ASSUME NEW r \in Rows, out'[r] = [out[r] EXCEPT !.status = "Locked", !.entry = nextLog]
            PROVE  RowOk(txlog', nextLog', out'[r])
        <4>1. RowOk(txlog', nextLog', [out[r] EXCEPT !.status = "Locked", !.entry = nextLog])
          BY <1>3, <2>1, <3>1
        <4>2. QED
          BY <3>2, <4>1
      <3>3. QED
        BY <2>2, <3>2
    <2>4. LogMoves /\ Forward
      BY <1>0, <2>1 DEF LogMoves, Moves, Forward
    <2>5. QED
      BY <1>1, <2>1, <2>3, <2>4
  <1>7. ASSUME NEW s \in Slates, NEW types, Finalize(s, types) PROVE SettledInv'
    <2>1. \E i, tx : txlog' = [txlog EXCEPT ![i].kernel_excess = tx]
      BY <1>7 DEF Finalize, UpdateStoredTx
    <2>2. \A i \in LogIds : Moves(txlog[i], txlog'[i])
      BY <2>1 DEF TypeOK, TxLogEntry, Moves
    <2>3. nextLog' = nextLog /\ upd' = upd /\ out' = out
      BY <1>7 DEF Finalize
    <2>4. LogMoves /\ Forward
      BY <1>0, <2>2, <2>3 DEF LogMoves, Forward
    <2>5. QED
      BY <1>1, <2>3, <2>4
  <1>8. ASSUME NEW s \in Slates, ReceiveTx(s) \/ IssueInvoiceTx(s) PROVE SettledInv'
    <2>1. \E x : BuildRecipientOutput(s, x)
      BY <1>8 DEF ReceiveTx, IssueInvoiceTx
    <2>2. nextLog \in LogIds
      <3>1. nextLog < MaxTxs
        BY <2>1 DEF BuildRecipientOutput
      <3>2. QED
        BY <3>1, ConstantsAssumption DEF TypeOK, LogIds, MaxIds
    <2>3. PICK x : txlog' = [txlog EXCEPT ![nextLog] =
                      [type |-> "TxReceived", slate |-> s, confirmed |-> FALSE, ttl |-> ttl[s],
                       kernel_excess |-> x, both |-> FALSE]]
      BY <2>1 DEF BuildRecipientOutput
    <2>4. nextLog' = nextLog + 1 /\ upd' = upd
      BY <2>1 DEF BuildRecipientOutput
    <2>5. \A r \in Rows : \/ out'[r] = out[r]
                          \/ out'[r] = [NoRow EXCEPT !.status = "Unconfirmed", !.entry = nextLog]
      BY <2>1 DEF BuildRecipientOutput, TypeOK
    <2>6. \A r \in Rows : \/ out'[r] = out[r] \/ RowOk(txlog', nextLog', out'[r])
      BY <1>3, <2>4, <2>5, RecordTypes
    <2>7. LogMoves
      BY <1>4, <2>2, <2>3
    <2>8. Forward
      BY <1>0, <2>4 DEF Forward
    <2>9. QED
      BY <1>1, <2>4, <2>6, <2>7, <2>8
  <1>9. ASSUME UNCHANGED <<txlog, nextLog, upd>>,
               \A r \in Rows : \/ out'[r] = out[r] \/ out'[r].entry = NoId
        PROVE  SettledInv'
    <2>1. LogMoves /\ Forward
      BY <1>0, <1>9 DEF LogMoves, Moves, Forward
    <2>2. \A r \in Rows : \/ out'[r] = out[r] \/ RowOk(txlog', nextLog', out'[r])
      BY <1>9 DEF RowOk, NoId, LogIds
    <2>3. QED
      BY <1>1, <1>9, <2>1, <2>2
  <1>10. ASSUME NEW s \in Slates, RemoteFinalize(s) \/ PostTx(s) \/ MineTx(s) \/ Fork(s)
         PROVE  SettledInv'
    BY <1>9, <1>10 DEF RemoteFinalize, PostTx, MineTx, Fork, ChainUnchanged, dbVars
  <1>11. ASSUME NEW k \in Keys, BuildCoinbase(k) \/ MineCoinbase(k)
         PROVE  SettledInv'
    <2>1. CASE BuildCoinbase(k)
      <3>1. UNCHANGED <<txlog, nextLog, upd>>
        BY <2>1 DEF BuildCoinbase
      <3>2. \A r \in Rows : \/ out'[r] = out[r] \/ out'[r].entry = NoId
        BY <2>1 DEF BuildCoinbase, TypeOK
      <3>3. QED
        BY <1>9, <3>1, <3>2
    <2>2. CASE MineCoinbase(k)
      BY <1>9, <2>2 DEF MineCoinbase, ChainUnchanged, dbVars
    <2>3. QED
      BY <1>11, <2>1, <2>2
  <1>12. CASE MineEmpty
    BY <1>9, <1>12 DEF MineEmpty, ChainUnchanged, dbVars
  <1>13. QED
    BY <1>2, <1>5, <1>6, <1>7, <1>8, <1>10, <1>11, <1>12
       DEF InitSendTx, ProcessInvoiceTx, FinalizeTx, FinalizeInvoiceTx

\* The steps of an update: rows are written back as they were read, or unspent
\* together with the cancellation of their entry.
LEMMA UpdateSettled ==
  ASSUME TypeOK, Fresh, SettledInv, TypeOK', NEW p \in Updaters,
         \/ UpdateStep(p) \/ UpdateFails(p)
         \/ \E i \in LogIds, pref \in Mmr : StartCancel(p, i, pref)
         \/ \E pref \in Mmr : StartScan(p, pref)
  PROVE  SettledInv'
  <1> DEFINE u == upd[p]
             Good(v) == \A r \in Rows : v.rows[r] = u.rows[r] \/ v.rows[r] \in {NoRow, out[r]}
             TableGood == \A r \in Rows : \/ out'[r] = out[r] \/ RowOk(txlog', nextLog', out'[r])
  <1>0. /\ FreshLog /\ u \in UpdateState /\ nextLog \in Nat /\ Pending
        /\ \A r \in Rows : u.rows[r] \in OutputData /\ RowOk(txlog, nextLog, u.rows[r])
        /\ \A r \in Rows : out[r] \in OutputData /\ RowOk(txlog, nextLog, out[r])
    BY DEF Fresh, TypeOK, SettledInv, ReadSettled, TableSettled, UpdateState
  <1>1. ASSUME Forward, LogMoves, NEW v, upd' = [upd EXCEPT ![p] = v], Good(v), TableGood
        PROVE  SettledInv'
    <2>1. \A q \in Updaters, r \in Rows : \/ upd'[q].rows[r] = upd[q].rows[r]
                                          \/ upd'[q].rows[r] \in {NoRow, out[r]}
      BY <1>1 DEF TypeOK
    <2>2. QED
      BY <1>1, <2>1, SettledKept
  <1>2. ASSUME nextLog' = nextLog, txlog' = txlog PROVE Forward /\ LogMoves
    BY <1>0, <1>2 DEF Forward, LogMoves, Moves
  <1>3. Good(UpdateIdle) /\ Good(AfterScan(p))
    BY DEF UpdateIdle, AfterScan
  <1>4. ASSUME NEW job, NEW goal, NEW pref \in Mmr, UpdateOutputs(p, job, goal, pref)
        PROVE  SettledInv'
    <2> DEFINE pc == IF job = "scan" THEN "chain" ELSE "outstanding"
               v  == [u EXCEPT !.pc = pc, !.job = job, !.goal = goal]
    <2>1. \E ids \in CoinbaseIds(MapWalletOutputs(pref)) : RefreshOutputs(MapWalletOutputs(pref), ids)
      BY <1>4 DEF UpdateOutputs
    <2>2. Forward /\ LogMoves /\ TableGood
      BY <1>0, <2>1, MapType, RefreshSettles
    <2>3. upd' = [upd EXCEPT ![p] = v]
      BY <1>4 DEF UpdateOutputs, TypeOK
    <2>4. v.rows = u.rows
      BY <1>0 DEF UpdateState
    <2>5. QED
      <3> HIDE DEF v
      <3> QED BY <1>1, <2>2, <2>3, <2>4
  <1>5. CASE RetrieveOutstanding(p)
    <2> DEFINE os == {i \in LogIds : Outstanding(txlog[i])}
               f  == [i \in LogIds |-> IF i \in os THEN txlog[i] ELSE NoEntry]
               v  == [u EXCEPT !.pc = "kernels", !.todo = os, !.txs = f]
    <2>1. upd' = [upd EXCEPT ![p] = v] /\ nextLog' = nextLog /\ txlog' = txlog /\ out' = out
      BY <1>5 DEF RetrieveOutstanding, TypeOK, dbVars
    <2>2. v.rows = u.rows
      <3> HIDE DEF os, f, u
      <3> QED BY <1>0 DEF UpdateState
    <2>3. QED
      <3> HIDE DEF v
      <3> QED BY <1>1, <1>2, <2>1, <2>2
  <1>6. CASE UpdateTxViaKernel(p)
    <2> DEFINE i == Least(u.todo)
               c == [u.txs[i] EXCEPT !.confirmed = TRUE]
               v == [u EXCEPT !.todo = @ \ {i}]
               w == [u EXCEPT !.todo = @ \ {i}, !.txs[i] = c]
    <2>1. i \in LogIds
      BY <1>0, <1>6, LeastIsIn DEF UpdateTxViaKernel, UpdateState
    <2>2. nextLog' = nextLog /\ out' = out
      BY <1>6 DEF UpdateTxViaKernel
    <2>3. \/ upd' = [upd EXCEPT ![p] = v] /\ txlog' = txlog
          \/ upd' = [upd EXCEPT ![p] = w] /\ txlog' = [txlog EXCEPT ![i] = c]
      BY <1>6 DEF UpdateTxViaKernel, TypeOK
    <2>4. c.confirmed
      BY <1>0, <2>1 DEF UpdateState, TxLogEntry
    <2>5. v.rows = u.rows /\ w.rows = u.rows
      BY <1>0 DEF UpdateState
    <2> HIDE DEF v, w, c, i
    <2>6. CASE upd' = [upd EXCEPT ![p] = v] /\ txlog' = txlog
      BY <1>1, <1>2, <2>2, <2>5, <2>6
    <2>7. CASE upd' = [upd EXCEPT ![p] = w] /\ txlog' = [txlog EXCEPT ![i] = c]
      <3>1. LogMoves /\ Forward
        BY <1>0, <2>1, <2>2, <2>4, <2>7 DEF LogMoves, Moves, Forward, TypeOK
      <3>2. QED
        BY <1>1, <2>2, <2>5, <2>7, <3>1
    <2>8. QED
      BY <2>3, <2>6, <2>7
  <1>7. CASE KernelsDone(p)
    <2> DEFINE v == [u EXCEPT !.pc = "chain"]
    <2>1. upd' = [upd EXCEPT ![p] = v] /\ nextLog' = nextLog /\ txlog' = txlog /\ out' = out
      BY <1>7 DEF KernelsDone, TypeOK, dbVars
    <2>2. v.rows = u.rows
      BY <1>0 DEF UpdateState
    <2>3. QED
      <3> HIDE DEF v
      <3> QED BY <1>1, <1>2, <2>1, <2>2
  <1>8. CASE CollectChainOutputs(p)
    <2> DEFINE v == [u EXCEPT !.pc = "wallet", !.tip = tip, !.chain = {<<k, mmr[k]>> : k \in utxo}]
    <2>1. upd' = [upd EXCEPT ![p] = v] /\ nextLog' = nextLog /\ txlog' = txlog /\ out' = out
      BY <1>8 DEF CollectChainOutputs, TypeOK, dbVars
    <2>2. v.rows = u.rows
      BY <1>0 DEF UpdateState
    <2>3. QED
      <3> HIDE DEF v
      <3> QED BY <1>1, <1>2, <2>1, <2>2
  <1>9. ASSUME NEW pref \in Mmr, ScanReadOutputs(p, pref) PROVE SettledInv'
    <2> DEFINE
      on(r)   == \E q \in u.chain : q[1] = r[1]
      matched == {r \in OneRowPerKey({r \in Rows : out[r].status # "None"}, pref) : on(r)}
      c       == matched \ u.chain
      d       == {r \in matched : out[r].status = "Spent"}
      f       == {r \in matched : out[r].status = "Locked" /\ u.job = "scan"}
      g       == {r \in Rows : out[r].status = "Unconfirmed" /\ u.job = "scan"}
      keep    == c \cup d \cup f \cup g
      a       == {q \in u.chain : \E r \in c : r[1] = q[1]}
      b       == [r \in Rows |-> IF r \in keep THEN out[r] ELSE NoRow]
      e       == {q \in u.chain : \A r \in matched : r[1] # q[1]}
      v       == [u EXCEPT !.pc = "repair", !.chain = a, !.rows = b, !.idx = c, !.fix = d,
                           !.miss = e, !.locked = f, !.unconf = g]
    <2>1. upd' = [upd EXCEPT ![p].pc = "repair", ![p].chain = a, ![p].rows = b,
                             ![p].idx = c, ![p].fix = d, ![p].miss = e,
                             ![p].locked = f, ![p].unconf = g]
      BY <1>9 DEF ScanReadOutputs
    <2>2. \A r \in Rows : b[r] \in {NoRow, out[r]}
      <3> HIDE DEF keep
      <3> QED OBVIOUS
    <2> HIDE DEF a, b, c, d, e, f, g
    <2>3. upd' = [upd EXCEPT ![p] = v]
      BY <2>1 DEF TypeOK
    <2>4. v.rows = b
      BY <1>0 DEF UpdateState
    <2>5. nextLog' = nextLog /\ txlog' = txlog /\ out' = out
      BY <1>9 DEF ScanReadOutputs, dbVars
    <2>6. QED
      <3> HIDE DEF v
      <3> QED BY <1>1, <1>2, <2>2, <2>3, <2>4, <2>5
  <1>10. ASSUME NEW e, nextLog' = nextLog,
                txlog' = [i \in LogIds |-> IF i = e THEN [txlog[i] EXCEPT !.type = CancelledType(@)]
                                            ELSE txlog[i]]
         PROVE  /\ Forward /\ LogMoves
                /\ e \in LogIds => Settled(txlog', e)
    <2>1. \A i \in LogIds : txlog[i] \in TxLogEntry
      BY DEF TypeOK
    <2>2. \A i \in LogIds : Moves(txlog[i], txlog'[i])
      BY <1>10, <2>1 DEF Moves, TxLogEntry
    <2>3. e \in LogIds => /\ txlog'[e].confirmed = txlog[e].confirmed
                          /\ txlog'[e].type = CancelledType(txlog[e].type)
      BY <1>10, <2>1 DEF TxLogEntry
    <2>4. QED
      BY <1>0, <1>10, <2>2, <2>3, CancelSettles DEF LogMoves, Forward
  <1>11. ASSUME NEW o \in OutputData, RowOk(txlog, nextLog, o), NEW r \in Rows, UnspendRow(o, r)
         PROVE  Forward /\ LogMoves /\ TableGood
    <2>1. Forward /\ LogMoves /\ (o.entry \in LogIds => Settled(txlog', o.entry))
      BY <1>10, <1>11 DEF UnspendRow
    <2>2. [o EXCEPT !.status = "Unspent"].entry = o.entry
      BY DEF OutputData
    <2>3. RowOk(txlog', nextLog', o)
      BY <1>11, <2>1, RowsStay
    <2>4. RowOk(txlog', nextLog', [o EXCEPT !.status = "Unspent"])
      BY <2>1, <2>2, <2>3 DEF RowOk
    <2>5. out' = [out EXCEPT ![r] = [o EXCEPT !.status = "Unspent"]]
      BY <1>11 DEF UnspendRow
    <2>6. QED
      BY <2>1, <2>4, <2>5 DEF TypeOK
  <1>12. ASSUME NEW r \in Rows, ScanIndexOutput(p, r) PROVE SettledInv'
    <2> DEFINE v == [u EXCEPT !.idx = @ \ {r}]
    <2>1. upd' = [upd EXCEPT ![p] = v] /\ nextLog' = nextLog /\ txlog' = txlog
      BY <1>12 DEF ScanIndexOutput, TypeOK
    <2>2. v.rows = u.rows
      BY <1>0 DEF UpdateState
    <2>3. \A q \in Rows : out'[q] \in {NoRow, out[q], u.rows[r]}
      BY <1>12 DEF ScanIndexOutput, TypeOK
    <2>4. RowOk(txlog', nextLog', NoRow) /\ RowOk(txlog', nextLog', u.rows[r])
      BY <1>0, <2>1 DEF RowOk, NoRow, NoId, LogIds
    <2>5. QED
      <3> HIDE DEF v
      <3> QED BY <1>1, <1>2, <2>1, <2>2, <2>3, <2>4
  <1>13. ASSUME NEW r \in Rows, ScanUnspendOutput(p, r) PROVE SettledInv'
    <2> DEFINE v == [u EXCEPT !.fix = @ \ {r}]
    <2>1. upd' = [upd EXCEPT ![p] = v] /\ UnspendRow(u.rows[r], r)
      BY <1>13 DEF ScanUnspendOutput, TypeOK
    <2>2. v.rows = u.rows
      BY <1>0 DEF UpdateState
    <2>3. QED
      <3> HIDE DEF v
      <3> QED BY <1>0, <1>1, <1>11, <2>1, <2>2
  <1>14. ASSUME NEW r \in Rows, ScanUnlockOutput(p, r) PROVE SettledInv'
    <2> DEFINE v == [u EXCEPT !.locked = @ \ {r}]
    <2>1. upd' = [upd EXCEPT ![p] = v] /\ UnspendRow(u.rows[r], r)
      BY <1>14 DEF ScanUnlockOutput, TypeOK
    <2>2. v.rows = u.rows
      BY <1>0 DEF UpdateState
    <2>3. QED
      <3> HIDE DEF v
      <3> QED BY <1>0, <1>1, <1>11, <2>1, <2>2
  <1>15. ASSUME NEW r \in Rows, ScanDeleteOutput(p, r) PROVE SettledInv'
    <2> DEFINE v == [u EXCEPT !.unconf = @ \ {r}]
    <2>1. upd' = [upd EXCEPT ![p] = v] /\ out' = [out EXCEPT ![r] = NoRow]
      BY <1>15 DEF ScanDeleteOutput, TypeOK
    <2>2. v.rows = u.rows
      BY <1>0 DEF UpdateState
    <2>3. Forward /\ LogMoves
      BY <1>10, <1>15 DEF ScanDeleteOutput
    <2>4. TableGood
      BY <2>1 DEF TypeOK, RowOk, NoRow, NoId, LogIds
    <2>5. QED
      <3> HIDE DEF v
      <3> QED BY <1>1, <2>1, <2>2, <2>3, <2>4
  <1>16. ASSUME NEW r \in Rows, RestoreMissingOutput(p, r) PROVE SettledInv'
    <2> DEFINE v == [u EXCEPT !.miss = @ \ {r}, !.found = IF r[1] >= @ THEN r[1] + 1 ELSE @]
               o == [status |-> "Unspent", entry |-> nextLog, cb |-> r[1] \in cbKeys, height |-> 0]
    <2>1. upd' = [upd EXCEPT ![p] = v]
      BY <1>16 DEF RestoreMissingOutput, TypeOK
    <2>2. v.rows = u.rows
      BY <1>0 DEF UpdateState
    <2>3. nextLog < MaxIds /\ nextLog' = nextLog + 1
      BY <1>16 DEF RestoreMissingOutput
    <2>4. nextLog \in LogIds
      BY <2>3, ConstantsAssumption DEF TypeOK, LogIds, MaxIds
    <2>5. PICK t : txlog' = [txlog EXCEPT ![nextLog] = [NoEntry EXCEPT !.type = t, !.confirmed = TRUE]]
      BY <1>16 DEF RestoreMissingOutput
    <2>6. [NoEntry EXCEPT !.type = t, !.confirmed = TRUE].confirmed
      BY DEF NoEntry
    <2>7. txlog'[nextLog].confirmed /\ \A i \in LogIds : i # nextLog => txlog'[i] = txlog[i]
      BY <2>4, <2>5, <2>6 DEF TypeOK
    <2>8. LogMoves /\ Forward
      BY <1>0, <2>3, <2>7 DEF LogMoves, Moves, Forward
    <2>9. RowOk(txlog', nextLog', o)
      BY <1>0, <2>3, <2>7 DEF RowOk, Settled
    <2>10. TableGood
      <3>1. out' = [out EXCEPT ![r] = o]
        BY <1>16 DEF RestoreMissingOutput
      <3> HIDE DEF o
      <3>2. QED
        BY <2>9, <3>1 DEF TypeOK
    <2>11. QED
      <3> HIDE DEF v
      <3> QED BY <1>1, <2>1, <2>2, <2>8, <2>10
  <1>17. ASSUME NEW i, Cancellable(txlog[i]), CancelTxAndOutputs(i), nextLog' = nextLog
         PROVE  Forward /\ LogMoves /\ TableGood
    <2>1. Forward /\ LogMoves /\ (i \in LogIds => Settled(txlog', i))
      <3>1. txlog' = [j \in LogIds |-> IF j = i THEN [txlog[j] EXCEPT !.type = CancelledType(@)]
                                       ELSE txlog[j]]
        BY <1>17 DEF CancelTxAndOutputs, TypeOK
      <3>2. QED
        BY <1>10, <1>17, <3>1
    <2>2. ASSUME NEW r \in Rows, out'[r] # out[r] PROVE RowOk(txlog', nextLog', out'[r])
      <3>1. out'[r] = NoRow \/ (out[r].entry = i /\ out'[r] = [out[r] EXCEPT !.status = "Unspent"])
        BY <1>17, <2>2 DEF CancelTxAndOutputs
      <3>2. [out[r] EXCEPT !.status = "Unspent"].entry = out[r].entry
        BY <1>0 DEF OutputData
      <3>3. RowOk(txlog', nextLog', out[r])
        BY <1>0, <2>1, RowsStay
      <3>4. RowOk(txlog', nextLog', NoRow)
        BY DEF RowOk, NoRow, NoId, LogIds
      <3>5. CASE out[r].entry = i /\ out'[r] = [out[r] EXCEPT !.status = "Unspent"]
        BY <2>1, <3>2, <3>3, <3>5 DEF RowOk
      <3>6. QED
        BY <3>1, <3>4, <3>5
    <2>3. QED
      BY <2>1, <2>2
  <1>18. CASE ScanReadChildIndex(p)
    <2>1. [u EXCEPT !.pc = "index"].rows = u.rows
      BY <1>0 DEF UpdateState
    <2>2. \E v : upd' = [upd EXCEPT ![p] = v] /\ Good(v)
      <3>1. Good([u EXCEPT !.pc = "index"])
        BY <2>1
      <3> HIDE DEF Good
      <3>2. QED
        BY <1>3, <1>18, <3>1 DEF ScanReadChildIndex
    <2>3. nextLog' = nextLog /\ txlog' = txlog /\ out' = out
      BY <1>18 DEF ScanReadChildIndex, dbVars
    <2>4. QED
      <3> HIDE DEF Good
      <3> QED BY <1>1, <1>2, <2>2, <2>3
  <1>19. CASE ScanSaveChildIndex(p)
    <2>1. upd' = [upd EXCEPT ![p] = AfterScan(p)] /\ nextLog' = nextLog /\ txlog' = txlog /\ out' = out
      BY <1>19 DEF ScanSaveChildIndex
    <2>2. QED
      <3> HIDE DEF Good
      <3> QED BY <1>1, <1>2, <1>3, <2>1
  <1>20. CASE ExpireTx(p)
    <2> DEFINE i == Least(u.todo)
               v == [u EXCEPT !.todo = @ \ {i}]
    <2>1. nextLog' = nextLog
      BY <1>20 DEF ExpireTx
    <2>2. v.rows = u.rows
      BY <1>0 DEF UpdateState
    <2>3. CASE Cancellable(txlog[i])
      <3>1. CancelTxAndOutputs(i) /\ upd' = [upd EXCEPT ![p] = v]
        BY <1>20, <2>3 DEF ExpireTx, TypeOK
      <3> HIDE DEF i, v
      <3>2. QED
        BY <1>1, <1>17, <2>1, <2>2, <2>3, <3>1
    <2>4. CASE ~Cancellable(txlog[i])
      <3>1. upd' = [upd EXCEPT ![p] = UpdateIdle] /\ txlog' = txlog /\ out' = out
        BY <1>20, <2>4 DEF ExpireTx
      <3> HIDE DEF i, v, Good
      <3>2. QED
        BY <1>1, <1>2, <1>3, <2>1, <3>1
    <2>5. QED
      BY <2>3, <2>4
  <1>21. CASE UpdateDone(p)
    <2>1. [u EXCEPT !.pc = "cancel"].rows = u.rows
      BY <1>0 DEF UpdateState
    <2>2. \E v : upd' = [upd EXCEPT ![p] = v] /\ Good(v)
      <3>1. Good([u EXCEPT !.pc = "cancel"])
        BY <2>1
      <3> HIDE DEF Good
      <3>2. QED
        BY <1>3, <1>21, <3>1 DEF UpdateDone
    <2>3. nextLog' = nextLog /\ txlog' = txlog /\ out' = out
      BY <1>21 DEF UpdateDone, dbVars
    <2>4. QED
      <3> HIDE DEF Good
      <3> QED BY <1>1, <1>2, <2>2, <2>3
  <1>22. CASE CancelTx(p)
    <2>1. upd' = [upd EXCEPT ![p] = UpdateIdle] /\ nextLog' = nextLog
      BY <1>22 DEF CancelTx
    <2>2. \/ Cancellable(txlog[u.goal]) /\ CancelTxAndOutputs(u.goal)
          \/ txlog' = txlog /\ out' = out
      BY <1>22 DEF CancelTx
    <2>3. Forward /\ LogMoves /\ TableGood
      <3> HIDE DEF u
      <3> QED BY <1>2, <1>17, <2>1, <2>2
    <2>4. QED
      <3> HIDE DEF Good
      <3> QED BY <1>1, <1>3, <2>1, <2>3
  <1>23. CASE UpdateFails(p)
    <2>1. upd' = [upd EXCEPT ![p] = UpdateIdle] /\ nextLog' = nextLog /\ txlog' = txlog /\ out' = out
      BY <1>23 DEF UpdateFails, dbVars
    <2>2. QED
      <3> HIDE DEF Good
      <3> QED BY <1>1, <1>2, <1>3, <2>1
  <1>24. QED
    BY <1>4, <1>5, <1>6, <1>7, <1>8, <1>9, <1>12, <1>13, <1>14, <1>15, <1>16, <1>18, <1>19,
       <1>20, <1>21, <1>22, <1>23 DEF UpdateStep, StartUpdate, StartCancel, StartScan

\* With the mempool watch off, no output of a transaction that is not confirmed is
\* ever spendable as confirmed, whatever rows and entries concurrent updates, scans
\* and cancellations write back, through forks, repairs and restarts.
THEOREM AllOrNone == ASSUME Watch = FALSE PROVE Spec => []AllOrNoneConfirmed
  <1>1. Init => Fresh
    BY DEF Init, Fresh, FreshLog, KnownTodo, KnownTxs, UpdateIdle
  <1>2. Init => SettledInv
    <2> SUFFICES ASSUME Init PROVE SettledInv
      OBVIOUS
    <2>1. \A r \in Rows : out[r].entry = NoId
      BY DEF Init, NoRow
    <2>2. \A p \in Updaters : \A r \in Rows : upd[p].rows[r].entry = NoId
      BY DEF Init, UpdateIdle, NoRow
    <2>3. \A i \in LogIds : txlog[i].type = "None"
      BY DEF Init, NoEntry
    <2>4. NoId \notin LogIds
      BY DEF NoId, LogIds
    <2>5. QED
      BY <2>1, <2>2, <2>3, <2>4
         DEF SettledInv, TableSettled, ReadSettled, Pending, RowOk, PendingOk, Live
  <1>3. TypeOK /\ Fresh /\ SettledInv /\ [Next]_vars => Fresh' /\ SettledInv'
    <2> SUFFICES ASSUME TypeOK, Fresh, SettledInv, [Next]_vars PROVE Fresh' /\ SettledInv'
      OBVIOUS
    <2>1. TypeOK'
      BY NextType
    <2>2. ~WatchStep
      BY DEF Fresh, WatchStep, PollMempool, ReadWatchedEntries, SaveWatchedEntry,
             UpdateMempoolStatus, WatchIdle
    <2>3. CASE UNCHANGED vars
      BY <2>3 DEF vars, dbVars, Fresh, FreshLog, KnownTodo, KnownTxs, Known,
                  SettledInv, TableSettled, ReadSettled, Pending
    <2>4. CASE Next
      <3>1. Kept /\ watch' = watch
        BY <2>1, <2>2, <2>4, ApiStays, UpdateStays DEF Next
      <3>2. SettledInv'
        BY <2>1, <2>2, <2>4, ApiSettled, UpdateSettled DEF Next
      <3>3. QED
        BY <3>1, <3>2 DEF Kept, Fresh
    <2>5. QED
      BY <2>3, <2>4
  <1>4. SettledInv => AllOrNoneConfirmed
    BY DEF SettledInv, TableSettled, RowOk, Settled, AllOrNoneConfirmed
  <1>5. QED
    BY <1>1, <1>2, <1>3, <1>4, LedgerTypeOK, PTL DEF Spec

-----------------------------------------------------------------------------
(* No false confirmation.  An entry is confirmed when an output of it is     *)
(* found on chain, so an output must belong to one transaction only and get  *)
(* on chain with it alone.  ChainInv says so of the slates and the node,     *)
(* MarkInv of the rows and entries, those the updates and the mempool watch  *)
(* hold included.                                                            *)

\* In offers O: the wallet put an output with key k into slate s.  With coinbase
\* keys C and mined slates S: what can have brought the output on chain.
Offered(O, s, k)   == \E tx \in O[s] : k \in tx.outs
Minted(C, S, O, k) == k < Coins \/ k \in C \/ \E s \in S : Offered(O, s, k)

OneSlate     == \A s, t \in Slates, k \in Keys :
                  Offered(offers, s, k) /\ Offered(offers, t, k) => s = t
NotCoin      == \A s \in Slates, k \in Keys : Offered(offers, s, k) => ~(k < Coins) /\ k \notin cbKeys
CtxOffered   == \A s \in Slates : \A k \in ctx[s].outs : Offered(offers, s, k)
FinalOffered == \A s \in Slates : final[s] = NoTx \/ final[s] \in offers[s]
PostedFinal  == mined \subseteq seen /\ \A s \in pool \cup mined : final[s] # NoTx
OpenNotFinal == \A s \in Slates : Role[s] \in {"send", "invoice"} /\ ctx[s] # NoCtx => final[s] = NoTx
UtxoMinted   == \A k \in utxo : Minted(cbKeys, seen, offers, k)
SpentMinted  == \A s \in mined : \A k \in final[s].ins : Minted(cbKeys, seen, offers, k)
ChainInv     == /\ Coins <= nextChild /\ OneSlate /\ NotCoin /\ CtxOffered /\ FinalOffered
                /\ PostedFinal /\ OpenNotFinal /\ UtxoMinted /\ SpentMinted

\* A transaction is added to a slate: its output has a key nobody used.
LEMMA OffersGrow ==
  ASSUME TypeOK, TypeOK', KeyInv, ChainInv, NEW s \in Slates, NEW tx, tx.outs \subseteq {nextChild},
         offers' = [offers EXCEPT ![s] = @ \cup {tx}], cbKeys' = cbKeys
  PROVE  /\ OneSlate' /\ NotCoin'
         /\ \A t \in Slates, k \in Keys : Offered(offers, t, k) => Offered(offers', t, k)
         /\ \A k \in tx.outs : Offered(offers', s, k)
         /\ \A t \in Slates : offers[t] \subseteq offers'[t]
  <1>1. \A t \in Slates : offers'[t] = IF t = s THEN offers[s] \cup {tx} ELSE offers[t]
    BY DEF TypeOK
  <1>2. ASSUME NEW t \in Slates, NEW k \in Keys, Offered(offers', t, k)
        PROVE  Offered(offers, t, k) \/ (t = s /\ k = nextChild)
    BY <1>1, <1>2 DEF Offered
  <1>3. \A t \in Slates : ~Offered(offers, t, nextChild)
    <2>1. ~(nextChild < nextChild)
      BY DEF TypeOK
    <2>2. QED
      BY <2>1 DEF KeyInv, SlateKeys, TxBelow, Offered
  <1>4. ~(nextChild < Coins) /\ nextChild \notin cbKeys
    <2>1. ~(nextChild < nextChild) /\ ~(nextChild < Coins)
      BY ConstantsAssumption DEF TypeOK, ChainInv
    <2>2. QED
      BY <2>1 DEF KeyInv, NodeKeys
  <1>5. OneSlate'
    BY <1>2, <1>3 DEF ChainInv, OneSlate
  <1>6. NotCoin'
    BY <1>2, <1>4 DEF ChainInv, NotCoin
  <1>7. QED
    BY <1>1, <1>5, <1>6 DEF Offered

\* What was minted stays so while slates, mined slates and coinbase keys only grow.
LEMMA MintedStays ==
  ASSUME NEW C, NEW D, NEW S, NEW T, NEW O, NEW Q, NEW k, Minted(C, S, O, k),
         C \subseteq D, S \subseteq T, \A s \in S : Offered(O, s, k) => Offered(Q, s, k)
  PROVE  Minted(D, T, Q, k)
  BY DEF Minted

\* Calls that add to a slate: init_send_tx, process_invoice_tx, receive_tx and
\* issue_invoice_tx.  A slate that gets a new context was not finalised before.
LEMMA ChainAdds ==
  ASSUME TypeOK, TypeOK', KeyInv, ChainInv, NEW s \in Slates, NEW tx, tx.outs \subseteq {nextChild},
         offers' = [offers EXCEPT ![s] = @ \cup {tx}], nextChild <= nextChild',
         UNCHANGED <<final, nodeVars>>,
         \A t \in Slates : \/ ctx'[t] = ctx[t]
                           \/ /\ t = s /\ ctx'[t].outs = tx.outs
                              /\ Role[s] \in {"send", "invoice"} => offers[s] = {}
  PROVE  ChainInv'
  <1>0. UNCHANGED <<utxo, pool, mined, seen, cbKeys>>
    BY DEF nodeVars
  <1>1. /\ OneSlate' /\ NotCoin'
        /\ \A t \in Slates, k \in Keys : Offered(offers, t, k) => Offered(offers', t, k)
        /\ \A k \in tx.outs : Offered(offers', s, k)
        /\ \A t \in Slates : offers[t] \subseteq offers'[t]
    BY <1>0, OffersGrow
  <1>2. Coins <= nextChild'
    BY ConstantsAssumption DEF TypeOK, ChainInv
  <1>3. CtxOffered'
    <2>1. ASSUME NEW t \in Slates, NEW k \in ctx'[t].outs PROVE Offered(offers', t, k)
      <3>1. k \in Keys
        BY DEF TypeOK, Context
      <3>2. QED
        BY <1>1, <2>1, <3>1 DEF ChainInv, CtxOffered
    <2>2. QED
      BY <2>1 DEF CtxOffered
  <1>4. FinalOffered'
    BY <1>1 DEF ChainInv, FinalOffered
  <1>5. PostedFinal'
    BY <1>0 DEF ChainInv, PostedFinal
  <1>6. OpenNotFinal'
    BY DEF ChainInv, OpenNotFinal, FinalOffered
  <1>7. \A k \in Keys : Minted(cbKeys, seen, offers, k) => Minted(cbKeys', seen', offers', k)
    <2>1. seen \subseteq Slates
      BY DEF TypeOK
    <2>2. QED
      BY <1>0, <1>1, <2>1 DEF Minted
  <1>8. UtxoMinted'
    BY <1>0, <1>7 DEF ChainInv, UtxoMinted, TypeOK
  <1>9. SpentMinted'
    <2>1. \A t \in mined : final[t].ins \subseteq Keys
      BY DEF TypeOK, Transaction
    <2>2. QED
      BY <1>0, <1>7, <2>1 DEF ChainInv, SpentMinted
  <1>10. QED
    BY <1>1, <1>2, <1>3, <1>4, <1>5, <1>6, <1>8, <1>9 DEF ChainInv

\* A slate is finalised, by this wallet or by the counterparty: it was not before,
\* so it was not posted.
LEMMA ChainFinalizes ==
  ASSUME TypeOK, TypeOK', ChainInv, NEW s \in Slates, NEW tx \in offers[s], final[s] = NoTx,
         final' = [final EXCEPT ![s] = tx], UNCHANGED <<nextChild, offers, nodeVars>>,
         \A t \in Slates : ctx'[t] = ctx[t] \/ ctx'[t] = NoCtx,
         ctx'[s] = NoCtx \/ Role[s] \notin {"send", "invoice"}
  PROVE  ChainInv'
  <1>0. UNCHANGED <<utxo, pool, mined, seen, cbKeys>>
    BY DEF nodeVars
  <1>1. \A t \in Slates : final'[t] = IF t = s THEN tx ELSE final[t]
    BY DEF TypeOK
  <1>2. s \notin pool \cup mined
    BY DEF ChainInv, PostedFinal
  <1>3. OneSlate' /\ NotCoin'
    BY <1>0 DEF ChainInv, OneSlate, NotCoin
  <1>4. CtxOffered'
    BY DEF ChainInv, CtxOffered, NoCtx
  <1>5. FinalOffered'
    BY <1>1 DEF ChainInv, FinalOffered
  <1>6. PostedFinal'
    BY <1>0, <1>1, <1>2 DEF ChainInv, PostedFinal, TypeOK
  <1>7. OpenNotFinal'
    BY <1>1 DEF ChainInv, OpenNotFinal
  <1>8. UtxoMinted'
    BY <1>0 DEF ChainInv, UtxoMinted
  <1>9. SpentMinted'
    BY <1>0, <1>1, <1>2 DEF ChainInv, SpentMinted, TypeOK
  <1>10. QED
    BY <1>3, <1>4, <1>5, <1>6, <1>7, <1>8, <1>9 DEF ChainInv

\* The node: outputs come on chain with their transaction or as a coinbase, and
\* back when the transaction that spent them is undone.
LEMMA ChainMoves ==
  ASSUME TypeOK, TypeOK', ChainInv, UNCHANGED <<nextChild, ctx, slateVars, cbKeys>>,
         mined' \subseteq seen', seen \subseteq seen',
         \A t \in (pool' \cup mined') \ (pool \cup mined) : final[t] # NoTx,
         \A k \in utxo' : \/ Minted(cbKeys, seen, offers, k)
                          \/ \E t \in seen' : Offered(offers, t, k),
         \A t \in mined' \ mined : final[t].ins \subseteq utxo
  PROVE  ChainInv'
  <1>0. UNCHANGED <<offers, final>>
    BY DEF slateVars
  <1>1. \A k : Minted(cbKeys, seen, offers, k) => Minted(cbKeys, seen', offers, k)
    BY MintedStays
  <1>2. OneSlate' /\ NotCoin' /\ CtxOffered' /\ FinalOffered' /\ OpenNotFinal'
    BY <1>0 DEF ChainInv, OneSlate, NotCoin, CtxOffered, FinalOffered, OpenNotFinal
  <1>3. PostedFinal'
    BY <1>0 DEF ChainInv, PostedFinal
  <1>4. UtxoMinted'
    BY <1>0, <1>1 DEF UtxoMinted, Minted
  <1>5. SpentMinted'
    BY <1>0, <1>1 DEF ChainInv, SpentMinted, UtxoMinted
  <1>6. QED
    BY <1>2, <1>3, <1>4, <1>5 DEF ChainInv

\* A wallet that was not just restored starts with its coins on chain and no slate.
LEMMA ChainInit == ASSUME Restored = FALSE PROVE Init => ChainInv
  <1> SUFFICES ASSUME Init PROVE ChainInv
    OBVIOUS
  <1>1. nextChild = Coins /\ Coins \in Nat
    BY ConstantsAssumption DEF Init
  <1>2. \A s \in Slates : offers[s] = {} /\ final[s] = NoTx /\ ctx[s] = NoCtx
    BY DEF Init
  <1>3. NoCtx.outs = {}
    BY DEF NoCtx
  <1>4. OneSlate /\ NotCoin /\ CtxOffered /\ FinalOffered /\ OpenNotFinal
    BY <1>2, <1>3 DEF OneSlate, NotCoin, CtxOffered, FinalOffered, OpenNotFinal, Offered
  <1>5. PostedFinal /\ SpentMinted
    BY DEF Init, PostedFinal, SpentMinted
  <1>6. UtxoMinted
    BY <1>1 DEF Init, UtxoMinted, Minted
  <1>7. QED
    BY <1>1, <1>4, <1>5, <1>6 DEF ChainInv

\* Every step keeps what is known of slates and chain.
LEMMA ChainStep ==
  ASSUME TypeOK, KeyInv, ChainInv, [Next]_vars
  PROVE  ChainInv' /\ seen \subseteq seen' /\ \A t \in Slates : offers[t] \subseteq offers'[t]
  <1> DEFINE Goal == ChainInv' /\ seen \subseteq seen' /\ \A t \in Slates : offers[t] \subseteq offers'[t]
  <1>0. TypeOK' /\ nextChild \in Int
    BY NextType DEF TypeOK
  <1>1. ASSUME UNCHANGED <<nextChild, ctx, slateVars, nodeVars>> PROVE Goal
    <2>1. UNCHANGED <<offers, final, utxo, pool, mined, seen, cbKeys>>
      BY <1>1 DEF slateVars, nodeVars
    <2>2. ChainInv'
      BY <1>1, <2>1 DEF ChainInv, OneSlate, NotCoin, CtxOffered, FinalOffered, PostedFinal,
                        OpenNotFinal, UtxoMinted, SpentMinted
    <2>3. QED
      BY <2>1, <2>2
  <1>2. ASSUME NEW s \in Slates, NEW pref \in Mmr, NEW change \in BOOLEAN,
               InitSendTx(s, pref, change) \/ ProcessInvoiceTx(s, pref, change)
        PROVE  Goal
    <2>1. AddInputs(s, pref, change) /\ (Role[s] \in {"send", "invoice"} => offers[s] = {})
      BY <1>2 DEF InitSendTx, ProcessInvoiceTx
    <2> DEFINE outs == IF change THEN {nextChild} ELSE {}
    <2>2. PICK ins : /\ ctx' = [ctx EXCEPT ![s] = [ins |-> ins, outs |-> outs]]
                     /\ offers' = [offers EXCEPT ![s] = @ \cup {[ins |-> {r[1] : r \in ins}, outs |-> outs]}]
      BY <2>1 DEF AddInputs
    <2>3. nextChild' = (IF change THEN nextChild + 1 ELSE nextChild) /\ UNCHANGED <<final, nodeVars>>
      BY <2>1 DEF AddInputs
    <2> DEFINE tx == [ins |-> {r[1] : r \in ins}, outs |-> outs]
               c  == [ins |-> ins, outs |-> outs]
    <2>4. tx.outs \subseteq {nextChild} /\ c.outs = tx.outs /\ nextChild <= nextChild'
      BY <1>0, <2>3
    <2>5. offers' = [offers EXCEPT ![s] = @ \cup {tx}] /\ ctx' = [ctx EXCEPT ![s] = c]
      BY <2>2
    <2> HIDE DEF tx, c, outs
    <2>6. \A t \in Slates : ctx'[t] = ctx[t] \/ (t = s /\ ctx'[t].outs = tx.outs)
      BY <2>4, <2>5 DEF TypeOK
    <2>7. \A t \in Slates : \/ ctx'[t] = ctx[t]
                            \/ /\ t = s /\ ctx'[t].outs = tx.outs
                               /\ Role[s] \in {"send", "invoice"} => offers[s] = {}
      BY <2>1, <2>6
    <2>8. ChainInv'
      BY <1>0, <2>3, <2>4, <2>5, <2>7, ChainAdds
    <2>9. QED
      BY <2>3, <2>5, <2>8 DEF TypeOK, nodeVars
  <1>3. ASSUME NEW s \in Slates, ReceiveTx(s) \/ IssueInvoiceTx(s) PROVE Goal
    <2> DEFINE tx == [ins |-> {}, outs |-> {nextChild}]
    <2>1. PICK x : BuildRecipientOutput(s, x)
      BY <1>3 DEF ReceiveTx, IssueInvoiceTx
    <2>2. ctx' = ctx \/ (ctx' = [ctx EXCEPT ![s] = tx] /\ offers[s] = {})
      BY <1>3 DEF ReceiveTx, IssueInvoiceTx
    <2>3. nextChild' = nextChild + 1 /\ UNCHANGED <<final, nodeVars>>
      BY <2>1 DEF BuildRecipientOutput
    <2>4. offers' = [offers EXCEPT ![s] = @ \cup {tx}]
      BY <2>1 DEF BuildRecipientOutput
    <2>5. tx.outs \subseteq {nextChild} /\ nextChild <= nextChild'
      BY <1>0, <2>3
    <2> HIDE DEF tx
    <2>6. \A t \in Slates : \/ ctx'[t] = ctx[t]
                            \/ /\ t = s /\ ctx'[t].outs = tx.outs
                               /\ Role[s] \in {"send", "invoice"} => offers[s] = {}
      BY <2>2 DEF TypeOK
    <2>7. ChainInv'
      BY <1>0, <2>3, <2>4, <2>5, <2>6, ChainAdds
    <2>8. QED
      BY <2>3, <2>4, <2>7 DEF TypeOK, nodeVars
  <1>4. ASSUME NEW s \in Slates, TxLockOutputs(s) \/ LockPanics(s) PROVE Goal
    BY <1>1, <1>4 DEF TxLockOutputs, LockPanics
  <1>5. ASSUME NEW s \in Slates, FinalizeTx(s) \/ FinalizeInvoiceTx(s) PROVE Goal
    <2>1. PICK types : Finalize(s, types)
      BY <1>5 DEF FinalizeTx, FinalizeInvoiceTx
    <2>2. PICK tx \in offers[s] : final' = [final EXCEPT ![s] = tx]
      BY <2>1 DEF Finalize
    <2>3. /\ ctx[s] # NoCtx /\ ctx' = [ctx EXCEPT ![s] = NoCtx]
          /\ UNCHANGED <<nextChild, offers, nodeVars>>
      BY <2>1 DEF Finalize
    <2>4. final[s] = NoTx
      BY <1>5, <2>3 DEF FinalizeTx, FinalizeInvoiceTx, ChainInv, OpenNotFinal
    <2>5. ctx'[s] = NoCtx /\ \A t \in Slates : ctx'[t] = ctx[t] \/ ctx'[t] = NoCtx
      BY <2>3 DEF TypeOK
    <2>6. ChainInv'
      BY <1>0, <2>2, <2>3, <2>4, <2>5, ChainFinalizes
    <2>7. QED
      BY <2>3, <2>6 DEF nodeVars
  <1>6. ASSUME NEW s \in Slates, RemoteFinalize(s) PROVE Goal
    <2>1. PICK tx \in offers[s] : final' = [final EXCEPT ![s] = tx]
      BY <1>6 DEF RemoteFinalize
    <2>2. /\ final[s] = NoTx /\ Role[s] \notin {"send", "invoice"}
          /\ UNCHANGED <<nextChild, ctx, offers, nodeVars>>
      BY <1>6 DEF RemoteFinalize, ChainUnchanged, dbVars
    <2>3. ChainInv'
      BY <1>0, <2>1, <2>2, ChainFinalizes
    <2>4. QED
      BY <2>2, <2>3 DEF nodeVars
  <1>7. /\ mined \subseteq seen /\ seen \subseteq Slates
        /\ \A k \in utxo : Minted(cbKeys, seen, offers, k)
        /\ \A s \in pool \cup mined : final[s] # NoTx
        /\ \A s \in Slates : \A k \in final[s].outs : Offered(offers, s, k)
    BY DEF TypeOK, ChainInv, PostedFinal, UtxoMinted, FinalOffered, Offered, NoTx
  <1>8. ASSUME NEW s \in Slates, PostTx(s) PROVE Goal
    <2>1. /\ UNCHANGED <<nextChild, ctx, slateVars, cbKeys, utxo, mined, seen>>
          /\ pool' = pool \cup {s} /\ final[s] # NoTx
      BY <1>8 DEF PostTx, ChainUnchanged, dbVars
    <2>2. ChainInv'
      BY <1>0, <1>7, <2>1, ChainMoves
    <2>3. QED
      BY <2>1, <2>2 DEF slateVars
  <1>9. ASSUME NEW s \in Slates, MineTx(s) PROVE Goal
    <2>1. /\ UNCHANGED <<nextChild, ctx, slateVars, cbKeys>> /\ s \in pool
          /\ utxo' = (utxo \ final[s].ins) \cup final[s].outs /\ final[s].ins \subseteq utxo
          /\ pool' = pool \ {s} /\ mined' = mined \cup {s} /\ seen' = seen \cup {s}
      BY <1>9 DEF MineTx, ChainUnchanged, dbVars
    <2>2. \A k \in utxo' : \/ Minted(cbKeys, seen, offers, k)
                           \/ \E t \in seen' : Offered(offers, t, k)
      BY <1>7, <2>1
    <2>3. ChainInv'
      BY <1>0, <1>7, <2>1, <2>2, ChainMoves
    <2>4. QED
      BY <2>1, <2>3 DEF slateVars
  <1>10. ASSUME NEW s \in Slates, Fork(s) PROVE Goal
    <2>1. /\ UNCHANGED <<nextChild, ctx, slateVars, cbKeys, pool, seen>> /\ s \in mined
          /\ utxo' = (utxo \ final[s].outs) \cup final[s].ins /\ mined' = mined \ {s}
      BY <1>10 DEF Fork, ChainUnchanged, dbVars
    <2>2. \A k \in utxo' : Minted(cbKeys, seen, offers, k)
      BY <1>7, <2>1 DEF ChainInv, SpentMinted
    <2>3. ChainInv'
      BY <1>0, <1>7, <2>1, <2>2, ChainMoves
    <2>4. QED
      BY <2>1, <2>3 DEF slateVars
  <1>11. ASSUME NEW k \in Keys, MineCoinbase(k) PROVE Goal
    <2>1. /\ UNCHANGED <<nextChild, ctx, slateVars, cbKeys, pool, mined, seen>>
          /\ k \in cbKeys /\ utxo' = utxo \cup {k}
      BY <1>11 DEF MineCoinbase, ChainUnchanged, dbVars
    <2>2. \A j \in utxo' : Minted(cbKeys, seen, offers, j)
      BY <1>7, <2>1 DEF Minted
    <2>3. ChainInv'
      BY <1>0, <1>7, <2>1, <2>2, ChainMoves
    <2>4. QED
      BY <2>1, <2>3 DEF slateVars
  <1>12. CASE MineEmpty
    <2>1. UNCHANGED <<nextChild, ctx, slateVars, cbKeys, utxo, pool, mined, seen>>
      BY <1>12 DEF MineEmpty, ChainUnchanged, dbVars
    <2>2. ChainInv'
      BY <1>0, <1>7, <2>1, ChainMoves
    <2>3. QED
      BY <2>1, <2>2 DEF slateVars
  <1>13. ASSUME NEW k \in Keys, BuildCoinbase(k) PROVE Goal
    <2>1. UNCHANGED <<ctx, offers, final, utxo, pool, mined, seen>> /\ cbKeys' = cbKeys \cup {k}
      BY <1>13 DEF BuildCoinbase, slateVars
    <2>2. k = nextChild \/ k \in cbKeys
      BY <1>13 DEF BuildCoinbase
    <2>3. nextChild <= nextChild'
      BY <1>0, <1>13 DEF BuildCoinbase
    <2>4. \A s \in Slates : ~Offered(offers, s, k)
      <3>1. ~(nextChild < nextChild)
        BY <1>0
      <3>2. CASE k = nextChild
        BY <3>1, <3>2 DEF KeyInv, SlateKeys, TxBelow, Offered
      <3>3. CASE k \in cbKeys
        BY <3>3 DEF ChainInv, NotCoin
      <3>4. QED
        BY <2>2, <3>2, <3>3
    <2>5. Coins <= nextChild'
      BY <1>0, <2>3, ConstantsAssumption DEF ChainInv, TypeOK
    <2>6. OneSlate' /\ NotCoin' /\ CtxOffered' /\ FinalOffered' /\ PostedFinal' /\ OpenNotFinal'
      BY <2>1, <2>4 DEF ChainInv, OneSlate, NotCoin, CtxOffered, FinalOffered, PostedFinal, OpenNotFinal
    <2>7. \A j : Minted(cbKeys, seen, offers, j) => Minted(cbKeys', seen, offers, j)
      BY <2>1, MintedStays
    <2>8. UtxoMinted' /\ SpentMinted'
      BY <2>1, <2>7 DEF ChainInv, UtxoMinted, SpentMinted
    <2>9. QED
      BY <2>1, <2>5, <2>6, <2>8 DEF ChainInv
  <1>14. ASSUME NEW p \in Updaters,
                \/ UpdateStep(p) \/ UpdateFails(p)
                \/ \E i \in LogIds, pref \in Mmr : StartCancel(p, i, pref)
                \/ \E pref \in Mmr : StartScan(p, pref)
         PROVE  Goal
    BY <1>0, <1>1, <1>14, UpdateKeys
  <1>15. CASE WatchStep
    BY <1>0, <1>1, <1>15, WatchKeys
  <1>16. CASE UNCHANGED vars
    BY <1>1, <1>16 DEF vars, dbVars
  <1>17. QED
    BY <1>2, <1>3, <1>4, <1>5, <1>6, <1>8, <1>9, <1>10, <1>11, <1>12, <1>13, <1>14, <1>15, <1>16
       DEF Next

\* In log L with next id n, offers O and mined slates S: an output that is expected
\* and no coinbase is one its entry's slate put into a transaction; an entry that
\* was read is still the same slate's; what the watch read may be saved.
Owned(L, O, n, r, o) ==
  o.status = "Unconfirmed" /\ ~o.cb =>
    /\ o.entry \in LogIds /\ o.entry < n
    /\ L[o.entry].slate \in Slates /\ Offered(O, L[o.entry].slate, r[1])
ReadOk(L, n, t, i) == t.slate \in Slates => i < n /\ L[i].slate = t.slate
SnapOk(L, n, S, t, i) == /\ i < n /\ t.slate = L[i].slate /\ t.slate \in Slates
                         /\ t.confirmed => t.slate \in S
WatchOk(L, n, S, w) ==
  /\ w.pc = "polled" => w.slate \in Slates
  /\ w.pc = "save" => w.todo # {} /\ \A i \in w.todo : SnapOk(L, n, S, w.snap[i], i)

SlateKnown == \A i \in LogIds : txlog[i].slate \in Slates => i < nextLog
TableOwned == \A r \in Rows : Owned(txlog, offers, nextLog, r, out[r])
RowsOwned  == \A p \in Updaters : \A r \in Rows : Owned(txlog, offers, nextLog, r, upd[p].rows[r])
TxsRead    == \A p \in Updaters : \A i \in LogIds : ReadOk(txlog, nextLog, upd[p].txs[i], i)
WatchRead  == WatchOk(txlog, nextLog, seen, watch)
MarkInv    == SlateKnown /\ ConfirmedWasMined /\ TableOwned /\ RowsOwned /\ TxsRead /\ WatchRead

\* What a step may do to the log: an entry keeps its slate, ids are taken in order,
\* and only entries of mined slates are marked.
EntrySteps ==
  \A i \in LogIds : /\ i < nextLog => txlog'[i].slate = txlog[i].slate
                    /\ txlog'[i].slate \in Slates => i < nextLog'
                    /\ txlog'[i].confirmed /\ txlog'[i].slate # NoSlate => txlog'[i].slate \in seen'

\* The step of a call or thread keeps MarkInv if it moves the log as it may, writes
\* rows that are owned, and reads what is in the tables.
LEMMA MarksKept ==
  ASSUME TypeOK, TypeOK', MarkInv, EntrySteps, nextLog <= nextLog', seen \subseteq seen',
         \A s \in Slates : offers[s] \subseteq offers'[s],
         \A r \in Rows : out'[r] = out[r] \/ Owned(txlog', offers', nextLog', r, out'[r]),
         \A p \in Updaters, r \in Rows : \/ upd'[p].rows[r] = upd[p].rows[r]
                                         \/ upd'[p].rows[r] \in {NoRow, out[r]},
         \A p \in Updaters, i \in LogIds : \/ upd'[p].txs[i].slate = upd[p].txs[i].slate
                                           \/ upd'[p].txs[i].slate \in {NoSlate, txlog[i].slate},
         watch' = watch \/ WatchOk(txlog', nextLog', seen', watch')
  PROVE  MarkInv'
  <1>0. nextLog \in Int /\ nextLog' \in Int /\ LogIds \subseteq Int /\ NoSlate \notin Slates
    BY ConstantsAssumption DEF TypeOK, LogIds
  <1>1. \A i \in LogIds : i < nextLog => i < nextLog' /\ txlog'[i].slate = txlog[i].slate
    BY <1>0 DEF EntrySteps
  <1>2. SlateKnown' /\ ConfirmedWasMined'
    BY DEF EntrySteps, SlateKnown, ConfirmedWasMined
  <1>3. \A s \in Slates : \A k : Offered(offers, s, k) => Offered(offers', s, k)
    BY DEF Offered
  <1>4. ASSUME NEW r \in Rows, NEW o, Owned(txlog, offers, nextLog, r, o)
        PROVE  Owned(txlog', offers', nextLog', r, o)
    BY <1>1, <1>3, <1>4 DEF Owned
  <1>5. TableOwned'
    BY <1>4 DEF MarkInv, TableOwned
  <1>6. \A r \in Rows : Owned(txlog', offers', nextLog', r, NoRow)
    BY DEF Owned, NoRow
  <1>7. RowsOwned'
    BY <1>4, <1>6 DEF MarkInv, TableOwned, RowsOwned
  <1>8. TxsRead'
    <2>1. ASSUME NEW p \in Updaters, NEW i \in LogIds, upd'[p].txs[i].slate \in Slates
          PROVE  i < nextLog' /\ txlog'[i].slate = upd'[p].txs[i].slate
      <3>1. CASE upd'[p].txs[i].slate = upd[p].txs[i].slate
        BY <1>1, <2>1, <3>1 DEF MarkInv, TxsRead, ReadOk
      <3>2. CASE upd'[p].txs[i].slate = txlog[i].slate
        BY <1>1, <2>1, <3>2 DEF MarkInv, SlateKnown
      <3>3. QED
        BY <1>0, <2>1, <3>1, <3>2
    <2>2. QED
      BY <2>1 DEF TxsRead, ReadOk
  <1>9. WatchRead'
    <2>1. CASE watch' = watch
      <3>1. watch.todo \subseteq LogIds
        BY DEF TypeOK, WatchState
      <3>2. QED
        BY <1>1, <2>1, <3>1 DEF MarkInv, WatchRead, WatchOk, SnapOk
    <2>2. CASE WatchOk(txlog', nextLog', seen', watch')
      BY <2>2 DEF WatchRead
    <2>3. QED
      BY <2>1, <2>2
  <1>10. QED
    BY <1>2, <1>5, <1>7, <1>8, <1>9 DEF MarkInv

\* An entry confirmed because an output of it is on chain is one of a mined slate:
\* the output is offered in no other slate, so it came on chain with this one.
LEMMA FoundWasMined ==
  ASSUME TypeOK, ChainInv, MarkInv, NEW m \in SUBSET Rows, NEW i \in ConfirmedBy(m)
  PROVE  txlog[i].slate \in seen
  <1>1. PICK r \in m : r[1] \in utxo /\ ~out[r].cb /\ out[r].status = "Unconfirmed" /\ out[r].entry = i
    BY DEF ConfirmedBy
  <1> DEFINE s == txlog[i].slate
             k == r[1]
  <1>2. s \in Slates /\ Offered(offers, s, k) /\ k \in Keys
    BY <1>1 DEF MarkInv, TableOwned, Owned, Rows
  <1>3. Minted(cbKeys, seen, offers, k)
    BY <1>1 DEF ChainInv, UtxoMinted
  <1>4. ~(k < Coins) /\ k \notin cbKeys
    BY <1>2 DEF ChainInv, NotCoin
  <1>5. PICK t \in seen : Offered(offers, t, k)
    BY <1>3, <1>4 DEF Minted
  <1>6. t = s
    <2>1. t \in Slates
      BY DEF TypeOK
    <2>2. QED
      BY <1>2, <1>5, <2>1 DEF ChainInv, OneSlate
  <1>7. QED
    BY <1>5, <1>6

\* refresh_outputs marks entries of mined slates only, and leaves no row expected
\* that was not.
LEMMA RefreshMarks ==
  ASSUME TypeOK, TypeOK', ChainInv, MarkInv, NEW m \in SUBSET Rows, NEW ids \in CoinbaseIds(m),
         RefreshOutputs(m, ids), seen' = seen
  PROVE  /\ EntrySteps /\ nextLog <= nextLog'
         /\ \A r \in Rows : out'[r] = out[r] \/ Owned(txlog', offers', nextLog', r, out'[r])
  <1> DEFINE n == Cardinality(NewCoinbases(m))
  <1>1. n \in Nat /\ nextLog \in Nat /\ nextLog' = nextLog + n
    BY FiniteRows DEF NewCoinbases, RefreshOutputs, TypeOK
  <1>2. \A r \in NewCoinbases(m) : nextLog <= ids[r] /\ ids[r] \in LogIds
    BY DEF CoinbaseIds
  <1>3. NoSlate \notin Slates
    BY ConstantsAssumption
  <1>4. ASSUME NEW i \in LogIds
        PROVE  \/ txlog'[i] = txlog[i]
               \/ ~(i < nextLog) /\ txlog'[i].slate = NoSlate
               \/ i \in ConfirmedBy(m) /\ txlog'[i].slate = txlog[i].slate
    <2>1. [NoEntry EXCEPT !.type = "ConfirmedCoinbase", !.confirmed = TRUE].slate = NoSlate
      BY DEF NoEntry
    <2>2. [txlog[i] EXCEPT !.confirmed = TRUE, !.type = ConfirmedType(txlog[i].type)].slate = txlog[i].slate
      BY DEF TypeOK, TxLogEntry
    <2>3. (\E r \in NewCoinbases(m) : ids[r] = i) => ~(i < nextLog)
      BY <1>1, <1>2 DEF LogIds
    <2>4. QED
      BY <2>1, <2>2, <2>3 DEF RefreshOutputs, RefreshedLog, ApplyLog
  <1>5. nextLog <= nextLog' /\ \A i \in LogIds : i < nextLog => i < nextLog'
    BY <1>1 DEF LogIds
  <1>6. EntrySteps
    <2>1. ASSUME NEW i \in LogIds
          PROVE  /\ i < nextLog => txlog'[i].slate = txlog[i].slate
                 /\ txlog'[i].slate \in Slates => i < nextLog'
                 /\ txlog'[i].confirmed /\ txlog'[i].slate # NoSlate => txlog'[i].slate \in seen'
      <3>1. CASE txlog'[i] = txlog[i]
        BY <1>5, <3>1 DEF MarkInv, SlateKnown, ConfirmedWasMined
      <3>2. CASE ~(i < nextLog) /\ txlog'[i].slate = NoSlate
        BY <1>3, <3>2
      <3>3. CASE i \in ConfirmedBy(m) /\ txlog'[i].slate = txlog[i].slate
        BY <1>5, <3>3, FoundWasMined DEF MarkInv, SlateKnown
      <3>4. QED
        BY <1>4, <3>1, <3>2, <3>3
    <2>2. QED
      BY <2>1 DEF EntrySteps
  <1>7. ASSUME NEW r \in Rows, out'[r] # out[r] PROVE out'[r].status # "Unconfirmed"
    <2> DEFINE o == out[r]
    <2>1. o \in OutputData
      BY DEF TypeOK
    <2>2. NoRow.status # "Unconfirmed"
      BY DEF NoRow
    <2>3. out'[r] \in {NoRow, o, ApplyOut(m, ids)[r]}
      BY DEF RefreshOutputs, RefreshedOut, CleanOldUnconfirmed
    <2>4. ApplyOut(m, ids)[r] \in {o, MarkSpent(o), MarkUnspent(o), MarkUnspent([o EXCEPT !.entry = ids[r]])}
      BY DEF ApplyOut
    <2>5. \A x \in OutputData : MarkUnspent(x).status # "Unconfirmed"
      BY DEF MarkUnspent, OutputData
    <2>6. MarkSpent(o) = o \/ MarkSpent(o).status # "Unconfirmed"
      BY <2>1 DEF MarkSpent, OutputData
    <2>7. MarkUnspent([o EXCEPT !.entry = ids[r]]).status # "Unconfirmed"
      BY <2>1 DEF MarkUnspent, OutputData
    <2>8. QED
      BY <1>7, <2>1, <2>2, <2>3, <2>4, <2>5, <2>6, <2>7
  <1>8. QED
    BY <1>5, <1>6, <1>7 DEF Owned

\* The API calls and the node.
LEMMA ApiMarks ==
  ASSUME TypeOK, TypeOK', ChainInv, MarkInv, seen \subseteq seen',
         \A s \in Slates : offers[s] \subseteq offers'[s],
         \/ \E s \in Slates, pref \in Mmr, change \in BOOLEAN :
              InitSendTx(s, pref, change) \/ ProcessInvoiceTx(s, pref, change)
         \/ \E s \in Slates : \/ TxLockOutputs(s) \/ LockPanics(s)
                              \/ FinalizeTx(s) \/ FinalizeInvoiceTx(s)
                              \/ ReceiveTx(s) \/ IssueInvoiceTx(s)
                              \/ RemoteFinalize(s) \/ PostTx(s) \/ MineTx(s) \/ Fork(s)
         \/ \E k \in Keys : BuildCoinbase(k) \/ MineCoinbase(k)
         \/ MineEmpty
  PROVE  MarkInv'
  <1> DEFINE TableGood == \A r \in Rows : out'[r] = out[r] \/ Owned(txlog', offers', nextLog', r, out'[r])
  <1>0. nextLog \in Nat /\ LogIds \subseteq Int
    BY DEF TypeOK, LogIds
  <1>1. ASSUME EntrySteps, nextLog <= nextLog', upd' = upd, watch' = watch, TableGood
        PROVE  MarkInv'
    BY <1>1, MarksKept
  <1>2. ASSUME NEW s \in Slates, NEW pref \in Mmr, NEW change \in BOOLEAN,
               AddInputs(s, pref, change)
        PROVE  MarkInv'
    <2>1. PICK ids \in CoinbaseIds(MapWalletOutputs(pref)) : RefreshOutputs(MapWalletOutputs(pref), ids)
      BY <1>2 DEF AddInputs
    <2>2. upd' = upd /\ watch' = watch /\ seen' = seen
      BY <1>2 DEF AddInputs, nodeVars
    <2>3. EntrySteps /\ nextLog <= nextLog' /\ TableGood
      BY <2>1, <2>2, MapType, RefreshMarks
    <2>4. QED
      BY <1>1, <2>2, <2>3
  <1>3. ASSUME NEW e, nextLog \in LogIds, txlog' = [txlog EXCEPT ![nextLog] = e],
               nextLog' = nextLog + 1, ~e.confirmed
        PROVE  EntrySteps /\ nextLog <= nextLog'
    <2>1. \A i \in LogIds : txlog'[i] = IF i = nextLog THEN e ELSE txlog[i]
      BY <1>3 DEF TypeOK
    <2>2. nextLog <= nextLog' /\ \A i \in LogIds : (i < nextLog => i < nextLog' /\ i # nextLog)
                                                    /\ (i = nextLog => i < nextLog')
      BY <1>0, <1>3
    <2>3. QED
      BY <1>3, <2>1, <2>2 DEF EntrySteps, MarkInv, SlateKnown, ConfirmedWasMined
  <1>4. ASSUME NEW s \in Slates, NEW r \in Rows, NEW o, o.entry = nextLog, nextLog \in LogIds,
               txlog'[nextLog].slate = s, nextLog' = nextLog + 1, Offered(offers', s, r[1])
        PROVE  Owned(txlog', offers', nextLog', r, o)
    BY <1>0, <1>4 DEF Owned
  <1>5. ASSUME NEW s \in Slates, TxLockOutputs(s) PROVE MarkInv'
    <2>1. nextLog \in LogIds
      <3>1. nextLog < MaxTxs
        BY <1>5 DEF TxLockOutputs
      <3>2. QED
        BY <3>1, ConstantsAssumption DEF TypeOK, LogIds, MaxIds
    <2>2. PICK x : txlog' = [txlog EXCEPT ![nextLog] =
                      [type |-> "TxSentCreated", slate |-> s, confirmed |-> FALSE, ttl |-> ttl[s],
                       kernel_excess |-> x, both |-> ctx[s].outs # {}]]
      BY <1>5 DEF TxLockOutputs
    <2> DEFINE e == [type |-> "TxSentCreated", slate |-> s, confirmed |-> FALSE, ttl |-> ttl[s],
                     kernel_excess |-> x, both |-> ctx[s].outs # {}]
    <2>3. e.slate = s /\ ~e.confirmed /\ txlog' = [txlog EXCEPT ![nextLog] = e]
      BY <2>2
    <2> HIDE DEF e
    <2>4. nextLog' = nextLog + 1 /\ upd' = upd /\ watch' = watch /\ offers' = offers
      BY <1>5 DEF TxLockOutputs, slateVars
    <2>5. txlog'[nextLog].slate = s
      BY <2>1, <2>3 DEF TypeOK
    <2>6. ASSUME NEW r \in Rows PROVE out'[r] = out[r] \/ Owned(txlog', offers', nextLog', r, out'[r])
      <3>1. \/ out'[r] = out[r]
            \/ out'[r] = [out[r] EXCEPT !.status = "Locked", !.entry = nextLog]
            \/ r[1] \in ctx[s].outs /\ out'[r] = [NoRow EXCEPT !.status = "Unconfirmed", !.entry = nextLog]
        BY <1>5 DEF TxLockOutputs
      <3>2. [out[r] EXCEPT !.status = "Locked", !.entry = nextLog].status = "Locked"
        BY DEF TypeOK, OutputData
      <3>3. CASE r[1] \in ctx[s].outs /\ out'[r] = [NoRow EXCEPT !.status = "Unconfirmed", !.entry = nextLog]
        <4>1. out'[r].entry = nextLog
          BY <3>3 DEF NoRow
        <4>2. Offered(offers', s, r[1])
          BY <2>4, <3>3 DEF ChainInv, CtxOffered
        <4>3. QED
          BY <1>4, <2>1, <2>4, <2>5, <4>1, <4>2
      <3>4. QED
        BY <3>1, <3>2, <3>3 DEF Owned
    <2>7. EntrySteps /\ nextLog <= nextLog'
      BY <1>3, <2>1, <2>3, <2>4
    <2>8. QED
      BY <1>1, <2>4, <2>6, <2>7
  <1>6. ASSUME UNCHANGED <<txlog, upd, watch>>, nextLog <= nextLog', nextLog' \in Int, TableGood
        PROVE  MarkInv'
    <2>1. EntrySteps
      BY <1>0, <1>6 DEF EntrySteps, MarkInv, SlateKnown, ConfirmedWasMined
    <2>2. QED
      BY <1>1, <1>6, <2>1
  <1>7. ASSUME NEW s \in Slates, LockPanics(s) PROVE MarkInv'
    <2>1. nextLog' = nextLog + 1 /\ UNCHANGED <<txlog, upd, watch>>
      BY <1>7 DEF LockPanics
    <2>2. \A r \in Rows : \/ out'[r] = out[r]
                          \/ out'[r] = [out[r] EXCEPT !.status = "Locked", !.entry = nextLog]
      BY <1>7 DEF LockPanics
    <2>3. \A r \in Rows : [out[r] EXCEPT !.status = "Locked", !.entry = nextLog].status = "Locked"
      BY DEF TypeOK, OutputData
    <2>4. TableGood
      BY <2>2, <2>3 DEF Owned
    <2>5. QED
      BY <1>0, <1>6, <2>1, <2>4
  <1>8. ASSUME NEW s \in Slates, NEW types, Finalize(s, types) PROVE MarkInv'
    <2>1. \E i, tx : txlog' = [txlog EXCEPT ![i].kernel_excess = tx]
      BY <1>8 DEF Finalize, UpdateStoredTx
    <2>2. \A i \in LogIds : txlog'[i].slate = txlog[i].slate /\ txlog'[i].confirmed = txlog[i].confirmed
      BY <2>1 DEF TypeOK, TxLogEntry
    <2>3. nextLog' = nextLog /\ UNCHANGED <<upd, watch, out>>
      BY <1>8 DEF Finalize
    <2>4. EntrySteps
      BY <2>2, <2>3 DEF EntrySteps, MarkInv, SlateKnown, ConfirmedWasMined
    <2>5. QED
      BY <1>0, <1>1, <2>3, <2>4
  <1>9. ASSUME NEW s \in Slates, ReceiveTx(s) \/ IssueInvoiceTx(s) PROVE MarkInv'
    <2>1. PICK x : BuildRecipientOutput(s, x)
      BY <1>9 DEF ReceiveTx, IssueInvoiceTx
    <2>2. nextLog \in LogIds
      <3>1. nextLog < MaxTxs
        BY <2>1 DEF BuildRecipientOutput
      <3>2. QED
        BY <3>1, ConstantsAssumption DEF TypeOK, LogIds, MaxIds
    <2> DEFINE e  == [type |-> "TxReceived", slate |-> s, confirmed |-> FALSE, ttl |-> ttl[s],
                      kernel_excess |-> x, both |-> FALSE]
               tx == [ins |-> {}, outs |-> {nextChild}]
    <2>3. e.slate = s /\ ~e.confirmed /\ txlog' = [txlog EXCEPT ![nextLog] = e]
      BY <2>1 DEF BuildRecipientOutput
    <2>4. nextLog' = nextLog + 1 /\ upd' = upd /\ watch' = watch
      BY <2>1 DEF BuildRecipientOutput
    <2>5. offers' = [offers EXCEPT ![s] = @ \cup {tx}] /\ tx.outs = {nextChild}
      BY <2>1 DEF BuildRecipientOutput
    <2>6. \A r \in Rows : \/ out'[r] = out[r]
                          \/ /\ r = <<nextChild, 0>>
                             /\ out'[r] = [NoRow EXCEPT !.status = "Unconfirmed", !.entry = nextLog]
      BY <2>1 DEF BuildRecipientOutput, TypeOK
    <2> HIDE DEF e, tx
    <2>7. txlog'[nextLog].slate = s
      BY <2>2, <2>3 DEF TypeOK
    <2>8. Offered(offers', s, nextChild)
      BY <2>5 DEF TypeOK, Offered
    <2>9. ASSUME NEW r \in Rows, r = <<nextChild, 0>>,
                 out'[r] = [NoRow EXCEPT !.status = "Unconfirmed", !.entry = nextLog]
          PROVE  Owned(txlog', offers', nextLog', r, out'[r])
      <3>1. out'[r].entry = nextLog /\ r[1] = nextChild
        BY <2>9 DEF NoRow
      <3>2. QED
        BY <1>4, <2>2, <2>4, <2>7, <2>8, <3>1
    <2>10. EntrySteps /\ nextLog <= nextLog'
      BY <1>3, <2>2, <2>3, <2>4
    <2>11. QED
      BY <1>1, <2>4, <2>6, <2>9, <2>10
  <1>10. ASSUME NEW s \in Slates, RemoteFinalize(s) \/ PostTx(s) \/ MineTx(s) \/ Fork(s)
         PROVE  MarkInv'
    <2>1. UNCHANGED <<txlog, upd, watch, nextLog, out>>
      BY <1>10 DEF RemoteFinalize, PostTx, MineTx, Fork, ChainUnchanged, dbVars
    <2>2. QED
      BY <1>0, <1>6, <2>1
  <1>11. ASSUME NEW k \in Keys, BuildCoinbase(k) PROVE MarkInv'
    <2>1. UNCHANGED <<txlog, upd, watch, nextLog>>
      BY <1>11 DEF BuildCoinbase
    <2>2. \A r \in Rows : out'[r] = out[r] \/ out'[r].cb
      BY <1>11 DEF BuildCoinbase, TypeOK
    <2>3. TableGood
      BY <2>2 DEF Owned
    <2>4. QED
      BY <1>0, <1>6, <2>1, <2>3
  <1>12. ASSUME NEW k \in Keys, MineCoinbase(k) PROVE MarkInv'
    <2>1. UNCHANGED <<txlog, upd, watch, nextLog, out>>
      BY <1>12 DEF MineCoinbase, ChainUnchanged, dbVars
    <2>2. QED
      BY <1>0, <1>6, <2>1
  <1>13. CASE MineEmpty
    <2>1. UNCHANGED <<txlog, upd, watch, nextLog, out>>
      BY <1>13 DEF MineEmpty, ChainUnchanged, dbVars
    <2>2. QED
      BY <1>0, <1>6, <2>1
  <1>14. QED
    BY <1>2, <1>5, <1>7, <1>8, <1>9, <1>10, <1>11, <1>12, <1>13
       DEF InitSendTx, ProcessInvoiceTx, FinalizeTx, FinalizeInvoiceTx

\* The steps of an update: what it saves is what it read, and it marks an entry
\* only when the node has the kernel of the entry's slate.
LEMMA UpdateMarks ==
  ASSUME TypeOK, TypeOK', KeyInv, ChainInv, MarkInv, NEW p \in Updaters,
         \/ UpdateStep(p) \/ UpdateFails(p)
         \/ \E i \in LogIds, pref \in Mmr : StartCancel(p, i, pref)
         \/ \E pref \in Mmr : StartScan(p, pref)
  PROVE  MarkInv'
  <1> DEFINE u == upd[p]
             Good(v) == /\ \A r \in Rows : v.rows[r] = u.rows[r] \/ v.rows[r] \in {NoRow, out[r]}
                        /\ \A i \in LogIds : \/ v.txs[i].slate = u.txs[i].slate
                                             \/ v.txs[i].slate \in {NoSlate, txlog[i].slate}
             SameLog == \A i \in LogIds : /\ txlog'[i].slate = txlog[i].slate
                                          /\ txlog'[i].confirmed = txlog[i].confirmed
             TableGood == \A r \in Rows : out'[r] = out[r] \/ Owned(txlog', offers', nextLog', r, out'[r])
  <1>0. /\ u \in UpdateState /\ nextLog \in Nat /\ LogIds \subseteq Int /\ NoSlate \notin Slates
        /\ \A r \in Rows : u.rows[r] \in OutputData /\ Owned(txlog, offers, nextLog, r, u.rows[r])
        /\ \A r \in Rows : out[r] \in OutputData
        /\ \A i \in LogIds : txlog[i] \in TxLogEntry
    <2>1. NoSlate \notin Slates
      BY ConstantsAssumption
    <2>2. LogIds \subseteq Int
      BY DEF LogIds
    <2>3. u \in UpdateState /\ nextLog \in Nat
      BY DEF TypeOK
    <2>4. \A r \in Rows : u.rows[r] \in OutputData /\ out[r] \in OutputData
      BY <2>3 DEF TypeOK, UpdateState
    <2>5. \A i \in LogIds : txlog[i] \in TxLogEntry
      BY DEF TypeOK
    <2>6. \A r \in Rows : Owned(txlog, offers, nextLog, r, u.rows[r])
      BY DEF MarkInv, RowsOwned
    <2>7. QED
      BY <2>1, <2>2, <2>3, <2>4, <2>5, <2>6
  <1>1. UNCHANGED <<offers, seen, mined>>
    BY UpdateKeys DEF slateVars, nodeVars
  <1>2. watch' = watch
    <2>1. CASE \/ UpdateFails(p)
               \/ \E i \in LogIds, pref \in Mmr : StartCancel(p, i, pref)
               \/ \E pref \in Mmr : StartScan(p, pref) \/ StartUpdate(p, pref) \/ ScanReadOutputs(p, pref)
      <3>1. ASSUME NEW job, NEW i, NEW pref, UpdateOutputs(p, job, i, pref) PROVE watch' = watch
        BY <3>1 DEF UpdateOutputs, Unchanged
      <3>2. ASSUME NEW pref, ScanReadOutputs(p, pref) PROVE watch' = watch
        BY <3>2 DEF ScanReadOutputs, Unchanged
      <3>3. CASE UpdateFails(p)
        BY <3>3 DEF UpdateFails, Unchanged
      <3>4. QED
        BY <2>1, <3>1, <3>2, <3>3 DEF StartCancel, StartScan, StartUpdate
    <2>2. CASE \/ RetrieveOutstanding(p) \/ UpdateTxViaKernel(p) \/ KernelsDone(p) \/ CollectChainOutputs(p)
               \/ ScanReadChildIndex(p) \/ ScanSaveChildIndex(p)
               \/ ExpireTx(p) \/ UpdateDone(p) \/ CancelTx(p)
      BY <2>2 DEF RetrieveOutstanding, UpdateTxViaKernel, KernelsDone, CollectChainOutputs,
                  ScanReadChildIndex, ScanSaveChildIndex, ExpireTx, UpdateDone, CancelTx, Unchanged
    <2>3. CASE \E r \in Rows : \/ ScanIndexOutput(p, r) \/ ScanUnspendOutput(p, r)
                              \/ RestoreMissingOutput(p, r)
                              \/ ScanUnlockOutput(p, r) \/ ScanDeleteOutput(p, r)
      BY <2>3 DEF ScanIndexOutput, ScanUnspendOutput, RestoreMissingOutput, ScanUnlockOutput,
                  ScanDeleteOutput, UnspendRow, Unchanged
    <2>4. QED
      BY <2>1, <2>2, <2>3 DEF UpdateStep
  <1>3. ASSUME EntrySteps, nextLog <= nextLog', NEW v, upd' = [upd EXCEPT ![p] = v], Good(v), TableGood
        PROVE  MarkInv'
    <2>1. \A q \in Updaters, r \in Rows : \/ upd'[q].rows[r] = upd[q].rows[r]
                                          \/ upd'[q].rows[r] \in {NoRow, out[r]}
      BY <1>3 DEF TypeOK
    <2>2. \A q \in Updaters, i \in LogIds : \/ upd'[q].txs[i].slate = upd[q].txs[i].slate
                                            \/ upd'[q].txs[i].slate \in {NoSlate, txlog[i].slate}
      BY <1>3 DEF TypeOK
    <2>3. QED
      BY <1>1, <1>2, <1>3, <2>1, <2>2, MarksKept
  <1>4. ASSUME nextLog' = nextLog, SameLog PROVE EntrySteps /\ nextLog <= nextLog'
    <2>1. nextLog <= nextLog'
      BY <1>0, <1>4
    <2>2. EntrySteps
      BY <1>1, <1>4 DEF EntrySteps, MarkInv, SlateKnown, ConfirmedWasMined
    <2>3. QED
      BY <2>1, <2>2
  <1>5. ASSUME NEW v, v.rows = u.rows, v.txs = u.txs PROVE Good(v)
    BY <1>5
  <1>6. Good(UpdateIdle) /\ Good(AfterScan(p))
    <2>1. NoEntry.slate = NoSlate
      BY DEF NoEntry
    <2>2. QED
      BY <2>1 DEF UpdateIdle, AfterScan
  <1>7. ASSUME nextLog' = nextLog, txlog' = txlog, out' = out,
               NEW v, upd' = [upd EXCEPT ![p] = v], Good(v)
        PROVE  MarkInv'
    <2> HIDE DEF Good
    <2> QED BY <1>3, <1>4, <1>7
  <1>8. ASSUME NEW job, NEW goal, NEW pref \in Mmr, UpdateOutputs(p, job, goal, pref)
        PROVE  MarkInv'
    <2> DEFINE pc == IF job = "scan" THEN "chain" ELSE "outstanding"
               v  == [u EXCEPT !.pc = pc, !.job = job, !.goal = goal]
    <2>1. PICK ids \in CoinbaseIds(MapWalletOutputs(pref)) : RefreshOutputs(MapWalletOutputs(pref), ids)
      BY <1>8 DEF UpdateOutputs
    <2>2. EntrySteps /\ nextLog <= nextLog' /\ TableGood
      BY <1>1, <2>1, MapType, RefreshMarks
    <2>3. upd' = [upd EXCEPT ![p] = v]
      BY <1>8 DEF UpdateOutputs, TypeOK
    <2>4. v.rows = u.rows /\ v.txs = u.txs
      BY <1>0 DEF UpdateState
    <2>5. QED
      <3> HIDE DEF v, Good
      <3> QED BY <1>3, <1>5, <2>2, <2>3, <2>4
  <1>9. CASE RetrieveOutstanding(p)
    <2> DEFINE os == {i \in LogIds : Outstanding(txlog[i])}
               f  == [i \in LogIds |-> IF i \in os THEN txlog[i] ELSE NoEntry]
               v  == [u EXCEPT !.pc = "kernels", !.todo = os, !.txs = f]
    <2>1. upd' = [upd EXCEPT ![p] = v] /\ nextLog' = nextLog /\ txlog' = txlog /\ out' = out
      BY <1>9 DEF RetrieveOutstanding, TypeOK, dbVars
    <2>2. \A i \in LogIds : f[i].slate \in {NoSlate, txlog[i].slate}
      <3> HIDE DEF os
      <3> QED BY DEF NoEntry
    <2>3. v.rows = u.rows /\ v.txs = f
      <3> HIDE DEF os, f, u
      <3> QED BY <1>0 DEF UpdateState
    <2> HIDE DEF v, f, os
    <2>4. Good(v)
      BY <2>2, <2>3
    <2>5. QED
      <3> HIDE DEF Good
      <3> QED BY <1>7, <2>1, <2>4
  <1>10. CASE UpdateTxViaKernel(p)
    <2> DEFINE i == Least(u.todo)
               t == u.txs[i]
               c == [t EXCEPT !.confirmed = TRUE]
               v == [u EXCEPT !.todo = @ \ {i}]
               w == [u EXCEPT !.todo = @ \ {i}, !.txs[i] = c]
    <2>1. i \in LogIds
      BY <1>0, <1>10, LeastIsIn DEF UpdateTxViaKernel, UpdateState
    <2>2. nextLog' = nextLog /\ out' = out
      BY <1>10 DEF UpdateTxViaKernel
    <2>3. \/ upd' = [upd EXCEPT ![p] = v] /\ txlog' = txlog
          \/ upd' = [upd EXCEPT ![p] = w] /\ txlog' = [txlog EXCEPT ![i] = c] /\ OnChain(t)
      BY <1>10 DEF UpdateTxViaKernel, TypeOK
    <2>4. c.slate = t.slate
      BY <1>0, <2>1 DEF UpdateState, TxLogEntry
    <2>5. v.rows = u.rows /\ v.txs = u.txs /\ w.rows = u.rows
      BY <1>0 DEF UpdateState
    <2>6. \A j \in LogIds : w.txs[j].slate = u.txs[j].slate
      <3> HIDE DEF c
      <3>1. w.txs = [u.txs EXCEPT ![i] = c]
        BY <1>0 DEF UpdateState
      <3>2. u.txs \in [LogIds -> TxLogEntry]
        BY <1>0 DEF UpdateState
      <3> HIDE DEF w, i, u
      <3>3. QED
        BY <2>1, <2>4, <3>1, <3>2
    <2>7. ReadOk(txlog, nextLog, t, i)
      BY <2>1 DEF MarkInv, TxsRead
    <2> HIDE DEF v, w, c, i, t
    <2>8. CASE upd' = [upd EXCEPT ![p] = v] /\ txlog' = txlog
      <3> HIDE DEF Good
      <3> QED BY <1>5, <1>7, <2>2, <2>5, <2>8
    <2>9. CASE upd' = [upd EXCEPT ![p] = w] /\ txlog' = [txlog EXCEPT ![i] = c] /\ OnChain(t)
      <3>1. t.slate \in seen /\ seen \subseteq Slates
        BY <2>9 DEF OnChain, ChainInv, PostedFinal, TypeOK
      <3>2. i < nextLog /\ txlog[i].slate = c.slate
        BY <2>4, <2>7, <3>1 DEF ReadOk
      <3>3. \A j \in LogIds : txlog'[j].slate = txlog[j].slate /\ (j # i => txlog'[j] = txlog[j])
        BY <2>1, <2>9, <3>2 DEF TypeOK
      <3>4. EntrySteps
        <4>1. ASSUME NEW j \in LogIds
              PROVE  /\ j < nextLog => txlog'[j].slate = txlog[j].slate
                     /\ txlog'[j].slate \in Slates => j < nextLog'
                     /\ txlog'[j].confirmed /\ txlog'[j].slate # NoSlate => txlog'[j].slate \in seen'
          <5>1. CASE j = i
            BY <1>1, <2>2, <2>4, <3>1, <3>2, <3>3, <5>1
          <5>2. CASE j # i
            BY <1>1, <2>2, <3>3, <5>2 DEF MarkInv, SlateKnown, ConfirmedWasMined
          <5>3. QED
            BY <5>1, <5>2
        <4>2. QED
          BY <4>1 DEF EntrySteps
      <3>5. Good(w)
        BY <2>5, <2>6
      <3>6. TableGood /\ nextLog <= nextLog'
        BY <1>0, <2>2
      <3>7. QED
        <4> HIDE DEF Good, TableGood
        <4> QED BY <1>3, <2>9, <3>4, <3>5, <3>6
    <2>10. QED
      BY <2>3, <2>8, <2>9
  <1>11. CASE KernelsDone(p)
    <2> DEFINE v == [u EXCEPT !.pc = "chain"]
    <2>1. upd' = [upd EXCEPT ![p] = v] /\ nextLog' = nextLog /\ txlog' = txlog /\ out' = out
      BY <1>11 DEF KernelsDone, TypeOK, dbVars
    <2>2. v.rows = u.rows /\ v.txs = u.txs
      BY <1>0 DEF UpdateState
    <2>3. QED
      <3> HIDE DEF v, Good
      <3> QED BY <1>5, <1>7, <2>1, <2>2
  <1>12. CASE CollectChainOutputs(p)
    <2> DEFINE v == [u EXCEPT !.pc = "wallet", !.tip = tip, !.chain = {<<k, mmr[k]>> : k \in utxo}]
    <2>1. upd' = [upd EXCEPT ![p] = v] /\ nextLog' = nextLog /\ txlog' = txlog /\ out' = out
      BY <1>12 DEF CollectChainOutputs, TypeOK, dbVars
    <2>2. v.rows = u.rows /\ v.txs = u.txs
      BY <1>0 DEF UpdateState
    <2>3. QED
      <3> HIDE DEF v, Good
      <3> QED BY <1>5, <1>7, <2>1, <2>2
  <1>13. ASSUME NEW pref \in Mmr, ScanReadOutputs(p, pref) PROVE MarkInv'
    <2> DEFINE
      on(r)   == \E q \in u.chain : q[1] = r[1]
      matched == {r \in OneRowPerKey({r \in Rows : out[r].status # "None"}, pref) : on(r)}
      c       == matched \ u.chain
      d       == {r \in matched : out[r].status = "Spent"}
      f       == {r \in matched : out[r].status = "Locked" /\ u.job = "scan"}
      g       == {r \in Rows : out[r].status = "Unconfirmed" /\ u.job = "scan"}
      keep    == c \cup d \cup f \cup g
      a       == {q \in u.chain : \E r \in c : r[1] = q[1]}
      b       == [r \in Rows |-> IF r \in keep THEN out[r] ELSE NoRow]
      e       == {q \in u.chain : \A r \in matched : r[1] # q[1]}
      v       == [u EXCEPT !.pc = "repair", !.chain = a, !.rows = b, !.idx = c, !.fix = d,
                           !.miss = e, !.locked = f, !.unconf = g]
    <2>1. upd' = [upd EXCEPT ![p].pc = "repair", ![p].chain = a, ![p].rows = b,
                             ![p].idx = c, ![p].fix = d, ![p].miss = e,
                             ![p].locked = f, ![p].unconf = g]
      BY <1>13 DEF ScanReadOutputs
    <2>2. \A r \in Rows : b[r] \in {NoRow, out[r]}
      <3> HIDE DEF keep
      <3> QED OBVIOUS
    <2> HIDE DEF a, b, c, d, e, f, g
    <2>3. upd' = [upd EXCEPT ![p] = v]
      BY <2>1 DEF TypeOK
    <2>4. v.rows = b /\ v.txs = u.txs
      BY <1>0 DEF UpdateState
    <2>5. nextLog' = nextLog /\ txlog' = txlog /\ out' = out
      BY <1>13 DEF ScanReadOutputs, dbVars
    <2> HIDE DEF v
    <2>6. Good(v)
      BY <2>2, <2>4
    <2>7. QED
      <3> HIDE DEF Good
      <3> QED BY <1>7, <2>3, <2>5, <2>6
  <1>14. ASSUME NEW e, nextLog' = nextLog,
                txlog' = [i \in LogIds |-> IF i = e THEN [txlog[i] EXCEPT !.type = CancelledType(@)]
                                            ELSE txlog[i]]
         PROVE  EntrySteps /\ nextLog <= nextLog'
    <2>1. SameLog
      BY <1>0, <1>14 DEF TxLogEntry
    <2>2. QED
      BY <1>4, <1>14, <2>1
  <1>15. ASSUME NEW o \in OutputData, NEW r \in Rows, UnspendRow(o, r)
         PROVE  EntrySteps /\ nextLog <= nextLog' /\ TableGood
    <2>1. EntrySteps /\ nextLog <= nextLog'
      BY <1>14, <1>15 DEF UnspendRow
    <2>2. [o EXCEPT !.status = "Unspent"].status = "Unspent"
      BY DEF OutputData
    <2>3. out' = [out EXCEPT ![r] = [o EXCEPT !.status = "Unspent"]]
      BY <1>15 DEF UnspendRow
    <2>4. QED
      BY <2>1, <2>2, <2>3 DEF TypeOK, Owned
  <1>16. ASSUME NEW r \in Rows, ScanIndexOutput(p, r) PROVE MarkInv'
    <2> DEFINE v == [u EXCEPT !.idx = @ \ {r}]
    <2>1. upd' = [upd EXCEPT ![p] = v] /\ nextLog' = nextLog /\ txlog' = txlog
      BY <1>16 DEF ScanIndexOutput, TypeOK
    <2>2. v.rows = u.rows /\ v.txs = u.txs
      BY <1>0 DEF UpdateState
    <2>3. \A q \in Rows : out'[q] \in {NoRow, out[q]} \/ (q[1] = r[1] /\ out'[q] = u.rows[r])
      BY <1>16 DEF ScanIndexOutput, TypeOK
    <2>4. \A q \in Rows : /\ Owned(txlog', offers', nextLog', q, NoRow)
                          /\ q[1] = r[1] => Owned(txlog', offers', nextLog', q, u.rows[r])
      BY <1>0, <1>1, <2>1 DEF Owned, NoRow
    <2>5. TableGood
      BY <2>3, <2>4
    <2>6. SameLog
      BY <2>1
    <2>7. QED
      <3> HIDE DEF v, Good, TableGood, SameLog
      <3> QED BY <1>3, <1>4, <1>5, <2>1, <2>2, <2>5, <2>6
  <1>17. ASSUME NEW r \in Rows, ScanUnspendOutput(p, r) PROVE MarkInv'
    <2> DEFINE v == [u EXCEPT !.fix = @ \ {r}]
    <2>1. upd' = [upd EXCEPT ![p] = v] /\ UnspendRow(u.rows[r], r)
      BY <1>17 DEF ScanUnspendOutput, TypeOK
    <2>2. v.rows = u.rows /\ v.txs = u.txs
      BY <1>0 DEF UpdateState
    <2>3. QED
      <3> HIDE DEF v, Good, TableGood
      <3> QED BY <1>0, <1>3, <1>5, <1>15, <2>1, <2>2
  <1>18. ASSUME NEW r \in Rows, ScanUnlockOutput(p, r) PROVE MarkInv'
    <2> DEFINE v == [u EXCEPT !.locked = @ \ {r}]
    <2>1. upd' = [upd EXCEPT ![p] = v] /\ UnspendRow(u.rows[r], r)
      BY <1>18 DEF ScanUnlockOutput, TypeOK
    <2>2. v.rows = u.rows /\ v.txs = u.txs
      BY <1>0 DEF UpdateState
    <2>3. QED
      <3> HIDE DEF v, Good, TableGood
      <3> QED BY <1>0, <1>3, <1>5, <1>15, <2>1, <2>2
  <1>19. ASSUME NEW r \in Rows, ScanDeleteOutput(p, r) PROVE MarkInv'
    <2> DEFINE v == [u EXCEPT !.unconf = @ \ {r}]
    <2>1. upd' = [upd EXCEPT ![p] = v] /\ out' = [out EXCEPT ![r] = NoRow]
      BY <1>19 DEF ScanDeleteOutput, TypeOK
    <2>2. v.rows = u.rows /\ v.txs = u.txs
      BY <1>0 DEF UpdateState
    <2>3. EntrySteps /\ nextLog <= nextLog'
      BY <1>14, <1>19 DEF ScanDeleteOutput
    <2>4. TableGood
      BY <2>1 DEF TypeOK, Owned, NoRow
    <2>5. QED
      <3> HIDE DEF v, Good, TableGood
      <3> QED BY <1>3, <1>5, <2>1, <2>2, <2>3, <2>4
  <1>20. ASSUME NEW r \in Rows, RestoreMissingOutput(p, r) PROVE MarkInv'
    <2> DEFINE v == [u EXCEPT !.miss = @ \ {r}, !.found = IF r[1] >= @ THEN r[1] + 1 ELSE @]
               o == [status |-> "Unspent", entry |-> nextLog, cb |-> r[1] \in cbKeys, height |-> 0]
    <2>1. upd' = [upd EXCEPT ![p] = v]
      BY <1>20 DEF RestoreMissingOutput, TypeOK
    <2>2. v.rows = u.rows /\ v.txs = u.txs
      BY <1>0 DEF UpdateState
    <2>3. nextLog < MaxIds /\ nextLog' = nextLog + 1
      BY <1>20 DEF RestoreMissingOutput
    <2>4. nextLog \in LogIds
      BY <2>3, ConstantsAssumption DEF TypeOK, LogIds, MaxIds
    <2>5. PICK t : txlog' = [txlog EXCEPT ![nextLog] = [NoEntry EXCEPT !.type = t, !.confirmed = TRUE]]
      BY <1>20 DEF RestoreMissingOutput
    <2>6. [NoEntry EXCEPT !.type = t, !.confirmed = TRUE].slate = NoSlate
      BY DEF NoEntry
    <2>7. txlog'[nextLog].slate = NoSlate /\ \A i \in LogIds : i # nextLog => txlog'[i] = txlog[i]
      BY <2>4, <2>5, <2>6 DEF TypeOK
    <2>8. nextLog <= nextLog' /\ \A i \in LogIds : i < nextLog => i < nextLog' /\ i # nextLog
      BY <1>0, <2>3
    <2>9. EntrySteps
      <3>1. ASSUME NEW i \in LogIds
            PROVE  /\ i < nextLog => txlog'[i].slate = txlog[i].slate
                   /\ txlog'[i].slate \in Slates => i < nextLog'
                   /\ txlog'[i].confirmed /\ txlog'[i].slate # NoSlate => txlog'[i].slate \in seen'
        <4>1. CASE i = nextLog
          BY <1>0, <2>7, <2>8, <4>1
        <4>2. CASE i # nextLog
          BY <1>1, <2>7, <2>8, <4>2 DEF MarkInv, SlateKnown, ConfirmedWasMined
        <4>3. QED
          BY <4>1, <4>2
      <3>2. QED
        BY <3>1 DEF EntrySteps
    <2>10. TableGood
      <3>1. out' = [out EXCEPT ![r] = o] /\ o.status = "Unspent"
        BY <1>20 DEF RestoreMissingOutput
      <3> HIDE DEF o
      <3>2. QED
        BY <3>1 DEF TypeOK, Owned
    <2>11. QED
      <3> HIDE DEF v, Good, TableGood
      <3> QED BY <1>3, <1>5, <2>1, <2>2, <2>8, <2>9, <2>10
  <1>21. ASSUME NEW i, CancelTxAndOutputs(i), nextLog' = nextLog
         PROVE  EntrySteps /\ nextLog <= nextLog' /\ TableGood
    <2>1. txlog' = [j \in LogIds |-> IF j = i THEN [txlog[j] EXCEPT !.type = CancelledType(@)]
                                     ELSE txlog[j]]
      BY <1>21 DEF CancelTxAndOutputs, TypeOK
    <2>2. \A r \in Rows : out'[r] \in {out[r], NoRow, [out[r] EXCEPT !.status = "Unspent"]}
      BY <1>21 DEF CancelTxAndOutputs
    <2>3. \A r \in Rows : [out[r] EXCEPT !.status = "Unspent"].status = "Unspent"
      BY <1>0 DEF OutputData
    <2>4. NoRow.status = "None"
      BY DEF NoRow
    <2>5. TableGood
      BY <2>2, <2>3, <2>4 DEF Owned
    <2>6. QED
      BY <1>14, <1>21, <2>1, <2>5
  <1>22. CASE ScanReadChildIndex(p)
    <2>1. [u EXCEPT !.pc = "index"].rows = u.rows /\ [u EXCEPT !.pc = "index"].txs = u.txs
      BY <1>0 DEF UpdateState
    <2> HIDE DEF Good
    <2>2. \E v : upd' = [upd EXCEPT ![p] = v] /\ Good(v)
      BY <1>5, <1>6, <1>22, <2>1 DEF ScanReadChildIndex
    <2>3. nextLog' = nextLog /\ txlog' = txlog /\ out' = out
      BY <1>22 DEF ScanReadChildIndex, dbVars
    <2>4. QED
      BY <1>7, <2>2, <2>3
  <1>23. CASE ScanSaveChildIndex(p)
    <2>1. upd' = [upd EXCEPT ![p] = AfterScan(p)] /\ nextLog' = nextLog /\ txlog' = txlog /\ out' = out
      BY <1>23 DEF ScanSaveChildIndex
    <2>2. QED
      <3> HIDE DEF Good
      <3> QED BY <1>6, <1>7, <2>1
  <1>24. CASE ExpireTx(p)
    <2> DEFINE i == Least(u.todo)
               v == [u EXCEPT !.todo = @ \ {i}]
    <2>1. nextLog' = nextLog
      BY <1>24 DEF ExpireTx
    <2>2. v.rows = u.rows /\ v.txs = u.txs
      BY <1>0 DEF UpdateState
    <2>3. CASE Cancellable(txlog[i])
      <3>1. CancelTxAndOutputs(i) /\ upd' = [upd EXCEPT ![p] = v]
        BY <1>24, <2>3 DEF ExpireTx, TypeOK
      <3> HIDE DEF i, v, Good, TableGood
      <3>2. QED
        BY <1>3, <1>5, <1>21, <2>1, <2>2, <3>1
    <2>4. CASE ~Cancellable(txlog[i])
      <3>1. upd' = [upd EXCEPT ![p] = UpdateIdle] /\ txlog' = txlog /\ out' = out
        BY <1>24, <2>4 DEF ExpireTx
      <3> HIDE DEF i, v, Good
      <3>2. QED
        BY <1>6, <1>7, <2>1, <3>1
    <2>5. QED
      BY <2>3, <2>4
  <1>25. CASE UpdateDone(p)
    <2>1. [u EXCEPT !.pc = "cancel"].rows = u.rows /\ [u EXCEPT !.pc = "cancel"].txs = u.txs
      BY <1>0 DEF UpdateState
    <2> HIDE DEF Good
    <2>2. \E v : upd' = [upd EXCEPT ![p] = v] /\ Good(v)
      BY <1>5, <1>6, <1>25, <2>1 DEF UpdateDone
    <2>3. nextLog' = nextLog /\ txlog' = txlog /\ out' = out
      BY <1>25 DEF UpdateDone, dbVars
    <2>4. QED
      BY <1>7, <2>2, <2>3
  <1>26. CASE CancelTx(p)
    <2>1. upd' = [upd EXCEPT ![p] = UpdateIdle] /\ nextLog' = nextLog
      BY <1>26 DEF CancelTx
    <2>2. \/ CancelTxAndOutputs(u.goal)
          \/ txlog' = txlog /\ out' = out
      BY <1>26 DEF CancelTx
    <2> HIDE DEF Good, TableGood, u
    <2>3. CASE CancelTxAndOutputs(u.goal)
      BY <1>3, <1>6, <1>21, <2>1, <2>3
    <2>4. QED
      BY <1>6, <1>7, <2>1, <2>2, <2>3
  <1>27. CASE UpdateFails(p)
    <2>1. upd' = [upd EXCEPT ![p] = UpdateIdle] /\ nextLog' = nextLog /\ txlog' = txlog /\ out' = out
      BY <1>27 DEF UpdateFails, dbVars
    <2>2. QED
      <3> HIDE DEF Good
      <3> QED BY <1>6, <1>7, <2>1
  <1>28. QED
    BY <1>8, <1>9, <1>10, <1>11, <1>12, <1>13, <1>16, <1>17, <1>18, <1>19, <1>20, <1>22, <1>23,
       <1>24, <1>25, <1>26, <1>27 DEF UpdateStep, StartUpdate, StartCancel, StartScan

\* The mempool watch: it saves entries of the watched slate only, as it read them.
LEMMA WatchMarks ==
  ASSUME TypeOK, TypeOK', MarkInv, WatchStep
  PROVE  MarkInv'
  <1>0. /\ watch \in WatchState /\ nextLog \in Nat
        /\ \A i \in LogIds : txlog[i] \in TxLogEntry
        /\ WatchOk(txlog, nextLog, seen, watch)
    BY DEF TypeOK, MarkInv, WatchRead
  <1>1. UNCHANGED <<out, nextLog, upd, offers, seen>>
    BY DEF WatchStep, PollMempool, ReadWatchedEntries, SaveWatchedEntry, UpdateMempoolStatus,
           WatchUnchanged, slateVars, nodeVars
  <1>2. ASSUME EntrySteps, WatchOk(txlog', nextLog', seen', watch') PROVE MarkInv'
    BY <1>0, <1>1, <1>2, MarksKept
  <1>3. ASSUME \A i \in LogIds : /\ txlog'[i].slate = txlog[i].slate
                                 /\ txlog'[i].confirmed => txlog[i].confirmed \/ txlog[i].slate \in seen
        PROVE  EntrySteps
    BY <1>1, <1>3 DEF EntrySteps, MarkInv, SlateKnown, ConfirmedWasMined
  <1>4. WatchOk(txlog', nextLog', seen', WatchIdle)
    BY DEF WatchOk, WatchIdle
  <1>5. ASSUME NEW s \in Slates, PollMempool(s) PROVE MarkInv'
    <2> DEFINE w == [WatchIdle EXCEPT !.pc = "polled", !.slate = s]
    <2>1. txlog' = txlog /\ watch' = w
      BY <1>5 DEF PollMempool
    <2>2. w.pc = "polled" /\ w.slate = s
      BY DEF WatchIdle
    <2> HIDE DEF w
    <2>3. WatchOk(txlog', nextLog', seen', watch')
      BY <2>1, <2>2 DEF WatchOk
    <2>4. QED
      BY <1>2, <1>3, <2>1, <2>3
  <1>6. CASE ReadWatchedEntries
    <2> DEFINE es == {i \in EntriesOf(watch.slate) : txlog[i].kernel_excess = final[watch.slate]}
               f  == [i \in LogIds |-> IF i \in es THEN txlog[i] ELSE NoEntry]
               w  == [watch EXCEPT !.pc = "save", !.todo = es, !.snap = f]
    <2>1. txlog' = txlog /\ watch' = IF es = {} THEN WatchIdle ELSE w
      BY <1>6 DEF ReadWatchedEntries
    <2>2. watch.slate \in Slates
      BY <1>0, <1>6 DEF ReadWatchedEntries, WatchOk
    <2>3. \A i \in es : i \in LogIds /\ txlog[i].slate = watch.slate
      BY DEF EntriesOf
    <2>4. \A i \in es : f[i] = txlog[i]
      <3> HIDE DEF es
      <3> QED BY <2>3
    <2> HIDE DEF es, f
    <2>5. w.pc = "save" /\ w.todo = es /\ w.snap = f
      BY <1>0 DEF WatchState
    <2> HIDE DEF w
    <2>6. ASSUME NEW i \in es PROVE SnapOk(txlog', nextLog', seen', f[i], i)
      <3>1. i \in LogIds /\ txlog[i].slate \in Slates /\ txlog[i].slate # NoSlate
        BY <2>2, <2>3, ConstantsAssumption
      <3>2. i < nextLog /\ (txlog[i].confirmed => txlog[i].slate \in seen)
        BY <3>1 DEF MarkInv, SlateKnown, ConfirmedWasMined
      <3>3. QED
        BY <1>1, <2>1, <2>4, <3>1, <3>2 DEF SnapOk
    <2>7. es # {} => WatchOk(txlog', nextLog', seen', w)
      BY <2>5, <2>6 DEF WatchOk
    <2>8. QED
      BY <1>2, <1>3, <1>4, <2>1, <2>7
  <1>7. CASE SaveWatchedEntry
    <2> DEFINE i == Least(watch.todo)
               t == watch.snap[i]
               e == [t EXCEPT !.type = MempoolType(@)]
               w == [watch EXCEPT !.todo = @ \ {i}]
               m == [WatchIdle EXCEPT !.pc = "mark", !.slate = watch.slate]
    <2>1. /\ txlog' = [txlog EXCEPT ![i] = e] /\ watch' = IF watch.todo = {i} THEN m ELSE w
          /\ watch.pc = "save"
      BY <1>7 DEF SaveWatchedEntry
    <2>2. /\ watch.todo # {} /\ watch.todo \subseteq LogIds
          /\ \A j \in watch.todo : SnapOk(txlog, nextLog, seen, watch.snap[j], j)
      BY <1>0, <2>1 DEF WatchOk, WatchState
    <2>3. i \in watch.todo /\ i \in LogIds
      BY <2>2, LeastIsIn
    <2>4. t \in TxLogEntry
      BY <1>0, <2>3 DEF WatchState
    <2>5. SnapOk(txlog, nextLog, seen, t, i)
      BY <2>2, <2>3
    <2> HIDE DEF t
    <2>6. e.slate = t.slate /\ e.confirmed = t.confirmed
      BY <2>4 DEF TxLogEntry
    <2>7. w.pc = watch.pc /\ w.slate = watch.slate /\ w.snap = watch.snap /\ w.todo = watch.todo \ {i}
      BY <1>0 DEF WatchState
    <2>8. m.pc = "mark"
      BY DEF WatchIdle
    <2> HIDE DEF e, w, m, i
    <2>9. \A j \in LogIds : txlog'[j] = IF j = i THEN e ELSE txlog[j]
      BY <2>1 DEF TypeOK
    <2>10. \A j \in LogIds : /\ txlog'[j].slate = txlog[j].slate
                             /\ txlog'[j].confirmed => txlog[j].confirmed \/ txlog[j].slate \in seen
      BY <2>5, <2>6, <2>9 DEF SnapOk
    <2>11. WatchOk(txlog', nextLog', seen', m)
      BY <2>8 DEF WatchOk
    <2>12. watch.todo # {i} => WatchOk(txlog', nextLog', seen', w)
      <3>1. \A j \in w.todo : SnapOk(txlog', nextLog', seen', w.snap[j], j)
        BY <1>1, <2>2, <2>7, <2>10 DEF SnapOk
      <3>2. watch.todo # {i} => w.todo # {}
        BY <2>2, <2>3, <2>7
      <3>3. w.pc = "save"
        BY <2>1, <2>7
      <3>4. QED
        BY <3>1, <3>2, <3>3 DEF WatchOk
    <2>13. QED
      BY <1>2, <1>3, <2>1, <2>10, <2>11, <2>12
  <1>8. CASE UpdateMempoolStatus
    <2> DEFINE es == EntriesOf(watch.slate)
    <2>1. txlog' = (IF es = {} THEN txlog ELSE [txlog EXCEPT ![Least(es)].type = MempoolType(@)])
      BY <1>8 DEF UpdateMempoolStatus
    <2>2. watch' = WatchIdle
      BY <1>8 DEF UpdateMempoolStatus
    <2>3. \A j \in LogIds : txlog'[j].slate = txlog[j].slate /\ txlog'[j].confirmed = txlog[j].confirmed
      <3> HIDE DEF es
      <3> QED BY <1>0, <2>1 DEF TypeOK, TxLogEntry
    <2>4. QED
      BY <1>2, <1>3, <1>4, <2>2, <2>3
  <1>9. QED
    BY <1>5, <1>6, <1>7, <1>8 DEF WatchStep

\* In a wallet that was not restored from its seed, an entry of a slate is marked
\* confirmed only if the node had mined a transaction of that very slate: no stale
\* row, reused key, scan or mempool watch confirms a payment that did not happen.
THEOREM ConfirmedMined == ASSUME Restored = FALSE PROVE Spec => []ConfirmedWasMined
  <1>1. Init => KeyInv
    BY KeyInit
  <1>2. Init => ChainInv
    BY ChainInit
  <1>3. Init => MarkInv
    <2> SUFFICES ASSUME Init PROVE MarkInv
      OBVIOUS
    <2>1. \A i \in LogIds : txlog[i].slate = NoSlate /\ NoSlate \notin Slates
      BY ConstantsAssumption DEF Init, NoEntry
    <2>2. \A r \in Rows : out[r].status # "Unconfirmed"
      BY DEF Init, NoRow
    <2>3. \A p \in Updaters : \A r \in Rows : upd[p].rows[r].status # "Unconfirmed"
      BY DEF Init, UpdateIdle, NoRow
    <2>4. \A p \in Updaters : \A i \in LogIds : upd[p].txs[i].slate = NoSlate
      BY DEF Init, UpdateIdle, NoEntry
    <2>5. SlateKnown /\ ConfirmedWasMined
      BY <2>1 DEF SlateKnown, ConfirmedWasMined
    <2>6. TableOwned /\ RowsOwned
      BY <2>2, <2>3 DEF TableOwned, RowsOwned, Owned
    <2>7. TxsRead
      BY <2>1, <2>4 DEF TxsRead, ReadOk
    <2>8. WatchRead
      BY DEF Init, WatchIdle, WatchRead, WatchOk
    <2>9. QED
      BY <2>5, <2>6, <2>7, <2>8 DEF MarkInv
  <1>4. TypeOK /\ KeyInv /\ ChainInv /\ MarkInv /\ [Next]_vars => KeyInv' /\ ChainInv' /\ MarkInv'
    <2> SUFFICES ASSUME TypeOK, KeyInv, ChainInv, MarkInv, [Next]_vars
                 PROVE  KeyInv' /\ ChainInv' /\ MarkInv'
      OBVIOUS
    <2>1. TypeOK' /\ KeyInv'
      BY NextType, KeyStep
    <2>2. ChainInv' /\ seen \subseteq seen' /\ \A t \in Slates : offers[t] \subseteq offers'[t]
      BY ChainStep
    <2>3. CASE UNCHANGED vars
      <3>1. UNCHANGED <<out, txlog, nextLog, upd, watch, offers, seen>>
        BY <2>3 DEF vars, dbVars, slateVars, nodeVars
      <3>2. SlateKnown' /\ ConfirmedWasMined'
        BY <3>1 DEF MarkInv, SlateKnown, ConfirmedWasMined
      <3>3. TableOwned' /\ RowsOwned'
        BY <3>1 DEF MarkInv, TableOwned, RowsOwned
      <3>4. TxsRead' /\ WatchRead'
        BY <3>1 DEF MarkInv, TxsRead, WatchRead
      <3>5. QED
        BY <2>1, <2>2, <3>2, <3>3, <3>4 DEF MarkInv
    <2>4. CASE Next
      BY <2>1, <2>2, <2>4, ApiMarks, UpdateMarks, WatchMarks DEF Next
    <2>5. QED
      BY <2>1, <2>2, <2>3, <2>4
  <1>5. MarkInv => ConfirmedWasMined
    BY DEF MarkInv
  <1>6. QED
    BY <1>1, <1>2, <1>3, <1>4, <1>5, LedgerTypeOK, PTL DEF Spec

-----------------------------------------------------------------------------
(* A block reward is credited once, in a wallet that mines and receives.     *)
(* An entry of a reward is told apart by the row that names it, so what has  *)
(* to be shown is that the key of a coinbase output has one row, that the    *)
(* row is credited when it becomes unspent and never expected again, and     *)
(* that a scan writes back what is in the table still.                       *)

Mines       == \A s \in Slates : Role[s] \in {"receive", "invoice"}
OneUpdater  == \A p, q \in Updaters : p = q

\* Transactions of such a wallet have no inputs, and an output has another position than
\* the first only after a fork undid the transaction it is from.
NoInputs    == \A s \in Slates : \A tx \in offers[s] : tx.ins = {}
FirstMmr    == \A k \in Keys : mmr[k] # 1 => \E s \in Slates : Offered(offers, s, k)

\* With coinbase keys C and unspent outputs U: the row of a reward is expected and has no
\* entry, or its output is on chain.
RewardRow(C, U, r, o) ==
  r[1] \in C /\ o.status # "None" =>
    /\ o.cb /\ r[2] \in {0, 1}
    /\ \/ o.status = "Unconfirmed" /\ o.entry = NoId
       \/ o.status = "Unspent" /\ r[1] \in U

CbRows      == \A r \in Rows : out[r].cb => r[1] \in cbKeys
RewardRows  == \A r \in Rows : RewardRow(cbKeys, utxo, r, out[r])
OneReward   == \A r, q \in Rows :
                 /\ r[1] = q[1] /\ r[1] \in cbKeys
                 /\ out[r].status # "None" /\ out[q].status # "None"
                 => r = q
Credited    == \A i \in LogIds :
                 txlog[i].type = "ConfirmedCoinbase" =>
                   \E r \in Rows : r[1] \in cbKeys /\ out[r].status = "Unspent" /\ out[r].entry = i
Rewards     == CbRows /\ RewardRows /\ OneReward /\ Credited

\* What an update carries, with the table O: of a reward's key it saw the output on chain,
\* its rows to rename are as they were read, those to delete are not credited, and one it
\* will restore has no row.
SeenFirst(C, U, u) == \A q \in u.chain \cup u.miss : q[1] \in C => q[2] = 1 /\ q[1] \in U
ToRename(C, O, u)  == \A r \in u.idx :
                        /\ \E q \in u.chain : q[1] = r[1]
                        /\ r[1] \in C => u.rows[r] = O[r] /\ O[r].status # "None" /\ r[2] = 0
NoReward(C, u)     == \A r \in u.fix \cup u.locked : r[1] \notin C
ToDelete(C, O, u)  == \A r \in u.unconf :
                        r[1] \in C => /\ O[r].status # "Unspent"
                                      /\ \A x \in u.idx : x[1] = r[1] => x = r
ToRestore(C, O, u) == \A q \in u.miss :
                        q[1] \in C =>
                          \A r \in Rows : r[1] = q[1] => O[r].status = "None" /\ r \notin u.unconf
ReadRewards(C, u)  == \A r \in Rows : u.rows[r].cb => r[1] \in C
ReadEntries(u)     == \A i \in LogIds : u.txs[i].type # "ConfirmedCoinbase"
AtRest(u)          == u.pc # "repair" => u.idx \cup u.fix \cup u.miss \cup u.locked \cup u.unconf = {}
CarryOk(C, U, O, u) ==
  /\ SeenFirst(C, U, u) /\ ToRename(C, O, u) /\ NoReward(C, u) /\ ToDelete(C, O, u)
  /\ ToRestore(C, O, u) /\ ReadRewards(C, u) /\ ReadEntries(u) /\ AtRest(u)

Carried     == \A p \in Updaters : CarryOk(cbKeys, utxo, out, upd[p])
RewardInv   == NoInputs /\ FirstMmr /\ Rewards /\ Carried

\* A step that leaves the rows of the rewards alone, or drops one that is not credited.
LEMMA RewardsKept ==
  ASSUME TypeOK, Rewards, cbKeys' = cbKeys, utxo \cap cbKeys \subseteq utxo',
         \A r \in Rows : r[1] \in cbKeys =>
            out'[r] = out[r] \/ (out'[r].status = "None" /\ out[r].status # "Unspent"),
         \A r \in Rows : out'[r].cb => out[r].cb \/ r[1] \in cbKeys,
         \A i \in LogIds : txlog'[i].type = "ConfirmedCoinbase" => txlog[i].type = "ConfirmedCoinbase"
  PROVE  Rewards'
  <1>1. CbRows'
    BY DEF Rewards, CbRows
  <1>2. RewardRows'
    BY DEF Rewards, RewardRows, RewardRow
  <1>3. OneReward'
    BY DEF Rewards, OneReward
  <1>4. Credited'
    <2>1. SUFFICES ASSUME NEW i \in LogIds, txlog'[i].type = "ConfirmedCoinbase"
                   PROVE  \E r \in Rows : r[1] \in cbKeys /\ out'[r].status = "Unspent" /\ out'[r].entry = i
      BY DEF Credited
    <2>2. PICK r \in Rows : r[1] \in cbKeys /\ out[r].status = "Unspent" /\ out[r].entry = i
      BY <2>1 DEF Rewards, Credited
    <2>3. QED
      BY <2>2
  <1>5. QED
    BY <1>1, <1>2, <1>3, <1>4 DEF Rewards

\* What an update carries stays right while its coinbase outputs stay on chain and only the
\* rows of rewards that are not there are written, or those of the next key.
LEMMA CarriedKept ==
  ASSUME TypeOK, KeyInv, Carried, upd' = upd, utxo \cap cbKeys \subseteq utxo',
         cbKeys \subseteq cbKeys', cbKeys' \subseteq cbKeys \cup {nextChild},
         \A r \in Rows : r[1] \in cbKeys => \/ out'[r] = out[r]
                                            \/ r[1] \notin utxo /\ out'[r].status # "Unspent",
         \A r \in Rows : r[1] = nextChild => out'[r].status # "Unspent"
  PROVE  Carried'
  <1> SUFFICES ASSUME NEW p \in Updaters PROVE CarryOk(cbKeys', utxo', out', upd[p])
    BY DEF Carried
  <1> DEFINE u == upd[p]
  <1>1. /\ u.chain \subseteq Rows /\ u.idx \subseteq Rows /\ u.fix \subseteq Rows
        /\ u.miss \subseteq Rows /\ u.locked \subseteq Rows /\ u.unconf \subseteq Rows
    BY DEF TypeOK, UpdateState
  <1>2. CarryOk(cbKeys, utxo, out, u)
    BY DEF Carried
  <1>3. \A r \in u.chain \cup u.fix \cup u.miss \cup u.locked : r[1] # nextChild
    <2>1. nextChild \in Int
      BY DEF TypeOK
    <2>2. \A r \in u.chain \cup u.fix \cup u.miss \cup u.locked : r[1] < nextChild
      BY DEF KeyInv, ScanKeys, UpdBelow
    <2>3. QED
      BY <2>1, <2>2
  <1> HIDE DEF u
  <1>4. SeenFirst(cbKeys', utxo', u)
    BY <1>2, <1>3 DEF CarryOk, SeenFirst
  <1>5. \A r \in u.idx : r[1] # nextChild /\ (r[1] \in cbKeys => r[1] \in utxo)
    BY <1>2, <1>3 DEF CarryOk, SeenFirst, ToRename
  <1>6. ToRename(cbKeys', out', u)
    BY <1>1, <1>2, <1>5 DEF CarryOk, ToRename
  <1>7. NoReward(cbKeys', u)
    BY <1>2, <1>3 DEF CarryOk, NoReward
  <1>8. ToDelete(cbKeys', out', u)
    <2> SUFFICES ASSUME NEW r \in u.unconf, r[1] \in cbKeys'
                 PROVE  out'[r].status # "Unspent" /\ \A x \in u.idx : x[1] = r[1] => x = r
      BY DEF ToDelete
    <2>1. CASE r[1] \in cbKeys
      BY <1>1, <1>2, <2>1 DEF CarryOk, ToDelete
    <2>2. CASE r[1] = nextChild
      BY <1>1, <1>5, <2>2
    <2>3. QED
      BY <2>1, <2>2
  <1>9. ToRestore(cbKeys', out', u)
    <2> SUFFICES ASSUME NEW q \in u.miss, q[1] \in cbKeys', NEW r \in Rows, r[1] = q[1]
                 PROVE  out'[r].status = "None" /\ r \notin u.unconf
      BY DEF ToRestore
    <2>1. q[1] \in cbKeys /\ q[1] \in utxo
      BY <1>2, <1>3 DEF CarryOk, SeenFirst
    <2>2. QED
      BY <1>2, <2>1 DEF CarryOk, ToRestore
  <1>10. ReadRewards(cbKeys', u)
    BY <1>2 DEF CarryOk, ReadRewards
  <1>11. QED
    BY <1>2, <1>4, <1>6, <1>7, <1>8, <1>9, <1>10 DEF CarryOk, u

\* The transactions of the slates stay as they are, without inputs.
LEMMA OffersKept ==
  ASSUME NoInputs, FirstMmr, offers' = offers, mmr' = mmr
  PROVE  NoInputs' /\ FirstMmr'
  BY DEF NoInputs, FirstMmr

\* API calls and node steps: a reward's row is written by build_coinbase only, and its
\* output stays on chain.
LEMMA ApiRewards ==
  ASSUME TypeOK, TypeOK', KeyInv, ChainInv, RewardInv, Mines,
         \/ \E s \in Slates, pref \in Mmr, change \in BOOLEAN :
              InitSendTx(s, pref, change) \/ ProcessInvoiceTx(s, pref, change)
         \/ \E s \in Slates : \/ TxLockOutputs(s) \/ LockPanics(s)
                              \/ FinalizeTx(s) \/ FinalizeInvoiceTx(s)
                              \/ ReceiveTx(s) \/ IssueInvoiceTx(s)
                              \/ RemoteFinalize(s) \/ PostTx(s) \/ MineTx(s) \/ Fork(s)
         \/ \E k \in Keys : BuildCoinbase(k) \/ MineCoinbase(k)
         \/ MineEmpty
  PROVE  RewardInv'
  <1>0. /\ NoInputs /\ FirstMmr /\ Rewards /\ Carried
        /\ nextChild \in Int /\ nextChild \notin cbKeys /\ Keys \subseteq Int
        /\ \A r \in Rows : r[1] = nextChild => out[r].status = "None"
    <2>1. nextChild \in Int /\ Keys \subseteq Int
      BY DEF TypeOK, Keys
    <2>2. ~ (nextChild < nextChild)
      BY <2>1
    <2>3. QED
      BY <2>1, <2>2 DEF RewardInv, KeyInv, NodeKeys, TableKeys
  <1>1. \A s \in Slates : Role[s] \notin {"send", "pay"}
    BY DEF Mines
  <1>2. CASE UNCHANGED <<out, utxo, cbKeys, upd, txlog, offers, mmr>>
    <2>1. Rewards'
      BY <1>0, <1>2, RewardsKept
    <2>2. Carried'
      BY <1>0, <1>2 DEF Carried
    <2>3. QED
      BY <1>0, <1>2, <2>1, <2>2, OffersKept DEF RewardInv
  <1>3. ASSUME NEW s \in Slates, FinalizeInvoiceTx(s) PROVE RewardInv'
    <2>1. UNCHANGED <<out, utxo, cbKeys, upd, offers, mmr>>
      BY <1>3 DEF FinalizeInvoiceTx, Finalize, nodeVars
    <2>2. PICK i, tx : txlog' = [txlog EXCEPT ![i].kernel_excess = tx]
      BY <1>3 DEF FinalizeInvoiceTx, Finalize, UpdateStoredTx
    <2>3. \A j \in LogIds : txlog'[j].type = txlog[j].type
      BY <2>2 DEF TypeOK, TxLogEntry
    <2>4. Rewards'
      BY <1>0, <2>1, <2>3, RewardsKept
    <2>5. Carried'
      BY <1>0, <2>1 DEF Carried
    <2>6. QED
      BY <1>0, <2>1, <2>4, <2>5, OffersKept DEF RewardInv
  <1>4. ASSUME NEW s \in Slates, ReceiveTx(s) \/ IssueInvoiceTx(s) PROVE RewardInv'
    <2> DEFINE tx == [ins |-> {}, outs |-> {nextChild}]
    <2>1. PICK excess : BuildRecipientOutput(s, excess)
      BY <1>4 DEF ReceiveTx, IssueInvoiceTx
    <2>2. /\ out' = [out EXCEPT ![<<nextChild, 0>>] =
                       [NoRow EXCEPT !.status = "Unconfirmed", !.entry = nextLog]]
          /\ txlog' = [txlog EXCEPT ![nextLog] =
                         [type |-> "TxReceived", slate |-> s, confirmed |-> FALSE, ttl |-> ttl[s],
                          kernel_excess |-> excess, both |-> FALSE]]
          /\ offers' = [offers EXCEPT ![s] = @ \cup {tx}]
          /\ UNCHANGED <<utxo, cbKeys, upd, mmr>>
      BY <2>1 DEF BuildRecipientOutput, nodeVars
    <2>3. \A r \in Rows : r = <<nextChild, 0>> \/ out'[r] = out[r]
      BY <2>2 DEF TypeOK
    <2>4. \A r \in Rows : r = <<nextChild, 0>> => out'[r].status = "Unconfirmed" /\ ~ out'[r].cb
      BY <2>2 DEF TypeOK, NoRow
    <2>5. \A i \in LogIds : txlog'[i].type \in {"TxReceived", txlog[i].type}
      BY <2>2 DEF TypeOK
    <2>6. Rewards'
      BY <1>0, <2>2, <2>3, <2>4, <2>5, RewardsKept
    <2>7. \A r \in Rows : r[1] = nextChild => out'[r].status # "Unspent"
      BY <1>0, <2>3, <2>4
    <2>8. Carried'
      BY <1>0, <2>2, <2>3, <2>7, CarriedKept
    <2>9. \A t \in Slates : \A x \in offers'[t] : x \in offers[t] \/ x = tx
      BY <2>2 DEF TypeOK
    <2>10. \A t \in Slates : offers[t] \subseteq offers'[t]
      BY <2>2 DEF TypeOK
    <2>11. NoInputs' /\ FirstMmr'
      BY <1>0, <2>2, <2>9, <2>10 DEF NoInputs, FirstMmr, Offered
    <2>12. QED
      BY <2>6, <2>8, <2>11 DEF RewardInv
  <1>5. ASSUME NEW k \in Keys, BuildCoinbase(k) PROVE RewardInv'
    <2> DEFINE o == [status |-> "Unconfirmed", entry |-> NoId, cb |-> TRUE, height |-> tip + 1]
    <2>1. /\ out' = [out EXCEPT ![<<k, 0>>] = o] /\ cbKeys' = cbKeys \cup {k}
          /\ UNCHANGED <<txlog, utxo, upd, offers, mmr>>
          /\ \/ k = nextChild
             \/ k \in cbKeys \ utxo /\ out[<<k, 0>>].status # "None"
      <3>1. \/ k = nextChild
            \/ k \in cbKeys \ utxo /\ out[<<k, 0>>].status # "None"
        BY <1>5, Zenon DEF BuildCoinbase
      <3>2. out' = [out EXCEPT ![<<k, 0>>] = o] /\ cbKeys' = cbKeys \cup {k}
        BY <1>5, Zenon DEF BuildCoinbase
      <3>3. UNCHANGED <<txlog, utxo, upd, offers, mmr>>
        BY <1>5 DEF BuildCoinbase, slateVars
      <3>4. QED
        BY <3>1, <3>2, <3>3, Zenon
    <2>2. \A r \in Rows : r = <<k, 0>> \/ out'[r] = out[r]
      BY <2>1 DEF TypeOK
    <2>3. \A r \in Rows : r = <<k, 0>> => out'[r] = o
      BY <2>1 DEF TypeOK
    <2>4. \A r \in Rows : r[1] = k /\ out[r].status # "None" => r = <<k, 0>>
      <3>1. <<k, 0>> \in Rows
        BY ConstantsAssumption DEF Rows, Mmr, MaxMmr
      <3>2. QED
        BY <1>0, <2>1, <3>1 DEF Rewards, OneReward
    <2>5. \A r \in Rows : r[1] = k /\ out'[r].status # "None" => r = <<k, 0>>
      BY <2>2, <2>4
    <2>6. Rewards'
      <3>1. CbRows'
        BY <1>0, <2>1, <2>2 DEF Rewards, CbRows
      <3>2. ASSUME NEW r \in Rows PROVE RewardRow(cbKeys', utxo', r, out'[r])
        <4>1. CASE r[1] = k /\ out'[r].status # "None"
          <5>1. r = <<k, 0>> /\ out'[r] = o
            BY <2>3, <2>5, <4>1
          <5>2. QED
            BY <5>1 DEF RewardRow
        <4>2. CASE r[1] # k
          BY <1>0, <2>1, <2>2, <4>2 DEF Rewards, RewardRows, RewardRow
        <4>3. QED
          BY <4>1, <4>2 DEF RewardRow
      <3>3. OneReward'
        <4> SUFFICES ASSUME NEW r \in Rows, NEW q \in Rows, r[1] = q[1], r[1] \in cbKeys',
                            out'[r].status # "None", out'[q].status # "None"
                     PROVE  r = q
          BY DEF OneReward
        <4>1. CASE r[1] = k
          BY <2>5, <4>1
        <4>2. CASE r[1] # k
          BY <1>0, <2>1, <2>2, <4>2 DEF Rewards, OneReward
        <4>3. QED
          BY <4>1, <4>2
      <3>4. Credited'
        <4>1. SUFFICES ASSUME NEW i \in LogIds, txlog[i].type = "ConfirmedCoinbase"
                       PROVE  \E r \in Rows : /\ r[1] \in cbKeys' /\ out'[r].status = "Unspent"
                                              /\ out'[r].entry = i
          BY <2>1 DEF Credited
        <4>2. PICK r \in Rows : r[1] \in cbKeys /\ out[r].status = "Unspent" /\ out[r].entry = i
          BY <1>0, <4>1 DEF Rewards, Credited
        <4>3. r[1] \in utxo
          BY <1>0, <4>2 DEF Rewards, RewardRows, RewardRow
        <4>4. out'[r] = out[r]
          BY <1>0, <2>1, <2>2, <4>2, <4>3
        <4>5. QED
          BY <2>1, <4>2, <4>4
      <3>5. QED
        BY <3>1, <3>2, <3>3, <3>4 DEF Rewards, RewardRows
    <2>7. \A r \in Rows : r[1] = nextChild => out'[r].status # "Unspent"
      <3>1. o.status = "Unconfirmed"
        OBVIOUS
      <3> HIDE DEF o
      <3>2. QED
        BY <1>0, <2>2, <2>3, <3>1
    <2>8. \A r \in Rows : r[1] \in cbKeys => \/ out'[r] = out[r]
                                             \/ r[1] \notin utxo /\ out'[r].status # "Unspent"
      <3>1. o.status = "Unconfirmed"
        OBVIOUS
      <3> HIDE DEF o
      <3>2. QED
        BY <1>0, <2>1, <2>2, <2>3, <3>1
    <2>9. cbKeys \subseteq cbKeys' /\ cbKeys' \subseteq cbKeys \cup {nextChild}
      BY <2>1
    <2>10. Carried'
      BY <1>0, <2>1, <2>7, <2>8, <2>9, CarriedKept
    <2>11. QED
      BY <1>0, <2>1, <2>6, <2>10, OffersKept DEF RewardInv
  <1>6. ASSUME UNCHANGED <<out, cbKeys, upd, txlog, offers>>, utxo \cap cbKeys \subseteq utxo', FirstMmr'
        PROVE  RewardInv'
    <2>1. Rewards'
      BY <1>0, <1>6, RewardsKept
    <2>2. Carried'
      BY <1>0, <1>6, CarriedKept
    <2>3. NoInputs'
      BY <1>0, <1>6 DEF NoInputs
    <2>4. QED
      BY <1>6, <2>1, <2>2, <2>3 DEF RewardInv
  <1>7. ASSUME NEW k \in Keys, MineCoinbase(k) PROVE RewardInv'
    <2>1. UNCHANGED <<out, cbKeys, upd, txlog, offers, mmr>> /\ utxo' = utxo \cup {k}
      BY <1>7 DEF MineCoinbase, ChainUnchanged, dbVars, slateVars
    <2>2. QED
      BY <1>0, <1>6, <2>1, OffersKept
  <1>8. \A s \in Slates : final[s].ins = {} /\ \A k \in final[s].outs : Offered(offers, s, k) /\ k \notin cbKeys
    <2> SUFFICES ASSUME NEW s \in Slates
                 PROVE  final[s].ins = {} /\ \A k \in final[s].outs : Offered(offers, s, k) /\ k \notin cbKeys
      OBVIOUS
    <2>1. CASE final[s] = NoTx
      BY <2>1 DEF NoTx
    <2>2. CASE final[s] \in offers[s]
      <3>1. \A k \in final[s].outs : Offered(offers, s, k) /\ k \in Keys
        BY <2>2 DEF Offered, TypeOK, Transaction
      <3>2. QED
        BY <1>0, <2>2, <3>1 DEF ChainInv, NotCoin, NoInputs
    <2>3. QED
      BY <2>1, <2>2 DEF ChainInv, FinalOffered
  <1>9. ASSUME NEW s \in Slates, MineTx(s) PROVE RewardInv'
    <2>1. PICK j \in 1 .. (forks + 1) : mmr' = [k \in Keys |-> IF k \in final[s].outs THEN j ELSE mmr[k]]
      BY <1>9 DEF MineTx
    <2>2. /\ UNCHANGED <<out, cbKeys, upd, txlog, offers>>
          /\ utxo' = (utxo \ final[s].ins) \cup final[s].outs
      BY <1>9 DEF MineTx, ChainUnchanged, dbVars, slateVars
    <2>3. FirstMmr'
      BY <1>0, <1>8, <2>1, <2>2 DEF FirstMmr
    <2>4. QED
      BY <1>6, <1>8, <2>2, <2>3
  <1>10. ASSUME NEW s \in Slates, Fork(s) PROVE RewardInv'
    <2>1. /\ UNCHANGED <<out, cbKeys, upd, txlog, offers, mmr>>
          /\ utxo' = (utxo \ final[s].outs) \cup final[s].ins
      BY <1>10 DEF Fork, ChainUnchanged, dbVars, slateVars
    <2>2. QED
      BY <1>0, <1>6, <1>8, <2>1, OffersKept
  <1>11. ASSUME NEW s \in Slates, RemoteFinalize(s) \/ PostTx(s) \/ MineEmpty PROVE RewardInv'
    <2>1. UNCHANGED <<out, cbKeys, upd, txlog, offers, mmr>> /\ utxo' = utxo
      BY <1>11 DEF RemoteFinalize, PostTx, MineEmpty, ChainUnchanged, dbVars, slateVars, nodeVars
    <2>2. QED
      BY <1>2, <2>1
  <1>12. CASE MineEmpty
    <2>1. UNCHANGED <<out, utxo, cbKeys, upd, txlog, offers, mmr>>
      BY <1>12 DEF MineEmpty, ChainUnchanged, dbVars, slateVars
    <2>2. QED
      BY <1>2, <2>1
  <1>13. QED
    BY <1>1, <1>3, <1>4, <1>5, <1>7, <1>9, <1>10, <1>11, <1>12
       DEF InitSendTx, ProcessInvoiceTx, TxLockOutputs, LockPanics, FinalizeTx

\* What apply_api_outputs makes of a row.
LEMMA ApplyRow ==
  ASSUME TypeOK, Rewards, NEW m \in SUBSET Rows, NEW ids, NEW r \in Rows,
         NEW a, a = ApplyOut(m, ids)[r]
  PROVE  /\ a.cb = out[r].cb
         /\ a.status = "Unconfirmed" => out[r].status = "Unconfirmed"
         /\ r \in NewCoinbases(m) => a.status = "Unspent" /\ a.entry = ids[r]
         /\ lch <= tip /\ r[1] \in cbKeys /\ r \notin NewCoinbases(m) => a = out[r]
  <1> DEFINE o == out[r]
             e == [o EXCEPT !.entry = ids[r]]
  <1>1. o \in OutputData
    BY DEF TypeOK
  <1>2. e.cb = o.cb /\ e.status = o.status /\ e.entry = ids[r]
    BY <1>1 DEF OutputData
  <1>3. /\ MarkSpent(o).cb = o.cb /\ MarkUnspent(o).cb = o.cb
        /\ MarkSpent(o).status = "Unconfirmed" => o.status = "Unconfirmed"
        /\ MarkUnspent(o).status = "Unconfirmed" => o.status = "Unconfirmed"
    BY <1>1 DEF MarkSpent, MarkUnspent, OutputData
  <1>4. o.status = "Unconfirmed" =>
          MarkUnspent(e).status = "Unspent" /\ MarkUnspent(e).entry = ids[r] /\ MarkUnspent(e).cb = o.cb
    <2>1. [e EXCEPT !.status = "Unspent"].status = "Unspent"
          /\ [e EXCEPT !.status = "Unspent"].entry = e.entry
          /\ [e EXCEPT !.status = "Unspent"].cb = e.cb
      BY <1>1 DEF OutputData
    <2> HIDE DEF e, o
    <2>2. QED
      BY <1>2, <2>1 DEF MarkUnspent
  <1>5. r \in NewCoinbases(m) => r \in m /\ r[1] \in utxo /\ o.status = "Unconfirmed"
    BY DEF NewCoinbases
  <1>6. a = IF r \notin m THEN o
            ELSE IF r[1] \notin utxo THEN MarkSpent(o)
            ELSE IF r \in NewCoinbases(m) THEN MarkUnspent(e)
            ELSE MarkUnspent(o)
    BY DEF ApplyOut
  <1>7. ASSUME lch <= tip, r[1] \in cbKeys, r \notin NewCoinbases(m) PROVE a = o
    <2>1. RewardRow(cbKeys, utxo, r, o)
      BY DEF Rewards, RewardRows
    <2>2. CASE o.status = "None"
      BY <1>6, <1>7, <2>2 DEF MarkSpent, MarkUnspent
    <2>3. CASE o.status = "Unconfirmed" /\ o.cb
      <3>1. r \notin m \/ r[1] \notin utxo
        BY <1>7, <2>3 DEF NewCoinbases
      <3>2. QED
        BY <1>6, <2>3, <3>1 DEF MarkSpent
    <2>4. CASE o.status = "Unspent" /\ r[1] \in utxo
      BY <1>6, <1>7, <2>4 DEF MarkUnspent
    <2>5. QED
      BY <1>7, <2>1, <2>2, <2>3, <2>4 DEF RewardRow
  <1> HIDE DEF e
  <1>8. QED
    BY <1>3, <1>4, <1>5, <1>6, <1>7

\* What refresh_outputs makes of the row of a reward: it is credited, or it stays, or it
\* was never on chain and is dropped.
CreditedBy(m, ids, r, o) ==
  /\ r \in NewCoinbases(m) /\ r[1] \in utxo /\ out[r].cb /\ out[r].status = "Unconfirmed"
  /\ o.status = "Unspent" /\ o.entry = ids[r] /\ o.cb

LEMMA RefreshRow ==
  ASSUME TypeOK, Rewards, NEW m \in SUBSET Rows, NEW ids, NEW r \in Rows,
         NEW o, o = RefreshedOut(m, ids)[r]
  PROVE  /\ o.cb => out[r].cb
         /\ r[1] \in cbKeys => \/ o = out[r]
                               \/ CreditedBy(m, ids, r, o)
                               \/ o = NoRow /\ out[r].status \in {"None", "Unconfirmed"}
         /\ r \in NewCoinbases(m) => CreditedBy(m, ids, r, o)
  <1> DEFINE b == IF tip < lch THEN out ELSE ApplyOut(m, ids)
  <1>1. tip \in Nat /\ lch \in Nat
    BY DEF TypeOK
  <1>2. \A q \in Rows : /\ b[q].cb = out[q].cb
                        /\ b[q].status = "Unconfirmed" => out[q].status = "Unconfirmed"
                        /\ q \in NewCoinbases(m) => b[q].status = "Unspent" /\ b[q].entry = ids[q]
                        /\ q[1] \in cbKeys /\ q \notin NewCoinbases(m) => b[q] = out[q]
    <2>1. CASE tip < lch
      <3>1. NewCoinbases(m) = {}
        BY <1>1, <2>1 DEF NewCoinbases
      <3>2. QED
        BY <2>1, <3>1
    <2>2. CASE ~ (tip < lch)
      <3>1. lch <= tip /\ b = ApplyOut(m, ids)
        BY <1>1, <2>2
      <3> HIDE DEF b
      <3>2. QED
        BY <3>1, ApplyRow
    <2>3. QED
      BY <2>1, <2>2
  <1>3. \/ o = b[r]
        \/ o = NoRow /\ \E q \in Rows : q[1] = r[1] /\ b[q].status = "Unconfirmed" /\ b[q].cb
    BY DEF RefreshedOut, CleanOldUnconfirmed
  <1> HIDE DEF b
  <1>4. \A q \in NewCoinbases(m) : /\ q[1] \in utxo /\ out[q].cb /\ out[q].status = "Unconfirmed"
                                   /\ q[1] \in cbKeys
    BY DEF NewCoinbases, Rewards, CbRows
  <1>5. CASE o = b[r]
    <2>1. r \in NewCoinbases(m) => CreditedBy(m, ids, r, o)
      BY <1>2, <1>4, <1>5 DEF CreditedBy
    <2>2. QED
      BY <1>2, <1>5, <2>1
  <1>6. ASSUME o = NoRow, NEW q \in Rows, q[1] = r[1], b[q].status = "Unconfirmed", b[q].cb
        PROVE  /\ ~ o.cb /\ r \notin NewCoinbases(m)
               /\ out[r].status \in {"None", "Unconfirmed"}
    <2>1. q[1] \in cbKeys /\ out[q].status = "Unconfirmed" /\ q \notin NewCoinbases(m)
      BY <1>2, <1>6 DEF Rewards, CbRows
    <2>2. out[r].status # "None" => r = q
      BY <1>6, <2>1 DEF Rewards, OneReward
    <2>3. ~ o.cb
      BY <1>6 DEF NoRow
    <2>4. QED
      BY <1>4, <2>1, <2>2, <2>3
  <1>7. QED
    BY <1>3, <1>5, <1>6

\* refresh_outputs credits a reward at most once.
LEMMA RefreshRewards ==
  ASSUME TypeOK, Rewards, NEW m \in SUBSET Rows, NEW ids \in CoinbaseIds(m),
         RefreshOutputs(m, ids), UNCHANGED <<utxo, cbKeys>>
  PROVE  Rewards'
  <1>1. \A r \in Rows :
          /\ out'[r].cb => out[r].cb
          /\ r[1] \in cbKeys => \/ out'[r] = out[r]
                                \/ CreditedBy(m, ids, r, out'[r])
                                \/ out'[r] = NoRow /\ out[r].status \in {"None", "Unconfirmed"}
          /\ r \in NewCoinbases(m) => CreditedBy(m, ids, r, out'[r])
    BY RefreshRow DEF RefreshOutputs
  <1>2. CbRows'
    BY <1>1 DEF Rewards, CbRows
  <1>3. ASSUME NEW r \in Rows PROVE RewardRow(cbKeys, utxo, r, out'[r])
    <2>1. RewardRow(cbKeys, utxo, r, out[r]) /\ NoRow.status = "None"
      BY DEF Rewards, RewardRows, NoRow
    <2>2. QED
      BY <1>1, <2>1 DEF RewardRow, CreditedBy
  <1>4. \A r \in Rows : r[1] \in cbKeys /\ out'[r].status # "None" => out[r].status # "None"
    <2>1. NoRow.status = "None"
      BY DEF NoRow
    <2>2. QED
      BY <1>1, <2>1 DEF CreditedBy
  <1>5. OneReward'
    BY <1>4 DEF Rewards, OneReward
  <1>6. Credited'
    <2> SUFFICES ASSUME NEW i \in LogIds, txlog'[i].type = "ConfirmedCoinbase"
                 PROVE  \E r \in Rows : r[1] \in cbKeys /\ out'[r].status = "Unspent" /\ out'[r].entry = i
      BY DEF Credited
    <2>1. \/ \E r \in NewCoinbases(m) : ids[r] = i
          \/ txlog[i].type = "ConfirmedCoinbase"
      <3>1. txlog[i] \in TxLogEntry
        BY DEF TypeOK
      <3>2. CASE tip < lch
        BY <3>2 DEF RefreshOutputs, RefreshedLog
      <3>3. CASE ~ (tip < lch) /\ ~ \E r \in NewCoinbases(m) : ids[r] = i
        <4>1. \/ txlog'[i] = txlog[i]
              \/ txlog'[i] = [txlog[i] EXCEPT !.confirmed = TRUE, !.type = ConfirmedType(txlog[i].type)]
          BY <3>3 DEF RefreshOutputs, RefreshedLog, ApplyLog
        <4>2. [txlog[i] EXCEPT !.confirmed = TRUE, !.type = ConfirmedType(txlog[i].type)].type
                = ConfirmedType(txlog[i].type)
          BY <3>1 DEF TxLogEntry
        <4>3. ConfirmedType(txlog[i].type) = "ConfirmedCoinbase" => txlog[i].type = "ConfirmedCoinbase"
          BY DEF ConfirmedType
        <4>4. QED
          BY <4>1, <4>2, <4>3
      <3>4. QED
        BY <3>2, <3>3
    <2>2. CASE \E r \in NewCoinbases(m) : ids[r] = i
      <3>1. PICK r \in NewCoinbases(m) : ids[r] = i
        BY <2>2
      <3>2. r \in Rows /\ out[r].cb
        BY DEF NewCoinbases
      <3>3. QED
        BY <1>1, <3>1, <3>2 DEF CreditedBy, Rewards, CbRows
    <2>3. CASE txlog[i].type = "ConfirmedCoinbase"
      <3>1. PICK r \in Rows : r[1] \in cbKeys /\ out[r].status = "Unspent" /\ out[r].entry = i
        BY <2>3 DEF Rewards, Credited
      <3>2. out'[r] = out[r]
        BY <1>1, <3>1 DEF CreditedBy
      <3>3. QED
        BY <3>1, <3>2
    <2>4. QED
      BY <2>1, <2>2, <2>3
  <1>7. QED
    BY <1>2, <1>3, <1>5, <1>6 DEF Rewards, RewardRows

\* An update that carries no row and no entry, but perhaps what it saw on chain.
LEMMA NothingCarried ==
  ASSUME NEW C, NEW U, NEW O, NEW v,
         v.idx = {}, v.fix = {}, v.miss = {}, v.locked = {}, v.unconf = {},
         SeenFirst(C, U, v), ReadRewards(C, v), ReadEntries(v)
  PROVE  CarryOk(C, U, O, v)
  BY DEF CarryOk, ToRename, NoReward, ToDelete, ToRestore, AtRest

\* Rows that are no reward's are not looked at by what an update carries, and it may carry
\* less.
LEMMA CarriesLess ==
  ASSUME NEW C, NEW U, NEW O, NEW P, NEW u, NEW v, CarryOk(C, U, O, u), u.unconf \subseteq Rows,
         u.idx \subseteq Rows,
         v.pc = u.pc, v.rows = u.rows, v.txs = u.txs, v.chain = u.chain,
         v.idx \subseteq u.idx, v.fix \subseteq u.fix, v.miss \subseteq u.miss,
         v.locked \subseteq u.locked, v.unconf \subseteq u.unconf,
         \A r \in Rows : r[1] \in C => P[r] = O[r]
  PROVE  CarryOk(C, U, P, v)
  <1>1. SeenFirst(C, U, v)
    BY DEF CarryOk, SeenFirst
  <1>2. ToRename(C, P, v)
    BY DEF CarryOk, ToRename
  <1>3. NoReward(C, v)
    BY DEF CarryOk, NoReward
  <1>4. ToDelete(C, P, v)
    BY DEF CarryOk, ToDelete
  <1>5. ToRestore(C, P, v)
    BY DEF CarryOk, ToRestore
  <1>6. ReadRewards(C, v) /\ ReadEntries(v)
    BY DEF CarryOk, ReadRewards, ReadEntries
  <1>7. AtRest(v)
    BY DEF CarryOk, AtRest
  <1>8. QED
    BY <1>1, <1>2, <1>3, <1>4, <1>5, <1>6, <1>7 DEF CarryOk

\* What the scan reads: of a reward's key one row, the one it renames; the output is missing
\* only if there is none.
LEMMA ScanReadRewards ==
  ASSUME TypeOK, Rewards, NEW p \in Updaters, CarryOk(cbKeys, utxo, out, upd[p]), NEW pref \in Mmr,
         ScanReadOutputs(p, pref)
  PROVE  \E v : upd' = [upd EXCEPT ![p] = v] /\ CarryOk(cbKeys, utxo, out, v)
  <1> DEFINE
    u       == upd[p]
    on(r)   == \E q \in u.chain : q[1] = r[1]
    rows    == {r \in Rows : out[r].status # "None"}
    matched == {r \in OneRowPerKey(rows, pref) : on(r)}
    c       == matched \ u.chain
    d       == {r \in matched : out[r].status = "Spent"}
    f       == {r \in matched : out[r].status = "Locked" /\ u.job = "scan"}
    g       == {r \in Rows : out[r].status = "Unconfirmed" /\ u.job = "scan"}
    keep    == c \cup d \cup f \cup g
    a       == {q \in u.chain : \E r \in c : r[1] = q[1]}
    b       == [r \in Rows |-> IF r \in keep THEN out[r] ELSE NoRow]
    e       == {q \in u.chain : \A r \in matched : r[1] # q[1]}
    v       == [u EXCEPT !.pc = "repair", !.chain = a, !.rows = b, !.idx = c, !.fix = d,
                         !.miss = e, !.locked = f, !.unconf = g]
  <1>0. u \in UpdateState /\ u.chain \subseteq Rows
    BY DEF TypeOK, UpdateState
  <1>1. upd' = [upd EXCEPT ![p].pc = "repair", ![p].chain = a, ![p].rows = b,
                           ![p].idx = c, ![p].fix = d, ![p].miss = e,
                           ![p].locked = f, ![p].unconf = g]
    BY DEF ScanReadOutputs
  <1>2. matched \subseteq Rows /\ \A r \in matched : on(r) /\ out[r].status # "None"
    BY DEF OneRowPerKey
  <1>3. \A r \in Rows : r[1] \in cbKeys /\ out[r].status # "None" =>
          out[r].status \in {"Unconfirmed", "Unspent"} /\ r[2] \in {0, 1}
    BY DEF Rewards, RewardRows, RewardRow
  <1>4. \A q \in u.chain : q[1] \in cbKeys => q[2] = 1 /\ q[1] \in utxo
    BY DEF CarryOk, SeenFirst
  <1>5. \A r, q \in Rows : r[1] = q[1] /\ r[2] = q[2] => r = q
    BY DEF Rows
  <1>6. \A r \in c : r[1] \in cbKeys => r[2] = 0
    BY <1>0, <1>2, <1>3, <1>4, <1>5
  <1>7. \A r \in c : \E q \in a : q[1] = r[1]
    BY <1>2
  <1>8. \A r \in Rows : r \in keep => b[r] = out[r]
    <2> HIDE DEF keep
    <2> QED OBVIOUS
  <1>9. \A r \in Rows : b[r].cb => r[1] \in cbKeys
    <2>1. \A r \in Rows : b[r] \in {NoRow, out[r]}
      <3> HIDE DEF keep
      <3> QED OBVIOUS
    <2>2. ~ NoRow.cb
      BY DEF NoRow
    <2>3. QED
      <3> HIDE DEF b
      <3> QED BY <2>1, <2>2 DEF Rewards, CbRows
  <1>10. ASSUME NEW q \in e, q[1] \in cbKeys, NEW r \in Rows, r[1] = q[1]
         PROVE  out[r].status = "None"
    <2>1. SUFFICES ASSUME out[r].status # "None" PROVE FALSE
      OBVIOUS
    <2>2. \A x \in rows : x[1] = r[1] => x = r
      BY <1>10, <2>1 DEF Rewards, OneReward
    <2>3. (r[2] - pref) % (MaxMmr + 1) <= (r[2] - pref) % (MaxMmr + 1)
      <3>1. r[2] \in Int /\ pref \in Int /\ MaxMmr + 1 \in Int /\ MaxMmr + 1 > 0
        BY ConstantsAssumption DEF Rows, Mmr, MaxMmr
      <3>2. QED
        BY <3>1
    <2>4. r \in OneRowPerKey(rows, pref)
      <3> HIDE DEF rows
      <3>1. r \in rows
        BY <2>1 DEF rows
      <3>2. QED
        BY <2>2, <2>3, <3>1 DEF OneRowPerKey
    <2>5. r \in matched
      BY <1>10, <2>4
    <2>6. QED
      BY <1>10, <2>5
  <1>11. \A r \in g : out[r].status = "Unconfirmed" /\ r \in Rows
    OBVIOUS
  <1>12. c \subseteq matched /\ e \subseteq u.chain /\ a \subseteq u.chain /\ c \subseteq keep /\ d \subseteq matched
         /\ f \subseteq matched
    OBVIOUS
  <1>13. \A r \in d \cup f : out[r].status \in {"Spent", "Locked"}
    OBVIOUS
  <1> HIDE DEF a, b, c, d, e, f, g, keep, matched
  <1>14. upd' = [upd EXCEPT ![p] = v]
    BY <1>1 DEF TypeOK
  <1>15. /\ v.pc = "repair" /\ v.chain = a /\ v.rows = b /\ v.txs = u.txs /\ v.idx = c /\ v.fix = d
         /\ v.miss = e /\ v.locked = f /\ v.unconf = g
    BY <1>0 DEF UpdateState
  <1> HIDE DEF v
  <1>16. SeenFirst(cbKeys, utxo, v)
    BY <1>4, <1>12, <1>15 DEF SeenFirst
  <1>17. ToRename(cbKeys, out, v)
    BY <1>2, <1>6, <1>7, <1>8, <1>12, <1>15 DEF ToRename
  <1>18. NoReward(cbKeys, v)
    BY <1>2, <1>3, <1>12, <1>13, <1>15 DEF NoReward
  <1>19. ToDelete(cbKeys, out, v)
    BY <1>2, <1>11, <1>12, <1>15 DEF ToDelete, Rewards, OneReward
  <1>20. ToRestore(cbKeys, out, v)
    BY <1>10, <1>11, <1>15 DEF ToRestore
  <1>21. ReadRewards(cbKeys, v) /\ ReadEntries(v) /\ AtRest(v)
    BY <1>9, <1>15 DEF CarryOk, ReadRewards, ReadEntries, AtRest
  <1>22. QED
    BY <1>14, <1>16, <1>17, <1>18, <1>19, <1>20, <1>21 DEF CarryOk

\* A scan saves the row of a reward under the position its output has: it is the only row
\* of its key then as it was before.
LEMMA IndexRewards ==
  ASSUME TypeOK, Rewards, NEW p \in Updaters, CarryOk(cbKeys, utxo, out, upd[p]),
         NEW r \in Rows, ScanIndexOutput(p, r), UNCHANGED <<utxo, cbKeys>>
  PROVE  /\ Rewards'
         /\ \E v : upd' = [upd EXCEPT ![p] = v] /\ CarryOk(cbKeys, utxo, out', v)
  <1> DEFINE u == upd[p]
             v == [u EXCEPT !.idx = @ \ {r}]
  <1>0. /\ u \in UpdateState /\ u.chain \subseteq Rows /\ u.unconf \subseteq Rows
        /\ u.idx \subseteq Rows /\ r \in u.idx /\ txlog' = txlog
    BY DEF TypeOK, UpdateState, ScanIndexOutput
  <1>1. PICK q \in u.chain : /\ q[1] = r[1]
                             /\ out' = [out EXCEPT ![r] = IF r[2] = 0 THEN NoRow ELSE @, ![q] = u.rows[r]]
    BY DEF ScanIndexOutput
  <1>2. upd' = [upd EXCEPT ![p] = v]
    BY DEF ScanIndexOutput, TypeOK
  <1>3. /\ v.pc = u.pc /\ v.chain = u.chain /\ v.rows = u.rows /\ v.txs = u.txs /\ v.idx = u.idx \ {r}
        /\ v.fix = u.fix /\ v.miss = u.miss /\ v.locked = u.locked /\ v.unconf = u.unconf
    BY <1>0 DEF UpdateState
  <1> HIDE DEF v
  <1>4. /\ \A x \in Rows : x # r /\ x # q => out'[x] = out[x]
        /\ out'[q] = u.rows[r]
        /\ r # q => out'[r] = IF r[2] = 0 THEN NoRow ELSE out[r]
    BY <1>0, <1>1 DEF TypeOK
  <1>5. CASE r[1] \notin cbKeys
    <2>1. \A x \in Rows : x[1] \in cbKeys => out'[x] = out[x]
      BY <1>1, <1>4, <1>5
    <2>2. \A x \in Rows : out'[x].cb => out[x].cb
      <3>1. ~ NoRow.cb /\ ~ u.rows[r].cb
        BY <1>5 DEF NoRow, CarryOk, ReadRewards
      <3>2. QED
        BY <1>4, <3>1
    <2>3. Rewards'
      BY <1>0, <2>1, <2>2, RewardsKept
    <2>4. CarryOk(cbKeys, utxo, out', v)
      <3> HIDE DEF u
      <3> QED BY <1>0, <1>3, <2>1, CarriesLess DEF u
    <2>5. QED
      BY <1>2, <2>3, <2>4
  <1>6. CASE r[1] \in cbKeys
    <2>1. u.rows[r] = out[r] /\ out[r].status # "None" /\ r[2] = 0 /\ q[2] = 1
      BY <1>0, <1>1, <1>6 DEF CarryOk, ToRename, SeenFirst
    <2>2. r # q /\ q \in Rows /\ q[1] = r[1]
      BY <1>0, <1>1, <2>1
    <2>3. /\ \A x \in Rows : x # r /\ x # q => out'[x] = out[x]
          /\ out'[q] = out[r] /\ out'[r] = NoRow
      BY <1>4, <2>1, <2>2
    <2>4. NoRow.status = "None" /\ ~ NoRow.cb
      BY DEF NoRow
    <2>5. \A x \in Rows : x[1] = r[1] /\ out[x].status # "None" => x = r
      BY <1>6, <2>1 DEF Rewards, OneReward
    <2>6. Rewards'
      <3>1. CbRows'
        BY <1>6, <2>2, <2>3, <2>4 DEF Rewards, CbRows
      <3>2. ASSUME NEW x \in Rows PROVE RewardRow(cbKeys, utxo, x, out'[x])
        <4>1. RewardRow(cbKeys, utxo, x, out[x]) /\ RewardRow(cbKeys, utxo, r, out[r])
          BY DEF Rewards, RewardRows
        <4>2. QED
          BY <2>1, <2>2, <2>3, <2>4, <4>1 DEF RewardRow
      <3>3. OneReward'
        <4> SUFFICES ASSUME NEW x \in Rows, NEW y \in Rows, x[1] = y[1], x[1] \in cbKeys,
                            out'[x].status # "None", out'[y].status # "None"
                     PROVE  x = y
          BY DEF OneReward
        <4>1. CASE x[1] = r[1]
          BY <2>3, <2>4, <2>5, <4>1
        <4>2. CASE x[1] # r[1]
          BY <2>2, <2>3, <4>2 DEF Rewards, OneReward
        <4>3. QED
          BY <4>1, <4>2
      <3>4. Credited'
        <4> SUFFICES ASSUME NEW i \in LogIds, txlog[i].type = "ConfirmedCoinbase"
                     PROVE  \E x \in Rows : /\ x[1] \in cbKeys /\ out'[x].status = "Unspent"
                                            /\ out'[x].entry = i
          BY <1>0 DEF Credited
        <4>1. PICK x \in Rows : x[1] \in cbKeys /\ out[x].status = "Unspent" /\ out[x].entry = i
          BY DEF Rewards, Credited
        <4>2. CASE x[1] = r[1]
          BY <2>2, <2>3, <2>5, <4>1, <4>2
        <4>3. CASE x[1] # r[1]
          BY <2>2, <2>3, <4>1, <4>3
        <4>4. QED
          BY <4>2, <4>3
      <3>5. QED
        BY <3>1, <3>2, <3>3, <3>4 DEF Rewards, RewardRows
    <2>7. CarryOk(cbKeys, utxo, out', v)
      <3> HIDE DEF u
      <3>1. CarryOk(cbKeys, utxo, out, u)
        BY DEF u
      <3>2. SeenFirst(cbKeys, utxo, v) /\ NoReward(cbKeys, v) /\ ReadRewards(cbKeys, v) /\ ReadEntries(v)
            /\ AtRest(v)
        BY <1>3, <3>1 DEF CarryOk, SeenFirst, NoReward, ReadRewards, ReadEntries, AtRest
      <3>3. ToRename(cbKeys, out', v)
        <4>1. \A x \in v.idx : /\ x # r /\ x \in u.idx /\ x \in Rows
                               /\ x[1] \in cbKeys => x[2] = 0 /\ out[x].status # "None"
          BY <1>0, <1>3, <3>1 DEF CarryOk, ToRename
        <4>2. \A x \in v.idx : x[1] \in cbKeys => out'[x] = out[x]
          BY <2>1, <2>3, <4>1
        <4>3. QED
          BY <1>3, <3>1, <4>1, <4>2 DEF CarryOk, ToRename
      <3>4. ToDelete(cbKeys, out', v)
        <4>1. \A x \in u.unconf : x[1] = r[1] => x = r
          BY <1>0, <1>6, <3>1 DEF CarryOk, ToDelete
        <4>2. \A x \in u.unconf : x[1] \in cbKeys => out'[x].status # "Unspent"
          BY <1>0, <2>2, <2>3, <2>4, <3>1, <4>1 DEF CarryOk, ToDelete
        <4>3. QED
          BY <1>3, <3>1, <4>2 DEF CarryOk, ToDelete
      <3>5. ToRestore(cbKeys, out', v)
        <4>1. \A x \in u.miss : x[1] # r[1]
          BY <1>6, <2>1, <3>1 DEF CarryOk, ToRestore
        <4>2. QED
          BY <1>3, <2>2, <2>3, <3>1, <4>1 DEF CarryOk, ToRestore
      <3>6. QED
        BY <3>2, <3>3, <3>4, <3>5 DEF CarryOk
    <2>8. QED
      BY <1>2, <2>6, <2>7
  <1>7. QED
    BY <1>5, <1>6

\* A scan restores the output of a reward that has no row, and credits it with that.
LEMMA RestoreRewards ==
  ASSUME TypeOK, Rewards, NEW p \in Updaters, CarryOk(cbKeys, utxo, out, upd[p]),
         NEW q \in Rows, RestoreMissingOutput(p, q), UNCHANGED <<utxo, cbKeys>>
  PROVE  /\ Rewards'
         /\ \E v : upd' = [upd EXCEPT ![p] = v] /\ CarryOk(cbKeys, utxo, out', v)
  <1> DEFINE u == upd[p]
             v == [u EXCEPT !.miss = @ \ {q}, !.found = IF q[1] >= @ THEN q[1] + 1 ELSE @]
             o == [status |-> "Unspent", entry |-> nextLog, cb |-> q[1] \in cbKeys, height |-> 0]
             t == IF q[1] \in cbKeys THEN "ConfirmedCoinbase" ELSE "TxReceived"
             e == [NoEntry EXCEPT !.type = t, !.confirmed = TRUE]
  <1>0. /\ u \in UpdateState /\ u.miss \subseteq Rows /\ u.unconf \subseteq Rows
        /\ u.idx = {} /\ u.fix = {} /\ q \in u.miss
    BY DEF TypeOK, UpdateState, RestoreMissingOutput
  <1>1. nextLog \in LogIds
    <2>1. nextLog < MaxIds
      BY DEF RestoreMissingOutput
    <2>2. QED
      BY <2>1, ConstantsAssumption DEF TypeOK, LogIds, MaxIds
  <1>2. upd' = [upd EXCEPT ![p] = v]
    BY DEF RestoreMissingOutput, TypeOK
  <1>3. /\ v.pc = u.pc /\ v.chain = u.chain /\ v.rows = u.rows /\ v.txs = u.txs /\ v.idx = u.idx
        /\ v.fix = u.fix /\ v.miss = u.miss \ {q} /\ v.locked = u.locked /\ v.unconf = u.unconf
    BY <1>0 DEF UpdateState
  <1>4. txlog' = [txlog EXCEPT ![nextLog] = e] /\ out' = [out EXCEPT ![q] = o]
    BY DEF RestoreMissingOutput
  <1>5. e.type = t
    BY DEF NoEntry
  <1>6. o.status = "Unspent" /\ o.entry = nextLog /\ (o.cb => q[1] \in cbKeys) /\ (q[1] \in cbKeys => o.cb)
    OBVIOUS
  <1> HIDE DEF v, o, e
  <1>7. out'[q] = o /\ \A x \in Rows : x # q => out'[x] = out[x]
    BY <1>4 DEF TypeOK
  <1>8. txlog'[nextLog].type = t /\ \A i \in LogIds : i # nextLog => txlog'[i] = txlog[i]
    BY <1>1, <1>4, <1>5 DEF TypeOK
  <1>9. CASE q[1] \notin cbKeys
    <2>1. \A x \in Rows : x[1] \in cbKeys => out'[x] = out[x]
      BY <1>7, <1>9
    <2>2. \A x \in Rows : out'[x].cb => out[x].cb
      BY <1>6, <1>7, <1>9
    <2>3. \A i \in LogIds : txlog'[i].type = "ConfirmedCoinbase" => txlog[i].type = "ConfirmedCoinbase"
      BY <1>8, <1>9
    <2>4. Rewards'
      BY <2>1, <2>2, <2>3, RewardsKept
    <2>5. CarryOk(cbKeys, utxo, out', v)
      <3> HIDE DEF u
      <3> QED BY <1>0, <1>3, <2>1, CarriesLess DEF u
    <2>6. QED
      BY <1>2, <2>4, <2>5
  <1>10. CASE q[1] \in cbKeys
    <2>1. /\ q[2] = 1 /\ q[1] \in utxo
          /\ \A x \in Rows : x[1] = q[1] => out[x].status = "None" /\ x \notin u.unconf
      BY <1>0, <1>10 DEF CarryOk, SeenFirst, ToRestore
    <2>2. Rewards'
      <3>1. CbRows'
        BY <1>7, <1>10 DEF Rewards, CbRows
      <3>2. RewardRows'
        BY <1>6, <1>7, <2>1 DEF Rewards, RewardRows, RewardRow
      <3>3. OneReward'
        BY <1>7, <2>1 DEF Rewards, OneReward
      <3>4. Credited'
        <4> SUFFICES ASSUME NEW i \in LogIds, txlog'[i].type = "ConfirmedCoinbase"
                     PROVE  \E x \in Rows : /\ x[1] \in cbKeys /\ out'[x].status = "Unspent"
                                            /\ out'[x].entry = i
          BY DEF Credited
        <4>1. CASE i = nextLog
          BY <1>6, <1>7, <1>10, <4>1
        <4>2. CASE i # nextLog
          <5>1. PICK x \in Rows : x[1] \in cbKeys /\ out[x].status = "Unspent" /\ out[x].entry = i
            BY <1>8, <4>2 DEF Rewards, Credited
          <5>2. x # q
            BY <2>1, <5>1
          <5>3. QED
            BY <1>7, <5>1, <5>2
        <4>3. QED
          BY <4>1, <4>2
      <3>5. QED
        BY <3>1, <3>2, <3>3, <3>4 DEF Rewards
    <2>3. CarryOk(cbKeys, utxo, out', v)
      <3> HIDE DEF u
      <3>1. CarryOk(cbKeys, utxo, out, u)
        BY DEF u
      <3>2. SeenFirst(cbKeys, utxo, v) /\ NoReward(cbKeys, v) /\ ReadRewards(cbKeys, v) /\ ReadEntries(v)
            /\ AtRest(v)
        BY <1>3, <3>1 DEF CarryOk, SeenFirst, NoReward, ReadRewards, ReadEntries, AtRest
      <3>3. ToRename(cbKeys, out', v)
        BY <1>0, <1>3 DEF ToRename
      <3>4. ToDelete(cbKeys, out', v)
        <4>1. \A x \in u.unconf : x \in Rows /\ out'[x] = out[x]
          BY <1>0, <1>7, <2>1
        <4>2. QED
          BY <1>0, <1>3, <3>1, <4>1 DEF CarryOk, ToDelete
      <3>5. ToRestore(cbKeys, out', v)
        <4>1. \A x \in v.miss : x[1] \in cbKeys => x[1] # q[1]
          <5>1. \A x \in v.miss : x \in Rows /\ x # q /\ (x[1] \in cbKeys => x[2] = 1)
            BY <1>0, <1>3, <3>1 DEF CarryOk, SeenFirst
          <5>2. \A x, y \in Rows : x[1] = y[1] /\ x[2] = y[2] => x = y
            BY DEF Rows
          <5>3. QED
            BY <2>1, <5>1, <5>2
        <4>2. QED
          BY <1>3, <1>7, <3>1, <4>1 DEF CarryOk, ToRestore
      <3>6. QED
        BY <3>2, <3>3, <3>4, <3>5 DEF CarryOk
    <2>4. QED
      BY <1>2, <2>2, <2>3
  <1>11. QED
    BY <1>9, <1>10

\* The steps of the update, when no other runs beside it.
LEMMA UpdateRewards ==
  ASSUME TypeOK, TypeOK', KeyInv, ChainInv, RewardInv, OneUpdater, NEW p \in Updaters,
         \/ UpdateStep(p) \/ UpdateFails(p)
         \/ \E i \in LogIds, pref \in Mmr : StartCancel(p, i, pref)
         \/ \E pref \in Mmr : StartScan(p, pref)
  PROVE  RewardInv'
  <1> DEFINE u == upd[p]
             Ok(O, v) == CarryOk(cbKeys, utxo, O, v)
             NoSets(v) == v.idx = {} /\ v.fix = {} /\ v.miss = {} /\ v.locked = {} /\ v.unconf = {}
  <1>0. /\ u \in UpdateState /\ NoInputs /\ FirstMmr /\ Rewards /\ Ok(out, u)
        /\ u.idx \subseteq Rows /\ u.unconf \subseteq Rows /\ u.found <= nextChild
        /\ u.found \in Int /\ nextChild \in Int
    BY DEF TypeOK, UpdateState, RewardInv, Carried, KeyInv, ScanKeys, UpdBelow
  <1>1. UNCHANGED <<offers, mmr, utxo, cbKeys>>
    BY UpdateKeys DEF slateVars, nodeVars
  <1>2. ASSUME Rewards', NEW v, upd' = [upd EXCEPT ![p] = v], Ok(out', v) PROVE RewardInv'
    <2>1. \A q \in Updaters : q = p /\ upd'[q] = v
      BY <1>2 DEF OneUpdater, TypeOK
    <2>2. Carried'
      BY <1>1, <1>2, <2>1 DEF Carried
    <2>3. QED
      BY <1>0, <1>1, <1>2, <2>2, OffersKept DEF RewardInv
  <1>3. ASSUME \A r \in Rows : r[1] \in cbKeys =>
                 out'[r] = out[r] \/ (out'[r].status = "None" /\ out[r].status # "Unspent"),
               \A r \in Rows : out'[r].cb => out[r].cb \/ r[1] \in cbKeys,
               \A i \in LogIds : txlog'[i].type = "ConfirmedCoinbase" => txlog[i].type = "ConfirmedCoinbase"
        PROVE  Rewards'
    BY <1>0, <1>1, <1>3, RewardsKept
  <1>4. ASSUME out' = out, txlog' = txlog PROVE Rewards'
    BY <1>3, <1>4
  <1>5. ASSUME u.pc # "repair" PROVE NoSets(u)
    BY <1>0, <1>5 DEF CarryOk, AtRest
  <1>6. ReadRewards(cbKeys, u) /\ ReadEntries(u) /\ SeenFirst(cbKeys, utxo, u)
    BY <1>0 DEF CarryOk
  <1>7. ASSUME NEW O, NEW v, NoSets(v), v.rows = u.rows, v.txs = u.txs, v.chain = u.chain
        PROVE  Ok(O, v)
    <2>1. SeenFirst(cbKeys, utxo, v) /\ ReadRewards(cbKeys, v) /\ ReadEntries(v)
      BY <1>6, <1>7 DEF SeenFirst, ReadRewards, ReadEntries
    <2>2. QED
      BY <1>7, <2>1, NothingCarried
  <1>8. \A O : Ok(O, UpdateIdle) /\ Ok(O, AfterScan(p))
    <2>1. ASSUME NEW v, NEW O, NoSets(v), v.chain = {},
                 \A r \in Rows : v.rows[r] = NoRow, \A i \in LogIds : v.txs[i] = NoEntry
          PROVE  Ok(O, v)
      <3>1. SeenFirst(cbKeys, utxo, v) /\ ReadRewards(cbKeys, v) /\ ReadEntries(v)
        BY <2>1 DEF SeenFirst, ReadRewards, ReadEntries, NoRow, NoEntry
      <3>2. QED
        BY <2>1, <3>1, NothingCarried
    <2>2. /\ NoSets(UpdateIdle) /\ UpdateIdle.chain = {}
          /\ \A r \in Rows : UpdateIdle.rows[r] = NoRow
          /\ \A i \in LogIds : UpdateIdle.txs[i] = NoEntry
      BY DEF UpdateIdle
    <2>3. /\ NoSets(AfterScan(p)) /\ AfterScan(p).chain = {}
          /\ \A r \in Rows : AfterScan(p).rows[r] = NoRow
          /\ \A i \in LogIds : AfterScan(p).txs[i] = NoEntry
      BY DEF AfterScan, UpdateIdle
    <2> HIDE DEF Ok, NoSets
    <2>4. QED
      BY <2>1, <2>2, <2>3
  <1> HIDE DEF Ok
  <1>9. ASSUME NEW job, NEW goal, NEW pref \in Mmr, UpdateOutputs(p, job, goal, pref)
        PROVE  RewardInv'
    <2> DEFINE pc == IF job = "scan" THEN "chain" ELSE "outstanding"
               v  == [u EXCEPT !.pc = pc, !.job = job, !.goal = goal]
    <2>1. PICK ids \in CoinbaseIds(MapWalletOutputs(pref)) : RefreshOutputs(MapWalletOutputs(pref), ids)
      BY <1>9 DEF UpdateOutputs
    <2>2. Rewards'
      BY <1>0, <1>1, <2>1, MapType, RefreshRewards
    <2>3. upd' = [upd EXCEPT ![p] = v] /\ u.pc # "repair"
      BY <1>9 DEF UpdateOutputs, TypeOK, At
    <2>4. /\ v.rows = u.rows /\ v.txs = u.txs /\ v.chain = u.chain /\ v.idx = u.idx /\ v.fix = u.fix
          /\ v.miss = u.miss /\ v.locked = u.locked /\ v.unconf = u.unconf
      BY <1>0 DEF UpdateState
    <2> HIDE DEF v, u
    <2>5. Ok(out', v)
      BY <1>5, <1>7, <2>3, <2>4
    <2>6. QED
      BY <1>2, <2>2, <2>3, <2>5
  <1>10. CASE RetrieveOutstanding(p)
    <2> DEFINE os == {i \in LogIds : Outstanding(txlog[i])}
               f  == [i \in LogIds |-> IF i \in os THEN txlog[i] ELSE NoEntry]
               v  == [u EXCEPT !.pc = "kernels", !.todo = os, !.txs = f]
    <2>1. upd' = [upd EXCEPT ![p] = v] /\ txlog' = txlog /\ out' = out /\ u.pc # "repair"
      BY <1>10 DEF RetrieveOutstanding, TypeOK, dbVars, At
    <2>2. \A i \in LogIds : f[i].type # "ConfirmedCoinbase"
      BY DEF NoEntry, Outstanding
    <2> HIDE DEF os, f
    <2>3. /\ v.rows = u.rows /\ v.txs = f /\ v.chain = u.chain /\ v.idx = u.idx /\ v.fix = u.fix
          /\ v.miss = u.miss /\ v.locked = u.locked /\ v.unconf = u.unconf
      BY <1>0 DEF UpdateState
    <2> HIDE DEF v, u
    <2>4. NoSets(v)
      BY <1>5, <2>1, <2>3
    <2>5. SeenFirst(cbKeys, utxo, v) /\ ReadRewards(cbKeys, v) /\ ReadEntries(v)
      BY <1>6, <2>2, <2>3, <2>4 DEF SeenFirst, ReadRewards, ReadEntries
    <2>6. Ok(out', v)
      BY <2>4, <2>5, NothingCarried DEF Ok
    <2>7. QED
      BY <1>2, <1>4, <2>1, <2>6
  <1>11. CASE UpdateTxViaKernel(p)
    <2> DEFINE i == Least(u.todo)
               t == u.txs[i]
               c == [t EXCEPT !.confirmed = TRUE]
               v == [u EXCEPT !.todo = @ \ {i}]
               w == [u EXCEPT !.todo = @ \ {i}, !.txs[i] = c]
    <2>1. i \in LogIds
      BY <1>0, <1>11, LeastIsIn DEF UpdateTxViaKernel, UpdateState
    <2>2. out' = out /\ u.pc # "repair"
      BY <1>11 DEF UpdateTxViaKernel, At
    <2>3. \/ upd' = [upd EXCEPT ![p] = v] /\ txlog' = txlog
          \/ upd' = [upd EXCEPT ![p] = w] /\ txlog' = [txlog EXCEPT ![i] = c]
      BY <1>11 DEF UpdateTxViaKernel, TypeOK
    <2>4. c.type = t.type /\ t.type # "ConfirmedCoinbase"
      BY <1>0, <1>6, <2>1 DEF UpdateState, TxLogEntry, ReadEntries
    <2>5. /\ v.rows = u.rows /\ v.txs = u.txs /\ v.chain = u.chain /\ v.idx = u.idx /\ v.fix = u.fix
          /\ v.miss = u.miss /\ v.locked = u.locked /\ v.unconf = u.unconf
      BY <1>0 DEF UpdateState
    <2>6. /\ w.rows = u.rows /\ w.txs = [u.txs EXCEPT ![i] = c] /\ w.chain = u.chain /\ w.idx = u.idx
          /\ w.fix = u.fix /\ w.miss = u.miss /\ w.locked = u.locked /\ w.unconf = u.unconf
      BY <1>0 DEF UpdateState
    <2>7. u.txs \in [LogIds -> TxLogEntry]
      BY <1>0 DEF UpdateState
    <2> HIDE DEF v, w, c, i, t, u
    <2>8. CASE upd' = [upd EXCEPT ![p] = v] /\ txlog' = txlog
      <3>1. Ok(out', v)
        BY <1>5, <1>7, <2>2, <2>5
      <3>2. QED
        BY <1>2, <1>4, <2>2, <2>8, <3>1
    <2>9. CASE upd' = [upd EXCEPT ![p] = w] /\ txlog' = [txlog EXCEPT ![i] = c]
      <3>1. \A j \in LogIds : w.txs[j].type # "ConfirmedCoinbase"
        BY <1>6, <2>1, <2>4, <2>6, <2>7 DEF ReadEntries
      <3>2. NoSets(w)
        BY <1>5, <2>2, <2>6
      <3>3. SeenFirst(cbKeys, utxo, w) /\ ReadRewards(cbKeys, w) /\ ReadEntries(w)
        BY <1>6, <2>6, <3>1, <3>2 DEF SeenFirst, ReadRewards, ReadEntries
      <3>4. Ok(out', w)
        BY <3>2, <3>3, NothingCarried DEF Ok
      <3>5. \A j \in LogIds : txlog'[j].type = "ConfirmedCoinbase" => txlog[j].type = "ConfirmedCoinbase"
        BY <2>1, <2>4, <2>9 DEF TypeOK
      <3>6. Rewards'
        BY <1>0, <1>1, <2>2, <3>5, RewardsKept
      <3>7. QED
        BY <1>2, <2>9, <3>4, <3>6
    <2>10. QED
      BY <2>3, <2>8, <2>9
  <1>12. CASE KernelsDone(p)
    <2> DEFINE v == [u EXCEPT !.pc = "chain"]
    <2>1. upd' = [upd EXCEPT ![p] = v] /\ txlog' = txlog /\ out' = out /\ u.pc # "repair"
      BY <1>12 DEF KernelsDone, TypeOK, dbVars, At
    <2>2. /\ v.rows = u.rows /\ v.txs = u.txs /\ v.chain = u.chain /\ v.idx = u.idx /\ v.fix = u.fix
          /\ v.miss = u.miss /\ v.locked = u.locked /\ v.unconf = u.unconf
      BY <1>0 DEF UpdateState
    <2> HIDE DEF v, u
    <2>3. Ok(out', v)
      BY <1>5, <1>7, <2>1, <2>2
    <2>4. QED
      BY <1>2, <1>4, <2>1, <2>3
  <1>13. CASE CollectChainOutputs(p)
    <2> DEFINE a == {<<k, mmr[k]>> : k \in utxo}
               v == [u EXCEPT !.pc = "wallet", !.tip = tip, !.chain = a]
    <2>1. upd' = [upd EXCEPT ![p] = v] /\ txlog' = txlog /\ out' = out /\ u.pc # "repair"
      BY <1>13 DEF CollectChainOutputs, TypeOK, dbVars, At
    <2>2. \A q \in a : q[1] \in utxo /\ q[2] = mmr[q[1]] /\ q[1] \in Keys
      BY DEF TypeOK
    <2>3. \A k \in Keys : k \in cbKeys => mmr[k] = 1
      BY <1>0 DEF FirstMmr, ChainInv, NotCoin
    <2>4. \A q \in a : q[1] \in cbKeys => q[2] = 1 /\ q[1] \in utxo
      BY <2>2, <2>3
    <2> HIDE DEF a
    <2>5. /\ v.rows = u.rows /\ v.txs = u.txs /\ v.chain = a /\ v.idx = u.idx /\ v.fix = u.fix
          /\ v.miss = u.miss /\ v.locked = u.locked /\ v.unconf = u.unconf
      BY <1>0 DEF UpdateState
    <2> HIDE DEF v, u
    <2>6. NoSets(v)
      BY <1>5, <2>1, <2>5
    <2>7. SeenFirst(cbKeys, utxo, v) /\ ReadRewards(cbKeys, v) /\ ReadEntries(v)
      BY <1>6, <2>4, <2>5, <2>6 DEF SeenFirst, ReadRewards, ReadEntries
    <2>8. Ok(out', v)
      BY <2>6, <2>7, NothingCarried DEF Ok
    <2>9. QED
      BY <1>2, <1>4, <2>1, <2>8
  <1>14. ASSUME NEW pref \in Mmr, ScanReadOutputs(p, pref) PROVE RewardInv'
    <2>1. PICK v : upd' = [upd EXCEPT ![p] = v] /\ Ok(out, v)
      BY <1>0, <1>14, ScanReadRewards DEF Ok
    <2>2. txlog' = txlog /\ out' = out
      BY <1>14 DEF ScanReadOutputs, dbVars
    <2>3. QED
      BY <1>2, <1>4, <2>1, <2>2
  <1>15. ASSUME NEW r \in Rows, ScanIndexOutput(p, r) PROVE RewardInv'
    <2>1. Rewards' /\ \E v : upd' = [upd EXCEPT ![p] = v] /\ Ok(out', v)
      BY <1>0, <1>1, <1>15, IndexRewards DEF Ok
    <2>2. QED
      BY <1>2, <2>1
  <1>16. ASSUME NEW r \in Rows, RestoreMissingOutput(p, r) PROVE RewardInv'
    <2>1. Rewards' /\ \E v : upd' = [upd EXCEPT ![p] = v] /\ Ok(out', v)
      BY <1>0, <1>1, <1>16, RestoreRewards DEF Ok
    <2>2. QED
      BY <1>2, <2>1
  <1>17. ASSUME NEW e,
                txlog' = [i \in LogIds |-> IF i = e THEN [txlog[i] EXCEPT !.type = CancelledType(@)]
                                            ELSE txlog[i]]
         PROVE  \A i \in LogIds : txlog'[i].type = "ConfirmedCoinbase" => txlog[i].type = "ConfirmedCoinbase"
    <2>1. \A i \in LogIds : [txlog[i] EXCEPT !.type = CancelledType(@)].type = CancelledType(txlog[i].type)
      BY DEF TypeOK, TxLogEntry
    <2>2. \A t : CancelledType(t) = "ConfirmedCoinbase" => t = "ConfirmedCoinbase"
      BY DEF CancelledType
    <2>3. QED
      BY <1>17, <2>1, <2>2
  <1>18. ASSUME NEW r \in Rows, r[1] \notin cbKeys, UnspendRow(u.rows[r], r),
                NEW v, upd' = [upd EXCEPT ![p] = v],
                v.pc = u.pc, v.rows = u.rows, v.txs = u.txs, v.chain = u.chain,
                v.idx \subseteq u.idx, v.fix \subseteq u.fix, v.miss \subseteq u.miss,
                v.locked \subseteq u.locked, v.unconf \subseteq u.unconf
         PROVE  RewardInv'
    <2>1. out' = [out EXCEPT ![r] = [u.rows[r] EXCEPT !.status = "Unspent"]]
      BY <1>18 DEF UnspendRow
    <2>2. ~ [u.rows[r] EXCEPT !.status = "Unspent"].cb
      <3>1. ~ u.rows[r].cb /\ u.rows[r] \in OutputData
        BY <1>0, <1>6, <1>18 DEF ReadRewards, UpdateState
      <3>2. QED
        BY <3>1 DEF OutputData
    <2>3. \A x \in Rows : x[1] \in cbKeys => out'[x] = out[x]
      BY <1>18, <2>1 DEF TypeOK
    <2>4. \A x \in Rows : out'[x].cb => out[x].cb
      BY <2>1, <2>2 DEF TypeOK
    <2>5. \A i \in LogIds : txlog'[i].type = "ConfirmedCoinbase" => txlog[i].type = "ConfirmedCoinbase"
      BY <1>17, <1>18 DEF UnspendRow
    <2>6. Rewards'
      BY <1>3, <2>3, <2>4, <2>5
    <2>7. Ok(out', v)
      <3> HIDE DEF u
      <3> QED BY <1>0, <1>18, <2>3, CarriesLess DEF Ok
    <2>8. QED
      BY <1>2, <1>18, <2>6, <2>7
  <1>19. ASSUME NEW r \in Rows, ScanUnspendOutput(p, r) PROVE RewardInv'
    <2> DEFINE v == [u EXCEPT !.fix = @ \ {r}]
    <2>1. upd' = [upd EXCEPT ![p] = v] /\ UnspendRow(u.rows[r], r) /\ r \in u.fix
      BY <1>19 DEF ScanUnspendOutput, TypeOK
    <2>2. /\ v.pc = u.pc /\ v.rows = u.rows /\ v.txs = u.txs /\ v.chain = u.chain /\ v.idx = u.idx
          /\ v.fix = u.fix \ {r} /\ v.miss = u.miss /\ v.locked = u.locked /\ v.unconf = u.unconf
      BY <1>0 DEF UpdateState
    <2>3. r[1] \notin cbKeys
      BY <1>0, <2>1 DEF Ok, CarryOk, NoReward
    <2> HIDE DEF v, u
    <2>4. QED
      BY <1>18, <2>1, <2>2, <2>3
  <1>20. ASSUME NEW r \in Rows, ScanUnlockOutput(p, r) PROVE RewardInv'
    <2> DEFINE v == [u EXCEPT !.locked = @ \ {r}]
    <2>1. upd' = [upd EXCEPT ![p] = v] /\ UnspendRow(u.rows[r], r) /\ r \in u.locked
      BY <1>20 DEF ScanUnlockOutput, TypeOK
    <2>2. /\ v.pc = u.pc /\ v.rows = u.rows /\ v.txs = u.txs /\ v.chain = u.chain /\ v.idx = u.idx
          /\ v.fix = u.fix /\ v.miss = u.miss /\ v.locked = u.locked \ {r} /\ v.unconf = u.unconf
      BY <1>0 DEF UpdateState
    <2>3. r[1] \notin cbKeys
      BY <1>0, <2>1 DEF Ok, CarryOk, NoReward
    <2> HIDE DEF v, u
    <2>4. QED
      BY <1>18, <2>1, <2>2, <2>3
  <1>21. ASSUME NEW r \in Rows, ScanDeleteOutput(p, r) PROVE RewardInv'
    <2> DEFINE v == [u EXCEPT !.unconf = @ \ {r}]
    <2>1. /\ upd' = [upd EXCEPT ![p] = v] /\ out' = [out EXCEPT ![r] = NoRow] /\ r \in u.unconf
          /\ u.idx = {} /\ u.fix = {} /\ u.miss = {} /\ u.locked = {}
      BY <1>21 DEF ScanDeleteOutput, Repaired, TypeOK
    <2>2. /\ v.pc = u.pc /\ v.rows = u.rows /\ v.txs = u.txs /\ v.chain = u.chain /\ v.idx = u.idx
          /\ v.fix = u.fix /\ v.miss = u.miss /\ v.locked = u.locked /\ v.unconf = u.unconf \ {r}
      BY <1>0 DEF UpdateState
    <2>3. r[1] \in cbKeys => out[r].status # "Unspent"
      BY <1>0, <2>1 DEF Ok, CarryOk, ToDelete
    <2>4. NoRow.status = "None" /\ ~ NoRow.cb
      BY DEF NoRow
    <2>5. \A x \in Rows : out'[x] = IF x = r THEN NoRow ELSE out[x]
      BY <2>1 DEF TypeOK
    <2>6. \A i \in LogIds : txlog'[i].type = "ConfirmedCoinbase" => txlog[i].type = "ConfirmedCoinbase"
      BY <1>17, <1>21 DEF ScanDeleteOutput
    <2> HIDE DEF v, u
    <2>7. Rewards'
      BY <1>3, <2>3, <2>4, <2>5, <2>6
    <2>8. Ok(out', v)
      <3>1. SeenFirst(cbKeys, utxo, v) /\ ReadRewards(cbKeys, v) /\ ReadEntries(v) /\ AtRest(v)
        BY <1>0, <2>1, <2>2 DEF Ok, CarryOk, SeenFirst, ReadRewards, ReadEntries, AtRest
      <3>2. ToRename(cbKeys, out', v) /\ NoReward(cbKeys, v) /\ ToRestore(cbKeys, out', v)
        BY <2>1, <2>2 DEF ToRename, NoReward, ToRestore
      <3>3. ToDelete(cbKeys, out', v)
        BY <1>0, <2>1, <2>2, <2>4, <2>5 DEF Ok, CarryOk, ToDelete
      <3>4. QED
        BY <3>1, <3>2, <3>3 DEF Ok, CarryOk
    <2>9. QED
      BY <1>2, <2>1, <2>7, <2>8
  <1>22. CASE ScanReadChildIndex(p)
    <2>1. ~ (u.found > nextChild)
      BY <1>0
    <2>2. /\ upd' = [upd EXCEPT ![p] = IF u.found > nextChild THEN [@ EXCEPT !.pc = "index"]
                                       ELSE AfterScan(p)]
          /\ txlog' = txlog /\ out' = out
      BY <1>22 DEF ScanReadChildIndex, dbVars
    <2>3. upd' = [upd EXCEPT ![p] = AfterScan(p)]
      BY <2>1, <2>2, Zenon
    <2>4. QED
      BY <1>2, <1>4, <1>8, <2>2, <2>3
  <1>23. CASE ScanSaveChildIndex(p)
    <2>1. upd' = [upd EXCEPT ![p] = AfterScan(p)] /\ txlog' = txlog /\ out' = out
      BY <1>23 DEF ScanSaveChildIndex
    <2>2. QED
      BY <1>2, <1>4, <1>8, <2>1
  <1>24. ASSUME NEW i, CancelTxAndOutputs(i) PROVE Rewards'
    <2>1. txlog' = [j \in LogIds |-> IF j = i THEN [txlog[j] EXCEPT !.type = CancelledType(@)]
                                     ELSE txlog[j]]
      BY <1>24 DEF CancelTxAndOutputs, TypeOK
    <2>2. \A r \in Rows : \/ out'[r] = out[r]
                          \/ out'[r] = NoRow /\ out[r].status = "Unconfirmed"
                          \/ out'[r] = [out[r] EXCEPT !.status = "Unspent"] /\ out[r].status = "Locked"
      BY <1>24 DEF CancelTxAndOutputs
    <2>3. \A r \in Rows : [out[r] EXCEPT !.status = "Unspent"].cb = out[r].cb
      BY DEF TypeOK, OutputData
    <2>4. NoRow.status = "None" /\ ~ NoRow.cb
      BY DEF NoRow
    <2>5. \A r \in Rows : r[1] \in cbKeys => out[r].status # "Locked"
      BY <1>0 DEF Rewards, RewardRows, RewardRow
    <2>6. \A r \in Rows : r[1] \in cbKeys =>
            out'[r] = out[r] \/ (out'[r].status = "None" /\ out[r].status # "Unspent")
      BY <2>2, <2>4, <2>5
    <2>7. \A r \in Rows : out'[r].cb => out[r].cb
      BY <2>2, <2>3, <2>4
    <2>8. QED
      BY <1>3, <1>17, <2>1, <2>6, <2>7
  <1>25. CASE ExpireTx(p)
    <2> DEFINE i == Least(u.todo)
               v == [u EXCEPT !.todo = @ \ {i}]
    <2>1. u.pc # "repair"
      BY <1>25 DEF ExpireTx, At
    <2>2. /\ v.rows = u.rows /\ v.txs = u.txs /\ v.chain = u.chain /\ v.idx = u.idx /\ v.fix = u.fix
          /\ v.miss = u.miss /\ v.locked = u.locked /\ v.unconf = u.unconf
      BY <1>0 DEF UpdateState
    <2>3. CASE Cancellable(txlog[i])
      <3>1. CancelTxAndOutputs(i) /\ upd' = [upd EXCEPT ![p] = v]
        BY <1>25, <2>3 DEF ExpireTx, TypeOK
      <3> HIDE DEF i, v, u
      <3>2. Ok(out', v)
        BY <1>5, <1>7, <2>1, <2>2
      <3>3. QED
        BY <1>2, <1>24, <3>1, <3>2
    <2>4. CASE ~Cancellable(txlog[i])
      <3>1. upd' = [upd EXCEPT ![p] = UpdateIdle] /\ txlog' = txlog /\ out' = out
        BY <1>25, <2>4 DEF ExpireTx
      <3>2. QED
        BY <1>2, <1>4, <1>8, <3>1
    <2>5. QED
      BY <2>3, <2>4
  <1>26. CASE UpdateDone(p)
    <2> DEFINE v == [u EXCEPT !.pc = "cancel"]
    <2>1. /\ upd' = [upd EXCEPT ![p] = v] \/ upd' = [upd EXCEPT ![p] = UpdateIdle]
          /\ txlog' = txlog /\ out' = out /\ u.pc # "repair"
      BY <1>26 DEF UpdateDone, TypeOK, dbVars, At
    <2>2. /\ v.rows = u.rows /\ v.txs = u.txs /\ v.chain = u.chain /\ v.idx = u.idx /\ v.fix = u.fix
          /\ v.miss = u.miss /\ v.locked = u.locked /\ v.unconf = u.unconf
      BY <1>0 DEF UpdateState
    <2> HIDE DEF v, u
    <2>3. Ok(out', v)
      BY <1>5, <1>7, <2>1, <2>2
    <2>4. QED
      BY <1>2, <1>4, <1>8, <2>1, <2>3
  <1>27. CASE CancelTx(p)
    <2>1. /\ upd' = [upd EXCEPT ![p] = UpdateIdle]
          /\ CancelTxAndOutputs(u.goal) \/ (txlog' = txlog /\ out' = out)
      BY <1>27 DEF CancelTx
    <2> HIDE DEF u
    <2>2. QED
      BY <1>2, <1>4, <1>8, <1>24, <2>1
  <1>28. CASE UpdateFails(p)
    <2>1. upd' = [upd EXCEPT ![p] = UpdateIdle] /\ txlog' = txlog /\ out' = out
      BY <1>28 DEF UpdateFails, dbVars
    <2>2. QED
      BY <1>2, <1>4, <1>8, <2>1
  <1>29. QED
    BY <1>9, <1>10, <1>11, <1>12, <1>13, <1>14, <1>15, <1>16, <1>19, <1>20, <1>21, <1>22, <1>23,
       <1>25, <1>26, <1>27, <1>28 DEF UpdateStep, StartUpdate, StartCancel, StartScan

\* Every entry of a reward has the key of a row, and no two entries the same.
LEMMA RewardsCounted == ASSUME TypeOK, Rewards PROVE CoinbaseOnce
  <1> DEFINE C == {i \in LogIds : txlog[i].type = "ConfirmedCoinbase"}
             Names(k, i) == \E r \in Rows : r[1] = k /\ out[r].status = "Unspent" /\ out[r].entry = i
             f == [i \in C |-> CHOOSE k \in cbKeys : Names(k, i)]
  <1>1. \A i \in C : \E k \in cbKeys : Names(k, i)
    BY DEF Rewards, Credited
  <1>2. ASSUME NEW k \in cbKeys, NEW i, NEW j, Names(k, i), Names(k, j) PROVE i = j
    <2>1. PICK r \in Rows : r[1] = k /\ out[r].status = "Unspent" /\ out[r].entry = i
      BY <1>2
    <2>2. PICK q \in Rows : q[1] = k /\ out[q].status = "Unspent" /\ out[q].entry = j
      BY <1>2
    <2>3. r = q
      BY <2>1, <2>2 DEF Rewards, OneReward
    <2>4. QED
      BY <2>1, <2>2, <2>3
  <1> HIDE DEF Names, C
  <1>3. \A i \in C : f[i] \in cbKeys /\ Names(f[i], i)
    BY <1>1
  <1>4. f \in [C -> cbKeys]
    BY <1>3
  <1> HIDE DEF f
  <1>5. \A i, j \in C : f[i] = f[j] => i = j
    BY <1>2, <1>3
  <1>6. f \in Injection(C, cbKeys)
    BY <1>4, <1>5 DEF Injection, IsInjective
  <1>7. IsFiniteSet(cbKeys)
    <2>1. IsFiniteSet(Keys)
      BY FS_Interval, ConstantsAssumption DEF Keys
    <2>2. QED
      BY <2>1, FS_Subset DEF TypeOK
  <1>8. Cardinality(C) <= Cardinality(cbKeys)
    BY <1>6, <1>7, FS_Injection
  <1>9. QED
    BY <1>8 DEF CoinbaseOnce, C

\* In a wallet that mines and receives, with one thread updating it, a block reward is
\* credited once: however often its output is found by a refresh, dropped as stale, built
\* again under the same key, deleted or restored by a scan, beside any other calls and
\* forks, there are no more entries of rewards than keys of coinbase outputs.
THEOREM RewardsOnce ==
  ASSUME Mines, OneUpdater, Restored = FALSE PROVE Spec => []CoinbaseOnce
  <1> DEFINE Inv == KeyInv /\ ChainInv /\ Fresh /\ RewardInv
  <1>1. Init => Inv
    <2> SUFFICES ASSUME Init PROVE Inv
      OBVIOUS
    <2>1. KeyInv /\ ChainInv
      BY KeyInit, ChainInit
    <2>2. Fresh
      BY DEF Init, Fresh, FreshLog, KnownTodo, KnownTxs, UpdateIdle
    <2>3. NoInputs /\ FirstMmr
      BY DEF Init, NoInputs, FirstMmr
    <2>4. \A r \in Rows : ~ out[r].cb
      BY DEF Init, NoRow
    <2>5. \A i \in LogIds : txlog[i].type # "ConfirmedCoinbase"
      BY DEF Init, NoEntry
    <2>6. cbKeys = {}
      BY DEF Init
    <2>7. Rewards
      BY <2>4, <2>5, <2>6 DEF Rewards, CbRows, RewardRows, RewardRow, OneReward, Credited
    <2>8. Carried
      <3> SUFFICES ASSUME NEW p \in Updaters PROVE CarryOk(cbKeys, utxo, out, UpdateIdle)
        BY DEF Init, Carried
      <3>1. /\ UpdateIdle.idx = {} /\ UpdateIdle.fix = {} /\ UpdateIdle.miss = {}
            /\ UpdateIdle.locked = {} /\ UpdateIdle.unconf = {} /\ UpdateIdle.chain = {}
            /\ \A r \in Rows : UpdateIdle.rows[r] = NoRow
            /\ \A i \in LogIds : UpdateIdle.txs[i] = NoEntry
        BY DEF UpdateIdle
      <3>2. SeenFirst(cbKeys, utxo, UpdateIdle) /\ ReadRewards(cbKeys, UpdateIdle) /\ ReadEntries(UpdateIdle)
        BY <3>1 DEF SeenFirst, ReadRewards, ReadEntries, NoRow, NoEntry
      <3>3. QED
        BY <3>1, <3>2, NothingCarried
    <2>9. QED
      BY <2>1, <2>2, <2>3, <2>7, <2>8 DEF RewardInv
  <1>2. TypeOK /\ Inv /\ [Next]_vars => Inv'
    <2> SUFFICES ASSUME TypeOK, Inv, [Next]_vars PROVE Inv'
      OBVIOUS
    <2>1. TypeOK' /\ KeyInv' /\ ChainInv'
      BY NextType, KeyStep, ChainStep
    <2>2. ~WatchStep
      BY DEF Mines, Fresh, WatchStep, PollMempool, ReadWatchedEntries, SaveWatchedEntry,
             UpdateMempoolStatus, WatchIdle
    <2>3. CASE UNCHANGED vars
      <3>1. Fresh'
        BY <2>3 DEF vars, dbVars, Fresh, FreshLog, KnownTodo, KnownTxs, Known
      <3>2. UNCHANGED <<out, utxo, cbKeys, upd, txlog, offers, mmr>>
        BY <2>3 DEF vars, dbVars, slateVars, nodeVars
      <3>3. RewardInv'
        BY <3>2 DEF RewardInv, NoInputs, FirstMmr, Rewards, CbRows, RewardRows, OneReward, Credited,
                    Carried
      <3>4. QED
        BY <2>1, <3>1, <3>3
    <2>4. CASE Next
      <3>1. Fresh'
        <4>1. Kept /\ watch' = watch
          BY <2>1, <2>2, <2>4, ApiStays, UpdateStays DEF Next
        <4>2. QED
          BY <4>1 DEF Kept, Fresh
      <3>2. RewardInv'
        BY <2>1, <2>2, <2>4, ApiRewards, UpdateRewards DEF Next
      <3>3. QED
        BY <2>1, <3>1, <3>2
    <2>5. QED
      BY <2>3, <2>4
  <1>3. TypeOK /\ Inv => CoinbaseOnce
    BY RewardsCounted DEF RewardInv
  <1>4. QED
    BY <1>1, <1>2, <1>3, LedgerTypeOK, PTL DEF Spec

-----------------------------------------------------------------------------
(* An output is in the table once, in a wallet with one updating thread that *)
(* does not mine, is not repaired and has not been restored, on a chain      *)
(* without forks.  The rows a scan writes back it read before: an output may *)
(* have been spent in between, and then come to have two rows, of which the  *)
(* later position is spent for good.                                         *)

Ordinary == /\ \A s \in Slates : Role[s] # "pay"
            /\ MaxForks = 0 /\ MaxCoinbase = 0 /\ Repair = FALSE /\ ZeroConf = FALSE

\* In table O the row of key k at position j; with slates S mined and transactions T offered,
\* a key that has been on chain, and one that is gone from chain U since.
Has(O, k, j)      == O[<<k, j>>].status # "None"
WasOn(S, T, k)    == Minted({}, S, T, k)
Gone(U, S, T, k)  == WasOn(S, T, k) /\ k \notin U

Plain     == /\ cbKeys = {} /\ seen = mined /\ pool \cap mined = {}
             /\ \A k \in Keys : mmr[k] = 1
RowOnce(U, S, T, r, o) ==
  /\ ~ o.cb
  /\ o.status \in {"Unspent", "Locked"} => WasOn(S, T, r[1])
  /\ o.status = "Spent" => Gone(U, S, T, r[1])
  /\ r[2] = 1 /\ o.status # "None" => WasOn(S, T, r[1])
RowsOnce  == \A r \in Rows : RowOnce(utxo, seen, offers, r, out[r])
SecondSpent(O) == \A k \in Keys : Has(O, k, 0) /\ Has(O, k, 1) => O[<<k, 1>>].status = "Spent"
CtxRow(S, T, O, r) == WasOn(S, T, r[1]) /\ (r[2] = 1 => ~ Has(O, r[1], 0))
CtxRows   == \A s \in Slates : \A r \in ctx[s].ins : CtxRow(seen, offers, out, r)

\* What an update carries: outputs that were on chain; while it looks for their rows, each has
\* one; the rows it renames or marks unspent again are of different outputs and those it
\* restores have none.
SawMined(S, T, u)   == \A q \in u.chain \cup u.miss : q[2] = 1 /\ WasOn(S, T, q[1])
OneBefore(O, u)     == u.pc = "wallet" => \A q \in u.chain : ~ (Has(O, q[1], 0) /\ Has(O, q[1], 1))
ToIndex(U, S, T, u) == \A r \in u.idx : /\ r[2] = 0 /\ WasOn(S, T, r[1]) /\ ~ u.rows[r].cb
                                        /\ u.rows[r].status = "Spent" => Gone(U, S, T, r[1])
ToUnspend(U, S, T, O, C, u) ==
  \A r \in u.fix :
    /\ Gone(U, S, T, r[1]) /\ u.rows[r].status = "Spent" /\ ~ u.rows[r].cb
    /\ (r[2] = 0 => /\ O[<<r[1], 1>>].status \in {"None", "Spent"}
                    /\ \A s \in Slates : <<r[1], 1>> \notin C[s].ins)
    /\ (r[2] = 1 => ~ Has(O, r[1], 0))
ToAdd(O, u)         == \A q \in u.miss : /\ ~ Has(O, q[1], 0) /\ ~ Has(O, q[1], 1)
                                         /\ \A r \in u.idx \cup u.fix : r[1] # q[1]
OtherKeys(u)        == \A r, q \in u.idx \cup u.fix : r[1] = q[1] => r = q
NoRepair(u)         == /\ u.job # "scan" /\ u.locked = {} /\ u.unconf = {}
                       /\ u.pc # "repair" => u.idx = {} /\ u.fix = {} /\ u.miss = {}
OutCarry(U, S, T, O, C, u) ==
  /\ SawMined(S, T, u) /\ OneBefore(O, u) /\ ToIndex(U, S, T, u) /\ ToUnspend(U, S, T, O, C, u)
  /\ ToAdd(O, u) /\ OtherKeys(u) /\ NoRepair(u)
OutCarried == \A p \in Updaters : OutCarry(utxo, seen, offers, out, ctx, upd[p])
TableInv   == RowsOnce /\ SecondSpent(out) /\ CtxRows
OnceInv    == Plain /\ TableInv /\ OutCarried

\* Without forks an output has two rows at most.
LEMMA TwoPositions ==
  ASSUME Ordinary
  PROVE  /\ \A r \in Rows : r[1] \in Keys /\ r[2] \in {0, 1} /\ r = <<r[1], r[2]>>
         /\ \A k \in Keys : <<k, 0>> \in Rows /\ <<k, 1>> \in Rows
         /\ \A r, q \in Rows : r[1] = q[1] /\ r[2] = q[2] => r = q
         /\ Mmr = {0, 1} /\ MaxMmr = 1
  <1>1. MaxMmr = 1
    BY DEF Ordinary, MaxMmr
  <1>2. Mmr = {0, 1}
    BY <1>1 DEF Mmr
  <1>3. QED
    BY <1>1, <1>2 DEF Rows

\* Keys that were on chain stay so when slates are mined and offered.
LEMMA WasOnStays ==
  ASSUME NEW S, NEW T, NEW SS, NEW TT, S \subseteq SS, S \subseteq Slates,
         \A s \in Slates : T[s] \subseteq TT[s],
         NEW k, WasOn(S, T, k)
  PROVE  WasOn(SS, TT, k)
  BY DEF WasOn, Minted, Offered

\* A step that changes the status of rows, adds rows of new outputs, or selects rows that are
\* live, and brings no output back on chain.
LEMMA TableKept ==
  ASSUME Ordinary, TypeOK, TypeOK', TableInv,
         seen \subseteq seen', \A s \in Slates : offers[s] \subseteq offers'[s],
         \A k \in utxo' : k \in utxo \/ ~ WasOn(seen, offers, k),
         \A r \in Rows : RowOnce(utxo', seen', offers', r, out'[r]),
         \A r \in Rows : out'[r].status # "None" =>
            out[r].status # "None" \/ (r[2] = 0 /\ ~ WasOn(seen, offers, r[1])),
         \A r \in Rows : r[2] = 1 /\ out[r].status \in {"None", "Spent"} =>
            out'[r].status \in {"None", "Spent"} \/ \E s \in Slates : r \in ctx[s].ins,
         \A s \in Slates : \A r \in ctx'[s].ins :
            \/ r \in ctx[s].ins
            \/ r \in Rows /\ WasOn(seen', offers', r[1]) /\ out[r].status \notin {"None", "Spent"}
  PROVE  /\ TableInv'
         /\ \A u \in UpdateState : OutCarry(utxo, seen, offers, out, ctx, u)
                                     => OutCarry(utxo', seen', offers', out', ctx', u)
  <1>1. /\ \A r \in Rows : r[1] \in Keys /\ r[2] \in {0, 1} /\ r = <<r[1], r[2]>>
        /\ \A k \in Keys : <<k, 0>> \in Rows /\ <<k, 1>> \in Rows
    BY TwoPositions
  <1>2. \A k : WasOn(seen, offers, k) => WasOn(seen', offers', k)
    BY WasOnStays DEF TypeOK
  <1>3. \A k : Gone(utxo, seen, offers, k) => Gone(utxo', seen', offers', k)
    BY <1>2 DEF Gone
  <1>4. \A k \in Keys : Has(out, k, 1) => WasOn(seen, offers, k)
    <2> SUFFICES ASSUME NEW k \in Keys, out[<<k, 1>>].status # "None" PROVE WasOn(seen, offers, k)
      BY DEF Has
    <2>1. RowOnce(utxo, seen, offers, <<k, 1>>, out[<<k, 1>>])
      BY <1>1 DEF TableInv, RowsOnce
    <2>2. QED
      BY <2>1 DEF RowOnce
  <1>5. \A k \in Keys : /\ Has(out', k, 1) => Has(out, k, 1)
                        /\ Has(out', k, 0) => Has(out, k, 0) \/ ~ WasOn(seen, offers, k)
    <2> SUFFICES ASSUME NEW k \in Keys
                 PROVE  /\ out'[<<k, 1>>].status # "None" => out[<<k, 1>>].status # "None"
                        /\ out'[<<k, 0>>].status # "None" =>
                             out[<<k, 0>>].status # "None" \/ ~ WasOn(seen, offers, k)
      BY DEF Has
    <2>1. <<k, 0>> \in Rows /\ <<k, 1>> \in Rows
      BY <1>1
    <2>2. QED
      BY <2>1
  <1>6. \A s \in Slates : \A r \in ctx[s].ins : r \in Rows /\ CtxRow(seen, offers, out, r)
    BY DEF TypeOK, Context, TableInv, CtxRows
  <1>7. ASSUME NEW k \in Keys, Has(out', k, 0), Has(out', k, 1)
        PROVE  Has(out, k, 0) /\ Has(out, k, 1)
    BY <1>4, <1>5, <1>7
  <1>8. ASSUME NEW k \in Keys, out[<<k, 1>>].status \in {"None", "Spent"},
               \A s \in Slates : <<k, 1>> \notin ctx[s].ins
        PROVE  /\ out'[<<k, 1>>].status \in {"None", "Spent"}
               /\ \A s \in Slates : <<k, 1>> \notin ctx'[s].ins
    <2>1. <<k, 1>> \in Rows
      BY <1>1
    <2>2. QED
      BY <1>8, <2>1
  <1>9. SecondSpent(out')
    <2> SUFFICES ASSUME NEW k \in Keys, Has(out', k, 0), Has(out', k, 1)
                 PROVE  out'[<<k, 1>>].status = "Spent"
      BY DEF SecondSpent
    <2>1. out[<<k, 1>>].status = "Spent" /\ Has(out, k, 0)
      BY <1>7 DEF TableInv, SecondSpent
    <2>2. \A s \in Slates : <<k, 1>> \notin ctx[s].ins
      BY <1>6, <2>1 DEF CtxRow
    <2>3. QED
      BY <1>8, <2>1, <2>2 DEF Has
  <1>10. CtxRows'
    <2> SUFFICES ASSUME NEW s \in Slates, NEW r \in ctx'[s].ins PROVE CtxRow(seen', offers', out', r)
      BY DEF CtxRows
    <2>1. CASE r \in ctx[s].ins
      <3>1. r[1] \in Keys /\ WasOn(seen, offers, r[1]) /\ (r[2] = 1 => ~ Has(out, r[1], 0))
        BY <1>1, <1>6, <2>1 DEF CtxRow
      <3>2. QED
        BY <1>2, <1>5, <3>1 DEF CtxRow
    <2>2. CASE r \in Rows /\ WasOn(seen', offers', r[1]) /\ out[r].status \notin {"None", "Spent"}
      <3>1. SUFFICES ASSUME r[2] = 1, Has(out', r[1], 0) PROVE FALSE
        BY <2>2 DEF CtxRow
      <3>2. r[1] \in Keys /\ r = <<r[1], 1>>
        BY <1>1, <2>2, <3>1
      <3>3. Has(out, r[1], 1) /\ out[<<r[1], 1>>].status # "Spent"
        BY <2>2, <3>2 DEF Has
      <3>4. ~ Has(out, r[1], 0)
        BY <3>2, <3>3 DEF TableInv, SecondSpent
      <3>5. QED
        BY <1>4, <1>5, <3>1, <3>2, <3>3, <3>4
    <2>3. QED
      BY <2>1, <2>2
  <1>11. ASSUME NEW u \in UpdateState, OutCarry(utxo, seen, offers, out, ctx, u)
         PROVE  OutCarry(utxo', seen', offers', out', ctx', u)
    <2>1. /\ \A q \in u.chain \cup u.miss : q[1] \in Keys
          /\ \A r \in u.fix : r \in Rows /\ r[1] \in Keys
      BY <1>1 DEF UpdateState
    <2>2. SawMined(seen', offers', u)
      BY <1>2, <1>11 DEF OutCarry, SawMined
    <2>3. OneBefore(out', u)
      BY <1>7, <1>11, <2>1 DEF OutCarry, OneBefore
    <2>4. ToIndex(utxo', seen', offers', u)
      BY <1>2, <1>3, <1>11 DEF OutCarry, ToIndex
    <2>5. ToUnspend(utxo', seen', offers', out', ctx', u)
      <3> SUFFICES ASSUME NEW r \in u.fix
                   PROVE  /\ Gone(utxo', seen', offers', r[1]) /\ u.rows[r].status = "Spent" /\ ~ u.rows[r].cb
                          /\ (r[2] = 0 => /\ out'[<<r[1], 1>>].status \in {"None", "Spent"}
                                          /\ \A s \in Slates : <<r[1], 1>> \notin ctx'[s].ins)
                          /\ (r[2] = 1 => ~ Has(out', r[1], 0))
        BY DEF ToUnspend
      <3>1. /\ Gone(utxo, seen, offers, r[1]) /\ u.rows[r].status = "Spent" /\ ~ u.rows[r].cb
            /\ (r[2] = 0 => /\ out[<<r[1], 1>>].status \in {"None", "Spent"}
                            /\ \A s \in Slates : <<r[1], 1>> \notin ctx[s].ins)
            /\ (r[2] = 1 => ~ Has(out, r[1], 0))
        BY <1>11 DEF OutCarry, ToUnspend
      <3>2. r[2] = 1 => ~ Has(out', r[1], 0)
        BY <1>5, <2>1, <3>1 DEF Gone
      <3>3. QED
        BY <1>3, <1>8, <2>1, <3>1, <3>2
    <2>6. ToAdd(out', u)
      BY <1>5, <1>11, <2>1 DEF OutCarry, SawMined, ToAdd
    <2>7. QED
      BY <1>11, <2>2, <2>3, <2>4, <2>5, <2>6 DEF OutCarry
  <1>12. QED
    BY <1>9, <1>10, <1>11 DEF TableInv, RowsOnce

\* What a row says stays right when slates are mined and offered.
LEMMA RowOnceStays ==
  ASSUME NEW U, NEW V, NEW S, NEW T, NEW SS, NEW TT, NEW r, NEW o, RowOnce(U, S, T, r, o),
         \A k : WasOn(S, T, k) => WasOn(SS, TT, k),
         \A k \in V : k \in U \/ ~ WasOn(S, T, k)
  PROVE  RowOnce(V, SS, TT, r, o)
  BY DEF RowOnce, Gone

\* refresh_outputs adds and removes no row of such a wallet, and changes no spent one.
LEMMA RefreshOnce ==
  ASSUME TypeOK, Plain, ChainInv, RowsOnce, NEW m \in SUBSET Rows, NEW ids \in CoinbaseIds(m), NEW r \in Rows,
         NEW o, o = RefreshedOut(m, ids)[r]
  PROVE  /\ RowOnce(utxo, seen, offers, r, o)
         /\ o.status = "None" <=> out[r].status = "None"
         /\ out[r].status \in {"None", "Spent"} => o = out[r]
  <1> DEFINE b == IF tip < lch THEN out ELSE ApplyOut(m, ids)
  <1>1. \A q \in Rows : out[q] \in OutputData /\ RowOnce(utxo, seen, offers, q, out[q])
    BY DEF TypeOK, RowsOnce
  <1>2. NewCoinbases(m) = {}
    BY <1>1 DEF NewCoinbases, RowOnce
  <1>3. \A q \in Rows : \/ b[q] = out[q]
                        \/ b[q] = MarkSpent(out[q]) /\ q[1] \notin utxo
                        \/ b[q] = MarkUnspent(out[q]) /\ q[1] \in utxo
    BY <1>2 DEF ApplyOut
  <1>4. \A q \in Rows : /\ MarkSpent(out[q]).cb = out[q].cb /\ MarkUnspent(out[q]).cb = out[q].cb
                        /\ \/ MarkSpent(out[q]) = out[q]
                           \/ out[q].status \in {"Unspent", "Locked"} /\ MarkSpent(out[q]).status = "Spent"
                        /\ \/ MarkUnspent(out[q]) = out[q]
                           \/ out[q].status = "Unconfirmed" /\ MarkUnspent(out[q]).status = "Unspent"
    BY <1>1 DEF MarkSpent, MarkUnspent, OutputData
  <1> HIDE DEF b
  <1>5. \A q \in Rows : ~ b[q].cb
    BY <1>1, <1>3, <1>4 DEF RowOnce
  <1>6. o = b[r]
    <2>1. o = CleanOldUnconfirmed(b)[r]
      BY DEF RefreshedOut, b
    <2>2. QED
      BY <1>5, <2>1 DEF CleanOldUnconfirmed
  <1>7. \A k \in utxo : WasOn(seen, offers, k)
    BY DEF ChainInv, UtxoMinted, Plain, WasOn
  <1>8. QED
    BY <1>1, <1>3, <1>4, <1>6, <1>7 DEF RowOnce, Gone

\* A key the wallet has put in a transaction that is not mined, or will derive next, has not
\* been on chain.
LEMMA NotYetOnChain ==
  ASSUME TypeOK, KeyInv, ChainInv, Plain
  PROVE  /\ ~ WasOn(seen, offers, nextChild)
         /\ \A s \in Slates, k \in Keys :
              Offered(offers, s, k) /\ s \notin seen => ~ WasOn(seen, offers, k)
         /\ seen \subseteq Slates
  <1>1. seen \subseteq Slates /\ nextChild \in Int /\ Coins \in Int /\ Coins <= nextChild
    BY ConstantsAssumption DEF TypeOK, ChainInv
  <1>2. ~ (nextChild < Coins) /\ ~ (nextChild < nextChild)
    BY <1>1
  <1>3. \A s \in seen : ~ Offered(offers, s, nextChild)
    BY <1>1, <1>2 DEF KeyInv, SlateKeys, TxBelow, Offered
  <1>4. ~ WasOn(seen, offers, nextChild)
    BY <1>2, <1>3 DEF WasOn, Minted
  <1>5. ASSUME NEW s \in Slates, NEW k \in Keys, Offered(offers, s, k), s \notin seen
        PROVE  ~ WasOn(seen, offers, k)
    <2>1. ~ (k < Coins)
      BY <1>5 DEF ChainInv, NotCoin
    <2>2. \A t \in seen : ~ Offered(offers, t, k)
      BY <1>1, <1>5 DEF ChainInv, OneSlate
    <2>3. QED
      BY <2>1, <2>2 DEF WasOn, Minted
  <1>6. QED
    BY <1>1, <1>4, <1>5

\* The same for the whole invariant, for a step of a call or of the node.
LEMMA OnceKept ==
  ASSUME Ordinary, TypeOK, TypeOK', OnceInv, Plain', upd' = upd,
         seen \subseteq seen', \A s \in Slates : offers[s] \subseteq offers'[s],
         \A k \in utxo' : k \in utxo \/ ~ WasOn(seen, offers, k),
         \A r \in Rows : RowOnce(utxo', seen', offers', r, out'[r]),
         \A r \in Rows : out'[r].status # "None" =>
            out[r].status # "None" \/ (r[2] = 0 /\ ~ WasOn(seen, offers, r[1])),
         \A r \in Rows : r[2] = 1 /\ out[r].status \in {"None", "Spent"} =>
            out'[r].status \in {"None", "Spent"} \/ \E s \in Slates : r \in ctx[s].ins,
         \A s \in Slates : \A r \in ctx'[s].ins :
            \/ r \in ctx[s].ins
            \/ r \in Rows /\ WasOn(seen', offers', r[1]) /\ out[r].status \notin {"None", "Spent"}
  PROVE  OnceInv'
  <1>1. TableInv
    BY DEF OnceInv
  <1>2. /\ TableInv'
        /\ \A u \in UpdateState : OutCarry(utxo, seen, offers, out, ctx, u)
                                    => OutCarry(utxo', seen', offers', out', ctx', u)
    BY <1>1, TableKept
  <1>3. OutCarried'
    BY <1>2 DEF OnceInv, OutCarried, TypeOK
  <1>4. QED
    BY <1>2, <1>3 DEF OnceInv

\* Calls and node steps that leave the rows alone.
LEMMA OnceMined ==
  ASSUME Ordinary, TypeOK, TypeOK', OnceInv, Plain', upd' = upd, out' = out, offers' = offers,
         seen \subseteq seen', \A k \in utxo' : k \in utxo \/ ~ WasOn(seen, offers, k),
         \A s \in Slates : ctx'[s].ins \subseteq ctx[s].ins
  PROVE  OnceInv'
  <1>1. \A k : WasOn(seen, offers, k) => WasOn(seen', offers', k)
    BY WasOnStays DEF TypeOK
  <1>2. \A r \in Rows : RowOnce(utxo', seen', offers', r, out'[r])
    BY <1>1, RowOnceStays DEF OnceInv, TableInv, RowsOnce
  <1>3. QED
    BY <1>2, OnceKept

\* init_send_tx: the selected rows are unspent, so their outputs have been on chain.
LEMMA InitSendOnce ==
  ASSUME Ordinary, TypeOK, TypeOK', KeyInv, ChainInv, OnceInv,
         NEW s \in Slates, NEW pref \in Mmr, NEW change \in BOOLEAN, AddInputs(s, pref, change)
  PROVE  OnceInv'
  <1> DEFINE m == MapWalletOutputs(pref)
             outs == IF change THEN {nextChild} ELSE {}
  <1>0. m \in SUBSET Rows
    BY MapType
  <1>1. PICK ids \in CoinbaseIds(m) :
          \E ins \in SUBSET {r \in Rows : EligibleToSpend(RefreshedOut(m, ids)[r])} :
            /\ RefreshOutputs(m, ids)
            /\ ctx' = [ctx EXCEPT ![s] = [ins |-> ins, outs |-> outs]]
            /\ offers' = [offers EXCEPT ![s] = @ \cup {[ins |-> {r[1] : r \in ins}, outs |-> outs]}]
            /\ UNCHANGED <<upd, watch, final, nodeVars, outages>>
    BY DEF AddInputs
  <1>2. PICK ins \in SUBSET {r \in Rows : EligibleToSpend(RefreshedOut(m, ids)[r])} :
            /\ RefreshOutputs(m, ids)
            /\ ctx' = [ctx EXCEPT ![s] = [ins |-> ins, outs |-> outs]]
            /\ offers' = [offers EXCEPT ![s] = @ \cup {[ins |-> {r[1] : r \in ins}, outs |-> outs]}]
            /\ UNCHANGED <<upd, watch, final, nodeVars, outages>>
    BY <1>1
  <1> DEFINE tx == [ins |-> {r[1] : r \in ins}, outs |-> outs]
             c  == [ins |-> ins, outs |-> outs]
  <1>3. /\ \A r \in Rows : out'[r] = RefreshedOut(m, ids)[r]
        /\ \A r \in ins : r \in Rows /\ EligibleToSpend(RefreshedOut(m, ids)[r])
    BY <1>2 DEF RefreshOutputs
  <1>4. \A r \in Rows : /\ RowOnce(utxo, seen, offers, r, out'[r])
                        /\ out'[r].status = "None" <=> out[r].status = "None"
                        /\ out[r].status \in {"None", "Spent"} => out'[r] = out[r]
    BY <1>0, <1>3, RefreshOnce DEF OnceInv, TableInv
  <1>5. \A r \in ins : r \in Rows /\ out'[r].status = "Unspent"
    BY <1>3 DEF EligibleToSpend, Ordinary
  <1>6. \A r \in ins : WasOn(seen, offers, r[1]) /\ out[r].status \notin {"None", "Spent"}
    BY <1>4, <1>5 DEF RowOnce
  <1>7. offers' = [offers EXCEPT ![s] = @ \cup {tx}] /\ ctx' = [ctx EXCEPT ![s] = c] /\ c.ins = ins
    BY <1>2
  <1>8. UNCHANGED <<upd, utxo, seen, mined, pool, mmr, cbKeys>>
    BY <1>2 DEF nodeVars
  <1> HIDE DEF tx, c, m, outs
  <1>9. \A t \in Slates : offers[t] \subseteq offers'[t]
    BY <1>7 DEF TypeOK
  <1>10. \A t \in Slates : \A r \in ctx'[t].ins : r \in ctx[t].ins \/ r \in ins
    BY <1>7 DEF TypeOK
  <1>11. \A k : WasOn(seen, offers, k) => WasOn(seen', offers', k)
    BY <1>8, <1>9, WasOnStays DEF TypeOK
  <1>12. \A r \in Rows : RowOnce(utxo', seen', offers', r, out'[r])
    BY <1>4, <1>8, <1>11, RowOnceStays
  <1>13. Plain'
    BY <1>8 DEF OnceInv, Plain
  <1>14. \A t \in Slates : \A r \in ctx'[t].ins :
            \/ r \in ctx[t].ins
            \/ r \in Rows /\ WasOn(seen', offers', r[1]) /\ out[r].status \notin {"None", "Spent"}
    BY <1>5, <1>6, <1>10, <1>11
  <1>15. \A r \in Rows : r[2] = 1 /\ out[r].status \in {"None", "Spent"} =>
            out'[r].status \in {"None", "Spent"} \/ \E t \in Slates : r \in ctx[t].ins
    BY <1>4
  <1>16. \A r \in Rows : out'[r].status # "None" =>
            out[r].status # "None" \/ (r[2] = 0 /\ ~ WasOn(seen, offers, r[1]))
    BY <1>4
  <1>17. QED
    BY <1>8, <1>9, <1>12, <1>13, <1>14, <1>15, <1>16, OnceKept

\* tx_lock_outputs: what it locks has been on chain, the change has not.
LEMMA LockOnce ==
  ASSUME Ordinary, TypeOK, TypeOK', KeyInv, ChainInv, OnceInv,
         NEW s \in Slates, TxLockOutputs(s) \/ LockPanics(s)
  PROVE  OnceInv'
  <1> DEFINE c == ctx[s]
  <1>1. UNCHANGED <<upd, utxo, seen, mined, pool, mmr, cbKeys, offers, ctx>>
    BY DEF TxLockOutputs, LockPanics, slateVars, nodeVars
  <1>2. \A r \in Rows : out[r] \in OutputData /\ RowOnce(utxo, seen, offers, r, out[r])
    BY DEF TypeOK, OnceInv, TableInv, RowsOnce
  <1>3. \A r \in c.ins : WasOn(seen, offers, r[1])
    BY DEF OnceInv, TableInv, CtxRows, CtxRow
  <1>4. TxLockOutputs(s) => \A k \in c.outs : ~ WasOn(seen, offers, k)
    <2> SUFFICES ASSUME TxLockOutputs(s), NEW k \in c.outs PROVE ~ WasOn(seen, offers, k)
      OBVIOUS
    <2>1. Role[s] \in {"send", "invoice"} /\ ctx[s] # NoCtx
      BY DEF TxLockOutputs, Ordinary
    <2>2. s \notin seen
      BY <2>1 DEF ChainInv, OpenNotFinal, PostedFinal, OnceInv, Plain
    <2>3. k \in Keys /\ Offered(offers, s, k)
      BY DEF ChainInv, CtxOffered, TypeOK, Context
    <2>4. QED
      BY <2>2, <2>3, NotYetOnChain DEF OnceInv
  <1>5. \A r \in Rows : \/ out'[r] = out[r]
                        \/ /\ r \in c.ins /\ out'[r].status = "Locked" /\ out'[r].cb = out[r].cb
                           /\ out[r].status # "None"
                        \/ /\ r[2] = 0 /\ ~ WasOn(seen, offers, r[1])
                           /\ out'[r].status = "Unconfirmed" /\ out'[r].cb = FALSE
    <2>1. CASE TxLockOutputs(s)
      <3>1. /\ \A r \in c.ins : out[r].status # "None"
            /\ out' = [r \in Rows |->
                         IF r \in c.ins THEN [out[r] EXCEPT !.status = "Locked", !.entry = nextLog]
                         ELSE IF r[2] = 0 /\ r[1] \in c.outs
                           THEN [NoRow EXCEPT !.status = "Unconfirmed", !.entry = nextLog]
                         ELSE out[r]]
        BY <2>1 DEF TxLockOutputs
      <3>2. \A o \in OutputData : /\ [o EXCEPT !.status = "Locked", !.entry = nextLog].status = "Locked"
                                  /\ [o EXCEPT !.status = "Locked", !.entry = nextLog].cb = o.cb
        BY DEF OutputData
      <3>3. /\ [NoRow EXCEPT !.status = "Unconfirmed", !.entry = nextLog].status = "Unconfirmed"
            /\ [NoRow EXCEPT !.status = "Unconfirmed", !.entry = nextLog].cb = FALSE
        BY DEF NoRow
      <3>4. QED
        BY <1>2, <1>4, <2>1, <3>1, <3>2, <3>3
    <2>2. CASE LockPanics(s)
      <3>1. PICK done \in SUBSET (c.ins \ {r \in c.ins : out[r].status = "None"}) :
               out' = [r \in Rows |-> IF r \in done
                                        THEN [out[r] EXCEPT !.status = "Locked", !.entry = nextLog]
                                        ELSE out[r]]
        BY <2>2 DEF LockPanics
      <3>2. \A o \in OutputData : /\ [o EXCEPT !.status = "Locked", !.entry = nextLog].status = "Locked"
                                  /\ [o EXCEPT !.status = "Locked", !.entry = nextLog].cb = o.cb
        BY DEF OutputData
      <3>3. QED
        BY <1>2, <3>1, <3>2
    <2>3. QED
      BY <2>1, <2>2
  <1> HIDE DEF c
  <1>6. \A r \in Rows : RowOnce(utxo, seen, offers, r, out'[r])
    BY <1>2, <1>3, <1>5 DEF RowOnce
  <1>7. \A r \in Rows : r[2] = 1 /\ out[r].status \in {"None", "Spent"} =>
            out'[r].status \in {"None", "Spent"} \/ \E t \in Slates : r \in ctx[t].ins
    BY <1>5 DEF c
  <1>8. \A r \in Rows : out'[r].status # "None" =>
            out[r].status # "None" \/ (r[2] = 0 /\ ~ WasOn(seen, offers, r[1]))
    BY <1>5
  <1>9. Plain'
    BY <1>1 DEF OnceInv, Plain
  <1>10. \A t \in Slates : \A r \in ctx'[t].ins : r \in ctx[t].ins
    BY <1>1
  <1>11. QED
    BY <1>1, <1>6, <1>7, <1>8, <1>9, <1>10, OnceKept

\* receive_tx and issue_invoice_tx: the row of a new output.
LEMMA ReceiveOnce ==
  ASSUME Ordinary, TypeOK, TypeOK', KeyInv, ChainInv, OnceInv,
         NEW s \in Slates, ReceiveTx(s) \/ IssueInvoiceTx(s)
  PROVE  OnceInv'
  <1> DEFINE tx == [ins |-> {}, outs |-> {nextChild}]
  <1>1. PICK excess : BuildRecipientOutput(s, excess)
    BY DEF ReceiveTx, IssueInvoiceTx
  <1>2. /\ out' = [out EXCEPT ![<<nextChild, 0>>] =
                     [NoRow EXCEPT !.status = "Unconfirmed", !.entry = nextLog]]
        /\ offers' = [offers EXCEPT ![s] = @ \cup {tx}]
        /\ UNCHANGED <<upd, utxo, seen, mined, pool, mmr, cbKeys>>
    BY <1>1 DEF BuildRecipientOutput, nodeVars
  <1>3. ctx' = ctx \/ ctx' = [ctx EXCEPT ![s] = tx]
    BY DEF ReceiveTx, IssueInvoiceTx
  <1>4. \A t \in Slates : \A r \in ctx'[t].ins : r \in ctx[t].ins
    <2>1. tx.ins = {}
      OBVIOUS
    <2> HIDE DEF tx
    <2>2. QED
      BY <1>3, <2>1 DEF TypeOK
  <1>5. \A r \in Rows : r = <<nextChild, 0>> \/ out'[r] = out[r]
    BY <1>2 DEF TypeOK
  <1>6. \A r \in Rows : r = <<nextChild, 0>> => out'[r].status = "Unconfirmed" /\ out'[r].cb = FALSE
    BY <1>2 DEF TypeOK, NoRow
  <1>7. \A t \in Slates : offers[t] \subseteq offers'[t]
    BY <1>2 DEF TypeOK
  <1> HIDE DEF tx
  <1>8. /\ ~ WasOn(seen, offers, nextChild)
        /\ UNCHANGED <<upd, utxo, seen, mined, pool, mmr, cbKeys>>
    BY <1>2, NotYetOnChain DEF OnceInv
  <1>9. \A k : WasOn(seen, offers, k) => WasOn(seen', offers', k)
    BY <1>7, <1>8, WasOnStays DEF TypeOK
  <1>10. \A r \in Rows : RowOnce(utxo, seen, offers, r, out'[r])
    BY <1>5, <1>6 DEF RowOnce, OnceInv, TableInv, RowsOnce
  <1>11. \A r \in Rows : RowOnce(utxo', seen', offers', r, out'[r])
    BY <1>8, <1>9, <1>10, RowOnceStays
  <1>12. \A r \in Rows : out'[r].status # "None" =>
            out[r].status # "None" \/ (r[2] = 0 /\ ~ WasOn(seen, offers, r[1]))
    BY <1>5, <1>8
  <1>13. \A r \in Rows : r[2] = 1 /\ out[r].status \in {"None", "Spent"} =>
            out'[r].status \in {"None", "Spent"}
    BY <1>5
  <1>14. Plain'
    BY <1>2 DEF OnceInv, Plain
  <1>15. QED
    BY <1>2, <1>4, <1>7, <1>11, <1>12, <1>13, <1>14, OnceKept

\* API calls, the watcher and the node.
LEMMA ApiOnce ==
  ASSUME Ordinary, TypeOK, TypeOK', KeyInv, ChainInv, OnceInv,
         \/ \E s \in Slates, pref \in Mmr, change \in BOOLEAN :
              InitSendTx(s, pref, change) \/ ProcessInvoiceTx(s, pref, change)
         \/ \E s \in Slates : \/ TxLockOutputs(s) \/ LockPanics(s)
                              \/ FinalizeTx(s) \/ FinalizeInvoiceTx(s)
                              \/ ReceiveTx(s) \/ IssueInvoiceTx(s)
                              \/ RemoteFinalize(s) \/ PostTx(s) \/ MineTx(s) \/ Fork(s)
         \/ \E k \in Keys : BuildCoinbase(k) \/ MineCoinbase(k)
         \/ MineEmpty \/ WatchStep
  PROVE  OnceInv'
  <1>0. Plain /\ forks = 0 /\ seen \subseteq Slates
    <2>1. forks \in 0 .. 0
      BY DEF TypeOK, Ordinary
    <2>2. QED
      BY <2>1 DEF OnceInv, TypeOK
  <1>1. ASSUME NEW s \in Slates, NEW pref \in Mmr, NEW change \in BOOLEAN,
               InitSendTx(s, pref, change) \/ ProcessInvoiceTx(s, pref, change)
        PROVE  OnceInv'
    BY <1>1, InitSendOnce DEF InitSendTx, ProcessInvoiceTx
  <1>2. ASSUME NEW s \in Slates, TxLockOutputs(s) \/ LockPanics(s) PROVE OnceInv'
    BY <1>2, LockOnce
  <1>3. ASSUME NEW s \in Slates, ReceiveTx(s) \/ IssueInvoiceTx(s) PROVE OnceInv'
    BY <1>3, ReceiveOnce
  <1>4. ASSUME NEW s \in Slates, NEW types, Finalize(s, types) PROVE OnceInv'
    <2>1. UNCHANGED <<upd, out, offers, seen, utxo, mined, pool, mmr, cbKeys>>
      BY <1>4 DEF Finalize, nodeVars
    <2>2. ctx' = [ctx EXCEPT ![s] = NoCtx]
      BY <1>4 DEF Finalize
    <2>3. \A t \in Slates : ctx'[t].ins \subseteq ctx[t].ins
      BY <2>2 DEF TypeOK, NoCtx
    <2>4. Plain'
      BY <1>0, <2>1 DEF Plain
    <2>5. QED
      BY <2>1, <2>3, <2>4, OnceMined
  <1>5. ASSUME UNCHANGED <<upd, out, offers, ctx, seen, utxo, mined, mmr, cbKeys>>,
               pool' \cap mined = {}
        PROVE  OnceInv'
    <2>1. Plain'
      BY <1>0, <1>5 DEF Plain
    <2>2. QED
      BY <1>5, <2>1, OnceMined
  <1>6. ASSUME NEW s \in Slates, RemoteFinalize(s) PROVE OnceInv'
    BY <1>0, <1>5, <1>6 DEF RemoteFinalize, ChainUnchanged, dbVars, nodeVars, Plain
  <1>7. ASSUME NEW s \in Slates, PostTx(s) PROVE OnceInv'
    <2>1. UNCHANGED <<upd, out, offers, ctx, seen, utxo, mined, mmr, cbKeys>>
      BY <1>7 DEF PostTx, ChainUnchanged, dbVars, slateVars
    <2>2. pool' = pool \cup {s} /\ s \notin mined
      BY <1>7 DEF PostTx
    <2>3. QED
      BY <1>0, <1>5, <2>1, <2>2 DEF Plain
  <1>8. ASSUME NEW s \in Slates, MineTx(s) PROVE OnceInv'
    <2>1. /\ UNCHANGED <<upd, out, offers, ctx, cbKeys>>
          /\ utxo' = (utxo \ final[s].ins) \cup final[s].outs
          /\ pool' = pool \ {s} /\ mined' = mined \cup {s} /\ seen' = seen \cup {s} /\ s \in pool
      BY <1>8 DEF MineTx, ChainUnchanged, dbVars, slateVars
    <2>2. PICK j \in 1 .. (forks + 1) : mmr' = [k \in Keys |-> IF k \in final[s].outs THEN j ELSE mmr[k]]
      BY <1>8 DEF MineTx
    <2>3. \A k \in Keys : mmr'[k] = 1
      BY <1>0, <2>2 DEF Plain
    <2>4. Plain'
      BY <1>0, <2>1, <2>3 DEF Plain
    <2>5. \A k \in final[s].outs : ~ WasOn(seen, offers, k)
      <3>1. s \notin seen /\ final[s] \in offers[s]
        BY <1>0, <2>1 DEF Plain, ChainInv, PostedFinal, FinalOffered
      <3>2. \A k \in final[s].outs : k \in Keys /\ Offered(offers, s, k)
        BY <3>1 DEF Offered, TypeOK, Transaction
      <3>3. QED
        BY <1>0, <3>1, <3>2, NotYetOnChain
    <2>6. QED
      BY <2>1, <2>4, <2>5, OnceMined
  <1>9. ASSUME NEW s \in Slates, Fork(s) PROVE OnceInv'
    <2>1. forks < 0
      BY <1>9 DEF Fork, Ordinary
    <2>2. QED
      BY <1>0, <2>1
  <1>10. ASSUME NEW k \in Keys, BuildCoinbase(k) \/ MineCoinbase(k) PROVE OnceInv'
    <2>1. cbKeys = {}
      BY <1>0 DEF Plain
    <2>2. ~ (Cardinality(cbKeys) < MaxCoinbase)
      BY <2>1, FS_EmptySet DEF Ordinary
    <2>3. k \notin cbKeys \ utxo
      BY <2>1
    <2>4. ~ BuildCoinbase(k)
      BY <2>2, <2>3, Zenon DEF BuildCoinbase
    <2>5. ~ MineCoinbase(k)
      BY <2>3, Zenon DEF MineCoinbase
    <2>6. QED
      BY <1>10, <2>4, <2>5
  <1>11. CASE MineEmpty
    BY <1>0, <1>5, <1>11 DEF MineEmpty, ChainUnchanged, dbVars, slateVars, Plain
  <1>12. CASE WatchStep
    BY <1>0, <1>5, <1>12 DEF WatchStep, PollMempool, ReadWatchedEntries, SaveWatchedEntry,
         UpdateMempoolStatus, WatchUnchanged, slateVars, nodeVars, Plain
  <1>13. QED
    BY <1>1, <1>2, <1>3, <1>4, <1>6, <1>7, <1>8, <1>9, <1>10, <1>11, <1>12
       DEF FinalizeTx, FinalizeInvoiceTx

\* An update that is not repairing carries no rows.
LEMMA QuietOnce ==
  ASSUME NEW U, NEW S, NEW T, NEW O, NEW C, NEW v,
         v.idx = {}, v.fix = {}, v.miss = {}, v.locked = {}, v.unconf = {}, v.job # "scan",
         SawMined(S, T, v), OneBefore(O, v)
  PROVE  OutCarry(U, S, T, O, C, v)
  BY DEF OutCarry, ToIndex, ToUnspend, ToAdd, OtherKeys, NoRepair

\* What the scan reads: an output on chain has one row then, which it is matched with.
LEMMA ScanReadOnce ==
  ASSUME Ordinary, TypeOK, OnceInv, NEW p \in Updaters, NEW pref \in Mmr, ScanReadOutputs(p, pref)
  PROVE  \E v : upd' = [upd EXCEPT ![p] = v] /\ OutCarry(utxo, seen, offers, out, ctx, v)
  <1> DEFINE
    u       == upd[p]
    on(r)   == \E q \in u.chain : q[1] = r[1]
    rows    == {r \in Rows : out[r].status # "None"}
    matched == {r \in OneRowPerKey(rows, pref) : on(r)}
    c       == matched \ u.chain
    d       == {r \in matched : out[r].status = "Spent"}
    f       == {r \in matched : out[r].status = "Locked" /\ u.job = "scan"}
    g       == {r \in Rows : out[r].status = "Unconfirmed" /\ u.job = "scan"}
    keep    == c \cup d \cup f \cup g
    a       == {q \in u.chain : \E r \in c : r[1] = q[1]}
    b       == [r \in Rows |-> IF r \in keep THEN out[r] ELSE NoRow]
    e       == {q \in u.chain : \A r \in matched : r[1] # q[1]}
    v       == [u EXCEPT !.pc = "repair", !.chain = a, !.rows = b, !.idx = c, !.fix = d,
                         !.miss = e, !.locked = f, !.unconf = g]
  <1>0. /\ u \in UpdateState /\ u.chain \subseteq Rows /\ u.pc = "wallet" /\ u.job # "scan"
        /\ OutCarry(utxo, seen, offers, out, ctx, u)
    BY DEF TypeOK, UpdateState, ScanReadOutputs, At, OnceInv, OutCarried, OutCarry, NoRepair
  <1>1. upd' = [upd EXCEPT ![p].pc = "repair", ![p].chain = a, ![p].rows = b,
                           ![p].idx = c, ![p].fix = d, ![p].miss = e,
                           ![p].locked = f, ![p].unconf = g]
    BY DEF ScanReadOutputs
  <1>2. matched \subseteq Rows /\ \A r \in matched : on(r) /\ out[r].status # "None"
    BY DEF OneRowPerKey
  <1>3. /\ \A r \in Rows : r[1] \in Keys /\ r[2] \in {0, 1} /\ r = <<r[1], r[2]>>
        /\ \A k \in Keys : <<k, 0>> \in Rows /\ <<k, 1>> \in Rows
    BY TwoPositions
  <1>4. \A q \in u.chain : /\ q[2] = 1 /\ WasOn(seen, offers, q[1])
                           /\ ~ (Has(out, q[1], 0) /\ Has(out, q[1], 1))
    BY <1>0 DEF OutCarry, SawMined, OneBefore
  <1>5. \A q \in u.chain : \A r, x \in rows : r[1] = q[1] /\ x[1] = q[1] => r = x
    <2> SUFFICES ASSUME NEW q \in u.chain, NEW r \in rows, NEW x \in rows, r[1] = q[1], x[1] = q[1]
                 PROVE  r = x
      OBVIOUS
    <2>1. r \in Rows /\ x \in Rows /\ out[r].status # "None" /\ out[x].status # "None"
      OBVIOUS
    <2>2. r = <<q[1], r[2]>> /\ x = <<q[1], x[2]>> /\ r[2] \in {0, 1} /\ x[2] \in {0, 1}
      BY <1>3, <2>1
    <2>3. r[2] # x[2] => Has(out, q[1], 0) /\ Has(out, q[1], 1)
      <3>1. ASSUME r[2] = 0, x[2] = 1 PROVE Has(out, q[1], 0) /\ Has(out, q[1], 1)
        <4>1. r = <<q[1], 0>> /\ x = <<q[1], 1>>
          BY <2>2, <3>1
        <4>2. QED
          BY <2>1, <4>1 DEF Has
      <3>2. ASSUME r[2] = 1, x[2] = 0 PROVE Has(out, q[1], 0) /\ Has(out, q[1], 1)
        <4>1. r = <<q[1], 1>> /\ x = <<q[1], 0>>
          BY <2>2, <3>2
        <4>2. QED
          BY <2>1, <4>1 DEF Has
      <3>3. QED
        BY <2>2, <3>1, <3>2
    <2>4. QED
      BY <1>4, <2>2, <2>3
  <1>6. \A r \in matched : /\ r \in rows /\ WasOn(seen, offers, r[1])
                           /\ ~ (Has(out, r[1], 0) /\ Has(out, r[1], 1))
    <2>1. \A r \in matched : r \in rows
      BY <1>2
    <2>2. QED
      BY <1>2, <1>4, <2>1
  <1>7. \A r, q \in matched : r[1] = q[1] => r = q
    BY <1>2, <1>5, <1>6
  <1>8. \A r \in c : r[2] = 0
    <2> SUFFICES ASSUME NEW r \in c, r[2] = 1 PROVE FALSE
      BY <1>2, <1>3
    <2>1. PICK q \in u.chain : q[1] = r[1]
      BY <1>2
    <2>2. r = <<r[1], 1>> /\ q = <<q[1], q[2]>> /\ q[2] = 1
      BY <1>0, <1>2, <1>3, <1>4
    <2>3. QED
      BY <2>1, <2>2
  <1>9. \A r \in Rows : r \in keep => b[r] = out[r]
    <2> HIDE DEF keep
    <2> QED OBVIOUS
  <1>10. ASSUME NEW q \in e, NEW r \in Rows, r[1] = q[1]
         PROVE  out[r].status = "None"
    <2>1. SUFFICES ASSUME out[r].status # "None" PROVE FALSE
      OBVIOUS
    <2>2. r \in rows /\ \A x \in rows : x[1] = r[1] => x = r
      BY <1>5, <1>10, <2>1
    <2>3. (r[2] - pref) % (MaxMmr + 1) <= (r[2] - pref) % (MaxMmr + 1)
      <3>1. r[2] \in Int /\ pref \in Int /\ MaxMmr + 1 \in Int /\ MaxMmr + 1 > 0
        BY ConstantsAssumption DEF Rows, Mmr, MaxMmr
      <3>2. QED
        BY <3>1
    <2>4. r \in OneRowPerKey(rows, pref)
      <3> HIDE DEF rows
      <3>1. QED
        BY <2>2, <2>3 DEF OneRowPerKey
    <2>5. r \in matched
      BY <1>10, <2>4
    <2>6. QED
      BY <1>10, <2>5
  <1>11. /\ c \subseteq matched /\ d \subseteq matched /\ e \subseteq u.chain /\ a \subseteq u.chain
         /\ c \subseteq keep /\ d \subseteq keep /\ f = {} /\ g = {}
    BY <1>0
  <1>12. (\A r \in d : out[r].status = "Spent") /\ (\A q \in e : \A r \in matched : r[1] # q[1])
    OBVIOUS
  <1> HIDE DEF a, b, c, d, e, f, g, keep, matched, rows
  <1>13. upd' = [upd EXCEPT ![p] = v]
    BY <1>1 DEF TypeOK
  <1>14. /\ v.pc = "repair" /\ v.chain = a /\ v.rows = b /\ v.job = u.job /\ v.idx = c /\ v.fix = d
         /\ v.miss = e /\ v.locked = f /\ v.unconf = g
    BY <1>0 DEF UpdateState
  <1> HIDE DEF v
  <1>15. SawMined(seen, offers, v) /\ OneBefore(out, v)
    BY <1>4, <1>11, <1>14 DEF SawMined, OneBefore
  <1>16. \A r \in Rows : RowOnce(utxo, seen, offers, r, out[r])
    BY DEF OnceInv, TableInv, RowsOnce
  <1>17. ToIndex(utxo, seen, offers, v)
    <2> SUFFICES ASSUME NEW r \in c
                 PROVE  /\ r[2] = 0 /\ WasOn(seen, offers, r[1]) /\ ~ b[r].cb
                        /\ b[r].status = "Spent" => Gone(utxo, seen, offers, r[1])
      BY <1>14 DEF ToIndex
    <2>1. r \in Rows /\ b[r] = out[r] /\ r \in matched
      BY <1>2, <1>9, <1>11
    <2>2. QED
      BY <1>6, <1>8, <1>16, <2>1 DEF RowOnce
  <1>18. ToUnspend(utxo, seen, offers, out, ctx, v)
    <2> SUFFICES ASSUME NEW r \in d
                 PROVE  /\ Gone(utxo, seen, offers, r[1]) /\ b[r].status = "Spent" /\ ~ b[r].cb
                        /\ (r[2] = 0 => /\ out[<<r[1], 1>>].status \in {"None", "Spent"}
                                        /\ \A s \in Slates : <<r[1], 1>> \notin ctx[s].ins)
                        /\ (r[2] = 1 => ~ Has(out, r[1], 0))
      BY <1>14 DEF ToUnspend
    <2>1. r \in Rows /\ b[r] = out[r] /\ r \in matched /\ out[r].status = "Spent"
      BY <1>2, <1>9, <1>11, <1>12
    <2>2. ~ out[r].cb /\ Gone(utxo, seen, offers, r[1])
      BY <1>16, <2>1 DEF RowOnce
    <2>3. r = <<r[1], r[2]>>
      BY <1>3, <2>1
    <2>4. ~ (Has(out, r[1], 0) /\ Has(out, r[1], 1))
      BY <1>6, <2>1
    <2>5. ASSUME r[2] = 1 PROVE ~ Has(out, r[1], 0)
      <3>1. r = <<r[1], 1>>
        BY <2>3, <2>5
      <3>2. QED
        BY <2>1, <2>4, <3>1 DEF Has
    <2>6. ASSUME r[2] = 0
          PROVE  /\ out[<<r[1], 1>>].status = "None"
                 /\ \A s \in Slates : <<r[1], 1>> \notin ctx[s].ins
      <3>1. r = <<r[1], 0>>
        BY <2>3, <2>6
      <3>2. Has(out, r[1], 0)
        BY <2>1, <3>1 DEF Has
      <3>3. \A s \in Slates : \A x \in ctx[s].ins : x[2] = 1 => ~ Has(out, x[1], 0)
        BY DEF OnceInv, TableInv, CtxRows, CtxRow
      <3>4. QED
        BY <2>4, <3>2, <3>3 DEF Has
    <2>7. QED
      BY <2>1, <2>2, <2>5, <2>6
  <1>19. ToAdd(out, v)
    <2>1. \A q \in e : q[1] \in Keys
      BY <1>0, <1>3, <1>11
    <2>2. \A q \in e : ~ Has(out, q[1], 0) /\ ~ Has(out, q[1], 1)
      BY <1>3, <1>10, <2>1 DEF Has
    <2>3. QED
      BY <1>11, <1>12, <1>14, <2>2 DEF ToAdd
  <1>20. OtherKeys(v) /\ NoRepair(v)
    BY <1>0, <1>7, <1>11, <1>14 DEF OtherKeys, NoRepair
  <1>21. QED
    BY <1>13, <1>15, <1>17, <1>18, <1>19, <1>20 DEF OutCarry

\* A scan renames a row: its output has no other then, but perhaps one it marks unspent
\* next, which is this one.
LEMMA IndexOnce ==
  ASSUME Ordinary, TypeOK, OnceInv, NEW p \in Updaters, NEW r \in Rows, ScanIndexOutput(p, r),
         UNCHANGED <<utxo, seen, offers, ctx>>
  PROVE  /\ TableInv'
         /\ \E v : upd' = [upd EXCEPT ![p] = v] /\ OutCarry(utxo, seen, offers, out', ctx, v)
  <1> DEFINE u == upd[p]
             v == [u EXCEPT !.idx = @ \ {r}]
  <1>0. /\ u \in UpdateState /\ u.chain \subseteq Rows /\ r \in u.idx /\ u.pc = "repair"
        /\ u.fix \subseteq Rows /\ u.idx \subseteq Rows /\ u.miss \subseteq Rows
        /\ OutCarry(utxo, seen, offers, out, ctx, u)
    BY DEF TypeOK, UpdateState, ScanIndexOutput, At, OnceInv, OutCarried
  <1>1. PICK q \in u.chain : /\ q[1] = r[1]
                             /\ out' = [out EXCEPT ![r] = IF r[2] = 0 THEN NoRow ELSE @, ![q] = u.rows[r]]
    BY DEF ScanIndexOutput
  <1>2. upd' = [upd EXCEPT ![p] = v]
    BY DEF ScanIndexOutput, TypeOK
  <1>3. /\ v.pc = u.pc /\ v.chain = u.chain /\ v.rows = u.rows /\ v.job = u.job /\ v.idx = u.idx \ {r}
        /\ v.fix = u.fix /\ v.miss = u.miss /\ v.locked = u.locked /\ v.unconf = u.unconf
    BY <1>0 DEF UpdateState
  <1> HIDE DEF v
  <1>4. /\ \A x \in Rows : x[1] \in Keys /\ x[2] \in {0, 1} /\ x = <<x[1], x[2]>>
        /\ \A k \in Keys : <<k, 0>> \in Rows /\ <<k, 1>> \in Rows
    BY TwoPositions
  <1>5. /\ r[2] = 0 /\ WasOn(seen, offers, r[1]) /\ ~ u.rows[r].cb
        /\ u.rows[r].status = "Spent" => Gone(utxo, seen, offers, r[1])
        /\ q[2] = 1 /\ q \in Rows
    BY <1>0 DEF OutCarry, ToIndex, SawMined
  <1>6. /\ \A x \in Rows : x # r /\ x # q => out'[x] = out[x]
        /\ out'[q] = u.rows[r] /\ out'[r] = NoRow /\ r # q
    BY <1>0, <1>1, <1>5 DEF TypeOK
  <1> DEFINE k == r[1]
  <1>7. k \in Keys /\ r = <<k, 0>> /\ q = <<k, 1>>
    BY <1>1, <1>4, <1>5
  <1>8. NoRow.status = "None" /\ ~ NoRow.cb
    BY DEF NoRow
  <1>9. /\ ~ Has(out', k, 0)
        /\ \A j \in Keys : j # k => out'[<<j, 0>>] = out[<<j, 0>>] /\ out'[<<j, 1>>] = out[<<j, 1>>]
    <2>1. \A j \in Keys : j # k => <<j, 0>> # r /\ <<j, 0>> # q /\ <<j, 1>> # r /\ <<j, 1>> # q
      BY <1>7
    <2>2. QED
      BY <1>4, <1>6, <1>7, <1>8, <2>1 DEF Has
  <1>10. \A j \in Keys : /\ Has(out', j, 0) => j # k /\ Has(out, j, 0)
                         /\ j # k => (Has(out', j, 1) <=> Has(out, j, 1))
    BY <1>9 DEF Has
  <1> HIDE DEF u, k
  <1>11. TableInv'
    <2>1. \A x \in Rows : RowOnce(utxo, seen, offers, x, out[x])
      BY DEF OnceInv, TableInv, RowsOnce
    <2>2. RowOnce(utxo, seen, offers, q, u.rows[r])
      BY <1>1, <1>5 DEF RowOnce
    <2>3. RowOnce(utxo, seen, offers, r, NoRow)
      BY <1>8 DEF RowOnce
    <2>4. RowsOnce'
      BY <1>6, <2>1, <2>2, <2>3 DEF RowsOnce
    <2>5. SecondSpent(out')
      BY <1>9, <1>10 DEF OnceInv, TableInv, SecondSpent
    <2>6. \A s \in Slates : \A x \in ctx[s].ins : /\ CtxRow(seen, offers, out, x) /\ x[1] \in Keys
      BY <1>4 DEF OnceInv, TableInv, CtxRows, TypeOK, Context
    <2>7. CtxRows'
      BY <1>10, <2>6 DEF CtxRows, CtxRow
    <2>8. QED
      BY <2>4, <2>5, <2>7 DEF TableInv
  <1>12. OutCarry(utxo, seen, offers, out', ctx, v)
    <2>1. SawMined(seen, offers, v) /\ OneBefore(out', v)
      BY <1>0, <1>3 DEF OutCarry, SawMined, OneBefore
    <2>2. ToIndex(utxo, seen, offers, v)
      BY <1>0, <1>3 DEF OutCarry, ToIndex
    <2>3. ToUnspend(utxo, seen, offers, out', ctx, v)
      <3> SUFFICES ASSUME NEW x \in u.fix
                   PROVE  /\ Gone(utxo, seen, offers, x[1]) /\ u.rows[x].status = "Spent" /\ ~ u.rows[x].cb
                          /\ (x[2] = 0 => /\ out'[<<x[1], 1>>].status \in {"None", "Spent"}
                                          /\ \A s \in Slates : <<x[1], 1>> \notin ctx[s].ins)
                          /\ (x[2] = 1 => ~ Has(out', x[1], 0))
        BY <1>3 DEF ToUnspend
      <3>1. /\ Gone(utxo, seen, offers, x[1]) /\ u.rows[x].status = "Spent" /\ ~ u.rows[x].cb
            /\ (x[2] = 0 => /\ out[<<x[1], 1>>].status \in {"None", "Spent"}
                            /\ \A s \in Slates : <<x[1], 1>> \notin ctx[s].ins)
            /\ (x[2] = 1 => ~ Has(out, x[1], 0))
        BY <1>0 DEF OutCarry, ToUnspend
      <3>2. x[1] \in Keys
        BY <1>0, <1>4
      <3>3. x[2] = 1 => ~ Has(out', x[1], 0)
        BY <1>10, <3>1, <3>2
      <3>4. ASSUME x[2] = 0 PROVE out'[<<x[1], 1>>].status \in {"None", "Spent"}
        <4>1. CASE x[1] # k
          BY <1>9, <3>1, <3>2, <3>4, <4>1
        <4>2. CASE x[1] = k
          <5>1. x = r
            BY <1>0, <4>2 DEF OutCarry, OtherKeys, k
          <5>2. out'[<<x[1], 1>>] = u.rows[x]
            BY <1>6, <1>7, <4>2, <5>1
          <5>3. QED
            BY <3>1, <5>2
        <4>3. QED
          BY <4>1, <4>2
      <3>5. QED
        BY <3>1, <3>3, <3>4
    <2>4. ToAdd(out', v)
      <3>1. \A x \in u.miss : x[1] # k /\ x[1] \in Keys /\ ~ Has(out, x[1], 0) /\ ~ Has(out, x[1], 1)
        BY <1>0, <1>4 DEF OutCarry, ToAdd, k
      <3>2. \A x \in u.miss : ~ Has(out', x[1], 0) /\ ~ Has(out', x[1], 1)
        BY <1>10, <3>1
      <3>3. QED
        BY <1>0, <1>3, <3>2 DEF OutCarry, ToAdd
    <2>5. OtherKeys(v)
      BY <1>0, <1>3 DEF OutCarry, OtherKeys
    <2>6. NoRepair(v)
      BY <1>0, <1>3 DEF OutCarry, NoRepair
    <2>7. QED
      BY <2>1, <2>2, <2>3, <2>4, <2>5, <2>6 DEF OutCarry
  <1>13. QED
    BY <1>2, <1>11, <1>12

\* A scan saves a spent row as unspent, or adds the row of an output that has none: of a key
\* that no slate has selected in its second position.
LEMMA SavedOnce ==
  ASSUME Ordinary, TypeOK, OnceInv, NEW p \in Updaters, NEW r \in Rows, NEW v, NEW o,
         upd[p].pc = "repair", upd[p].idx = {}, UNCHANGED <<utxo, seen, offers, ctx>>,
         v.pc = upd[p].pc, v.rows = upd[p].rows, v.chain = upd[p].chain, v.job = upd[p].job,
         v.idx = upd[p].idx, v.locked = upd[p].locked, v.unconf = upd[p].unconf,
         \/ /\ r \in upd[p].fix /\ v.fix = upd[p].fix \ {r} /\ v.miss = upd[p].miss
            /\ o.cb = upd[p].rows[r].cb
         \/ /\ r \in upd[p].miss /\ upd[p].fix = {} /\ v.fix = {} /\ v.miss = upd[p].miss \ {r}
            /\ o.cb = FALSE,
         o.status = "Unspent", out' = [out EXCEPT ![r] = o]
  PROVE  TableInv' /\ OutCarry(utxo, seen, offers, out', ctx, v)
  <1> DEFINE u == upd[p]
             k == r[1]
  <1>0. /\ u.fix \subseteq Rows /\ u.miss \subseteq Rows
        /\ OutCarry(utxo, seen, offers, out, ctx, u)
    BY DEF TypeOK, UpdateState, OnceInv, OutCarried
  <1>1. /\ \A x \in Rows : x[1] \in Keys /\ x[2] \in {0, 1} /\ x = <<x[1], x[2]>>
        /\ \A j \in Keys : <<j, 0>> \in Rows /\ <<j, 1>> \in Rows
    BY TwoPositions
  <1>2. out'[r] = o /\ \A x \in Rows : x # r => out'[x] = out[x]
    BY DEF TypeOK
  <1>3. k \in Keys /\ r = <<k, r[2]>> /\ r[2] \in {0, 1}
    BY <1>1
  <1> HIDE DEF u
  <1>4. \/ /\ r \in u.fix /\ v.fix = u.fix \ {r} /\ v.miss = u.miss
           /\ o.cb = u.rows[r].cb
        \/ /\ r \in u.miss /\ u.fix = {} /\ v.fix = {} /\ v.miss = u.miss \ {r}
           /\ o.cb = FALSE
    BY DEF u
  <1>5. /\ ~ o.cb /\ WasOn(seen, offers, k)
        /\ (r[2] = 0 => /\ out[<<k, 1>>].status \in {"None", "Spent"}
                        /\ \A s \in Slates : <<k, 1>> \notin ctx[s].ins)
        /\ (r[2] = 1 => ~ Has(out, k, 0))
    <2>1. CASE r \in u.fix
      <3>1. /\ Gone(utxo, seen, offers, k) /\ ~ u.rows[r].cb
            /\ (r[2] = 0 => /\ out[<<k, 1>>].status \in {"None", "Spent"}
                            /\ \A s \in Slates : <<k, 1>> \notin ctx[s].ins)
            /\ (r[2] = 1 => ~ Has(out, k, 0))
        BY <1>0, <2>1 DEF OutCarry, ToUnspend
      <3>2. ~ o.cb
        BY <1>4, <2>1, <3>1
      <3>3. QED
        BY <3>1, <3>2 DEF Gone
    <2>2. CASE r \in u.miss /\ u.fix = {}
      <3>1. r[2] = 1 /\ WasOn(seen, offers, k) /\ ~ Has(out, k, 0)
        BY <1>0, <2>2 DEF OutCarry, SawMined, ToAdd
      <3>2. ~ o.cb
        BY <1>4, <2>2
      <3>3. QED
        BY <3>1, <3>2
    <2>3. QED
      BY <1>4, <2>1, <2>2
  <1>6. \A j \in Keys : j # k => out'[<<j, 0>>] = out[<<j, 0>>] /\ out'[<<j, 1>>] = out[<<j, 1>>]
    BY <1>1, <1>2, <1>3
  <1>7. \/ /\ r[2] = 0 /\ out'[<<k, 1>>] = out[<<k, 1>>]
        \/ /\ r[2] = 1 /\ ~ Has(out', k, 0)
    <2>1. CASE r[2] = 0
      <3>1. r = <<k, 0>> /\ <<k, 1>> \in Rows /\ <<k, 1>> # r
        BY <1>1, <1>3, <2>1
      <3>2. QED
        BY <1>2, <2>1, <3>1
    <2>2. CASE r[2] = 1
      <3>1. r = <<k, 1>> /\ <<k, 0>> \in Rows /\ <<k, 0>> # r
        BY <1>1, <1>3, <2>2
      <3>2. QED
        BY <1>2, <1>5, <2>2, <3>1 DEF Has
    <2>3. QED
      BY <1>3, <2>1, <2>2
  <1> HIDE DEF k
  <1>8. TableInv'
    <2>1. \A x \in Rows : RowOnce(utxo, seen, offers, x, out[x])
      BY DEF OnceInv, TableInv, RowsOnce
    <2>2. RowOnce(utxo, seen, offers, r, o)
      BY <1>5 DEF RowOnce, k
    <2>3. RowsOnce'
      BY <1>2, <2>1, <2>2 DEF RowsOnce
    <2>4. SecondSpent(out')
      <3> SUFFICES ASSUME NEW j \in Keys, Has(out', j, 0), Has(out', j, 1)
                   PROVE  out'[<<j, 1>>].status = "Spent"
        BY DEF SecondSpent
      <3>1. CASE j # k
        BY <1>6, <3>1 DEF OnceInv, TableInv, SecondSpent, Has
      <3>2. CASE j = k
        BY <1>5, <1>7, <3>2 DEF Has
      <3>3. QED
        BY <3>1, <3>2
    <2>5. \A s \in Slates : \A x \in ctx[s].ins :
             CtxRow(seen, offers, out, x) /\ x[1] \in Keys /\ x = <<x[1], x[2]>>
      BY <1>1 DEF OnceInv, TableInv, CtxRows, TypeOK, Context
    <2>6. ASSUME NEW s \in Slates, NEW x \in ctx[s].ins PROVE CtxRow(seen, offers, out', x)
      <3>1. CASE x[1] # k
        BY <1>6, <2>5, <3>1 DEF CtxRow, Has
      <3>2. CASE x[1] = k /\ x[2] = 1 /\ r[2] = 0
        <4>1. x = <<k, 1>>
          BY <2>5, <3>2
        <4>2. QED
          BY <1>5, <3>2, <4>1
      <3>3. CASE x[1] = k /\ (x[2] # 1 \/ r[2] # 0)
        BY <1>7, <2>5, <3>3 DEF CtxRow
      <3>4. QED
        BY <3>1, <3>2, <3>3
    <2>7. QED
      BY <2>3, <2>4, <2>6 DEF TableInv, CtxRows
  <1>9. OutCarry(utxo, seen, offers, out', ctx, v)
    <2>0. /\ v.pc = "repair" /\ v.rows = u.rows /\ v.chain = u.chain /\ v.job = u.job /\ v.idx = {}
          /\ v.locked = u.locked /\ v.unconf = u.unconf /\ v.fix \subseteq u.fix /\ v.miss \subseteq u.miss
          /\ u.idx = {} /\ u.pc = "repair"
      BY <1>4 DEF u
    <2>1. \A x \in v.fix \cup v.miss : x[1] # k /\ x[1] \in Keys
      <3> SUFFICES ASSUME NEW x \in v.fix \cup v.miss PROVE x[1] # k
        BY <1>0, <1>1, <2>0
      <3>1. CASE r \in u.fix /\ v.fix = u.fix \ {r} /\ v.miss = u.miss
        <4>1. x \in v.fix => x # r /\ x \in u.fix
          BY <3>1
        <4>2. x \in v.miss => x \in u.miss
          BY <3>1
        <4>3. QED
          BY <1>0, <3>1, <4>1, <4>2 DEF OutCarry, OtherKeys, ToAdd, k
      <3>2. CASE r \in u.miss /\ u.fix = {} /\ v.fix = {} /\ v.miss = u.miss \ {r}
        <4>1. x \in u.miss /\ x # r
          BY <3>2
        <4>2. x[2] = 1 /\ r[2] = 1
          BY <1>0, <3>2, <4>1 DEF OutCarry, SawMined
        <4>3. x \in Rows
          BY <1>0, <4>1
        <4>4. QED
          BY <1>1, <4>1, <4>2, <4>3 DEF k
      <3>3. QED
        BY <1>4, <3>1, <3>2
    <2>2. SawMined(seen, offers, v) /\ OneBefore(out', v)
      BY <1>0, <2>0 DEF OutCarry, SawMined, OneBefore
    <2>3. ToIndex(utxo, seen, offers, v)
      BY <2>0 DEF ToIndex
    <2>4. ToUnspend(utxo, seen, offers, out', ctx, v)
      <3> SUFFICES ASSUME NEW x \in v.fix
                   PROVE  /\ Gone(utxo, seen, offers, x[1]) /\ u.rows[x].status = "Spent" /\ ~ u.rows[x].cb
                          /\ (x[2] = 0 => /\ out'[<<x[1], 1>>].status \in {"None", "Spent"}
                                          /\ \A s \in Slates : <<x[1], 1>> \notin ctx[s].ins)
                          /\ (x[2] = 1 => ~ Has(out', x[1], 0))
        BY <2>0 DEF ToUnspend
      <3>1. /\ Gone(utxo, seen, offers, x[1]) /\ u.rows[x].status = "Spent" /\ ~ u.rows[x].cb
            /\ (x[2] = 0 => /\ out[<<x[1], 1>>].status \in {"None", "Spent"}
                            /\ \A s \in Slates : <<x[1], 1>> \notin ctx[s].ins)
            /\ (x[2] = 1 => ~ Has(out, x[1], 0))
        BY <1>0, <2>0 DEF OutCarry, ToUnspend
      <3>2. out'[<<x[1], 0>>] = out[<<x[1], 0>>] /\ out'[<<x[1], 1>>] = out[<<x[1], 1>>]
        BY <1>6, <2>1
      <3>3. QED
        BY <3>1, <3>2 DEF Has
    <2>5. ToAdd(out', v)
      <3>1. \A x \in v.miss : out'[<<x[1], 0>>] = out[<<x[1], 0>>] /\ out'[<<x[1], 1>>] = out[<<x[1], 1>>]
        BY <1>6, <2>1
      <3>2. \A x \in u.miss : /\ ~ Has(out, x[1], 0) /\ ~ Has(out, x[1], 1)
                            /\ \A y \in u.idx \cup u.fix : y[1] # x[1]
        BY <1>0 DEF OutCarry, ToAdd
      <3>3. \A x \in v.miss : ~ Has(out', x[1], 0) /\ ~ Has(out', x[1], 1)
        <4> SUFFICES ASSUME NEW x \in v.miss PROVE ~ Has(out', x[1], 0) /\ ~ Has(out', x[1], 1)
          OBVIOUS
        <4>1. ~ Has(out, x[1], 0) /\ ~ Has(out, x[1], 1)
          BY <2>0, <3>2
        <4>2. QED
          BY <3>1, <4>1 DEF Has
      <3>4. v.idx \cup v.fix \subseteq u.idx \cup u.fix
        BY <2>0
      <3>5. QED
        BY <2>0, <3>2, <3>3, <3>4 DEF ToAdd
    <2>6. OtherKeys(v) /\ NoRepair(v)
      <3>1. v.idx \cup v.fix \subseteq u.idx \cup u.fix
        BY <2>0
      <3>2. OtherKeys(v)
        BY <1>0, <3>1 DEF OutCarry, OtherKeys
      <3>3. NoRepair(v)
        BY <1>0, <2>0 DEF OutCarry, NoRepair
      <3>4. QED
        BY <3>2, <3>3
    <2>7. QED
      BY <2>2, <2>3, <2>4, <2>5, <2>6 DEF OutCarry
  <1>10. QED
    BY <1>8, <1>9

\* The steps of an update.
LEMMA UpdateOnce ==
  ASSUME Ordinary, OneUpdater, TypeOK, TypeOK', KeyInv, ChainInv, OnceInv, NEW p \in Updaters,
         \/ UpdateStep(p) \/ UpdateFails(p)
         \/ \E i \in LogIds, pref \in Mmr : StartCancel(p, i, pref)
         \/ \E pref \in Mmr : StartScan(p, pref)
  PROVE  OnceInv'
  <1> DEFINE u == upd[p]
             Ok(O, v) == OutCarry(utxo, seen, offers, O, ctx, v)
             NoSets(v) == v.idx = {} /\ v.fix = {} /\ v.miss = {} /\ v.locked = {} /\ v.unconf = {}
  <1>0. /\ u \in UpdateState /\ Plain /\ TableInv /\ Ok(out, u)
        /\ u.found <= nextChild /\ u.found \in Int /\ nextChild \in Int
        /\ seen \subseteq seen /\ Repair = FALSE
    BY DEF OnceInv, OutCarried, KeyInv, ScanKeys, UpdBelow, TypeOK, UpdateState, Ordinary
  <1>1. UNCHANGED <<utxo, seen, offers, ctx, cbKeys, pool, mined, mmr>>
    BY UpdateKeys DEF slateVars, nodeVars
  <1>2. ASSUME NEW v, upd' = [upd EXCEPT ![p] = v], Ok(out', v), TableInv' PROVE OnceInv'
    <2>1. Plain'
      BY <1>0, <1>1 DEF Plain
    <2>2. ASSUME NEW q \in Updaters PROVE OutCarry(utxo', seen', offers', out', ctx', upd'[q])
      <3>1. q = p
        BY DEF OneUpdater
      <3>2. upd'[q] = v
        BY <1>2, <3>1 DEF TypeOK
      <3>3. QED
        BY <1>1, <1>2, <3>2
    <2>3. QED
      BY <1>2, <2>1, <2>2 DEF OnceInv, OutCarried
  <1>3. out' = out => TableInv'
    <2> SUFFICES ASSUME out' = out PROVE TableInv'
      OBVIOUS
    <2>1. RowsOnce' /\ SecondSpent(out') /\ CtxRows'
      BY <1>0, <1>1 DEF TableInv, RowsOnce, CtxRows
    <2>2. QED
      BY <2>1 DEF TableInv
  <1>4. ASSUME NEW O, NEW v, NoSets(v), v.job # "scan", v.pc # "wallet", v.chain = u.chain \/ v.chain = {}
        PROVE  Ok(O, v)
    <2>1. SawMined(seen, offers, v)
      BY <1>0, <1>4 DEF OutCarry, SawMined
    <2>2. OneBefore(O, v)
      BY <1>4 DEF OneBefore
    <2>3. QED
      BY <1>4, <2>1, <2>2, QuietOnce
  <1>5. u.pc # "repair" => NoSets(u) /\ u.job # "scan"
    BY <1>0 DEF OutCarry, NoRepair
  <1>6. ASSUME NEW O PROVE Ok(O, UpdateIdle) /\ Ok(O, AfterScan(p))
    <2>1. /\ NoSets(UpdateIdle) /\ UpdateIdle.job = "update" /\ UpdateIdle.pc = "idle" /\ UpdateIdle.chain = {}
      BY DEF UpdateIdle
    <2>2. Ok(O, UpdateIdle)
      <3> HIDE DEF Ok
      <3> QED BY <1>4, <2>1
    <2>3. u.job # "scan"
      BY <1>0 DEF OutCarry, NoRepair
    <2>4. /\ NoSets(AfterScan(p)) /\ AfterScan(p).job = u.job /\ AfterScan(p).pc = "expire"
          /\ AfterScan(p).chain = {}
      BY <2>3 DEF AfterScan, UpdateIdle
    <2>5. Ok(O, AfterScan(p))
      <3> HIDE DEF Ok, u
      <3> QED BY <1>4, <2>3, <2>4
    <2>6. QED
      BY <2>2, <2>5
  <1>7. ASSUME \A r \in Rows : \/ out'[r] = out[r]
                               \/ out'[r] = NoRow /\ out[r].status = "Unconfirmed"
                               \/ out'[r] = [out[r] EXCEPT !.status = "Unspent"] /\ out[r].status = "Locked"
                               \/ /\ RowOnce(utxo, seen, offers, r, out'[r])
                                  /\ out'[r].status = "None" <=> out[r].status = "None"
                                  /\ out[r].status \in {"None", "Spent"} => out'[r] = out[r]
        PROVE  TableInv' /\ Ok(out', u)
    <2>1. \A r \in Rows : /\ [out[r] EXCEPT !.status = "Unspent"].cb = out[r].cb
                          /\ [out[r] EXCEPT !.status = "Unspent"].status = "Unspent"
      BY DEF TypeOK, OutputData
    <2>2. NoRow.status = "None" /\ ~ NoRow.cb
      BY DEF NoRow
    <2>3. \A r \in Rows : RowOnce(utxo, seen, offers, r, out[r])
      BY <1>0 DEF TableInv, RowsOnce
    <2>4. \A r \in Rows : /\ RowOnce(utxo, seen, offers, r, out'[r])
                          /\ out'[r].status # "None" => out[r].status # "None"
                          /\ out[r].status \in {"None", "Spent"} => out'[r] = out[r]
      BY <1>7, <2>1, <2>2, <2>3 DEF RowOnce
    <2>5. \A r \in Rows : RowOnce(utxo', seen', offers', r, out'[r])
      BY <1>1, <2>4
    <2>6. /\ seen \subseteq seen' /\ \A s \in Slates : offers[s] \subseteq offers'[s]
          /\ \A k \in utxo' : k \in utxo \/ ~ WasOn(seen, offers, k)
      BY <1>1
    <2>7. \A r \in Rows : out'[r].status # "None" =>
            out[r].status # "None" \/ (r[2] = 0 /\ ~ WasOn(seen, offers, r[1]))
      BY <2>4
    <2>8. \A r \in Rows : r[2] = 1 /\ out[r].status \in {"None", "Spent"} =>
            out'[r].status \in {"None", "Spent"} \/ \E s \in Slates : r \in ctx[s].ins
      BY <2>4
    <2>9. \A s \in Slates : \A r \in ctx'[s].ins :
            \/ r \in ctx[s].ins
            \/ r \in Rows /\ WasOn(seen', offers', r[1]) /\ out[r].status \notin {"None", "Spent"}
      BY <1>1
    <2> HIDE DEF u
    <2>10. /\ TableInv'
           /\ \A w \in UpdateState : OutCarry(utxo, seen, offers, out, ctx, w)
                                     => OutCarry(utxo', seen', offers', out', ctx', w)
      BY <1>0, <2>5, <2>6, <2>7, <2>8, <2>9, TableKept
    <2>11. QED
      BY <1>0, <1>1, <2>10
  <1> HIDE DEF Ok
  <1>9. ASSUME NEW job, NEW goal, NEW pref \in Mmr, UpdateOutputs(p, job, goal, pref), job # "scan"
        PROVE  OnceInv'
    <2> DEFINE m == MapWalletOutputs(pref)
               c == IF job = "scan" THEN "chain" ELSE "outstanding"
               v == [u EXCEPT !.pc = c, !.job = job, !.goal = goal]
    <2>1. u.pc # "repair"
      BY <1>9 DEF UpdateOutputs, At
    <2>2. PICK ids \in CoinbaseIds(m) : RefreshOutputs(m, ids)
      BY <1>9 DEF UpdateOutputs
    <2>3. upd' = [upd EXCEPT ![p] = v]
      BY <1>9 DEF UpdateOutputs, TypeOK
    <2>4. m \in SUBSET Rows
      BY MapType
    <2>5. \A r \in Rows : out'[r] = RefreshedOut(m, ids)[r]
      BY <2>2 DEF RefreshOutputs
    <2> HIDE DEF m
    <2>6. \A r \in Rows : /\ RowOnce(utxo, seen, offers, r, out'[r])
                          /\ out'[r].status = "None" <=> out[r].status = "None"
                          /\ out[r].status \in {"None", "Spent"} => out'[r] = out[r]
      BY <1>0, <2>4, <2>5, RefreshOnce DEF TableInv
    <2>7. TableInv'
      BY <1>7, <2>6
    <2>8. /\ v.chain = u.chain /\ v.idx = u.idx /\ v.fix = u.fix /\ v.miss = u.miss
          /\ v.locked = u.locked /\ v.unconf = u.unconf /\ v.job = job /\ v.pc = c
      BY <1>0 DEF UpdateState
    <2>9. c # "wallet"
      OBVIOUS
    <2> HIDE DEF v, u, c
    <2>10. Ok(out', v)
      BY <1>4, <1>5, <1>9, <2>1, <2>8, <2>9
    <2>11. QED
      BY <1>2, <2>3, <2>7, <2>10
  <1>10. CASE RetrieveOutstanding(p)
    <2> DEFINE os == {i \in LogIds : Outstanding(txlog[i])}
               f  == [i \in LogIds |-> IF i \in os THEN txlog[i] ELSE NoEntry]
               v  == [u EXCEPT !.pc = "kernels", !.todo = os, !.txs = f]
    <2>1. upd' = [upd EXCEPT ![p] = v] /\ out' = out /\ u.pc # "repair"
      BY <1>10 DEF RetrieveOutstanding, TypeOK, dbVars, At
    <2> HIDE DEF os, f
    <2>2. /\ v.chain = u.chain /\ v.idx = u.idx /\ v.fix = u.fix /\ v.miss = u.miss
          /\ v.locked = u.locked /\ v.unconf = u.unconf /\ v.job = u.job /\ v.pc = "kernels"
      BY <1>0 DEF UpdateState
    <2> HIDE DEF v, u
    <2>3. Ok(out', v)
      BY <1>4, <1>5, <2>1, <2>2
    <2>4. QED
      BY <1>2, <1>3, <2>1, <2>3
  <1>11. CASE UpdateTxViaKernel(p)
    <2> DEFINE i == Least(u.todo)
               c == [u.txs[i] EXCEPT !.confirmed = TRUE]
               v == [u EXCEPT !.todo = @ \ {i}]
               w == [u EXCEPT !.todo = @ \ {i}, !.txs[i] = c]
    <2>1. out' = out /\ u.pc = "kernels"
      BY <1>11 DEF UpdateTxViaKernel, At
    <2>2. upd' = [upd EXCEPT ![p] = v] \/ upd' = [upd EXCEPT ![p] = w]
      BY <1>11 DEF UpdateTxViaKernel, TypeOK
    <2>3. /\ v.chain = u.chain /\ v.idx = u.idx /\ v.fix = u.fix /\ v.miss = u.miss
          /\ v.locked = u.locked /\ v.unconf = u.unconf /\ v.job = u.job /\ v.pc = u.pc
      BY <1>0 DEF UpdateState
    <2>4. /\ w.chain = u.chain /\ w.idx = u.idx /\ w.fix = u.fix /\ w.miss = u.miss
          /\ w.locked = u.locked /\ w.unconf = u.unconf /\ w.job = u.job /\ w.pc = u.pc
      BY <1>0 DEF UpdateState
    <2> HIDE DEF v, w, c, i, u
    <2>5. Ok(out', v) /\ Ok(out', w)
      BY <1>4, <1>5, <2>1, <2>3, <2>4
    <2>6. QED
      BY <1>2, <1>3, <2>1, <2>2, <2>5
  <1>12. CASE KernelsDone(p)
    <2> DEFINE v == [u EXCEPT !.pc = "chain"]
    <2>1. upd' = [upd EXCEPT ![p] = v] /\ out' = out /\ u.pc # "repair"
      BY <1>12 DEF KernelsDone, TypeOK, dbVars, At
    <2>2. /\ v.chain = u.chain /\ v.idx = u.idx /\ v.fix = u.fix /\ v.miss = u.miss
          /\ v.locked = u.locked /\ v.unconf = u.unconf /\ v.job = u.job /\ v.pc = "chain"
      BY <1>0 DEF UpdateState
    <2> HIDE DEF v, u
    <2>3. Ok(out', v)
      BY <1>4, <1>5, <2>1, <2>2
    <2>4. QED
      BY <1>2, <1>3, <2>1, <2>3
  <1>13. CASE CollectChainOutputs(p)
    <2> DEFINE a == {<<k, mmr[k]>> : k \in utxo}
               v == [u EXCEPT !.pc = "wallet", !.tip = tip, !.chain = a]
    <2>1. upd' = [upd EXCEPT ![p] = v] /\ out' = out /\ u.pc # "repair"
      BY <1>13 DEF CollectChainOutputs, TypeOK, dbVars, At
    <2>2. \A q \in a : q[1] \in utxo /\ q[1] \in Keys /\ q[2] = 1
      BY <1>0 DEF TypeOK, Plain
    <2>3. \A k \in utxo : WasOn(seen, offers, k)
      BY <1>0 DEF ChainInv, UtxoMinted, Plain, WasOn
    <2>4. \A k \in utxo : ~ (Has(out, k, 0) /\ Has(out, k, 1))
      <3> SUFFICES ASSUME NEW k \in utxo, Has(out, k, 0), Has(out, k, 1) PROVE FALSE
        OBVIOUS
      <3>1. k \in Keys
        BY DEF TypeOK
      <3>2. <<k, 1>> \in Rows /\ out[<<k, 1>>].status = "Spent"
        BY <1>0, <3>1, TwoPositions DEF TableInv, SecondSpent
      <3>3. RowOnce(utxo, seen, offers, <<k, 1>>, out[<<k, 1>>])
        BY <1>0, <3>2 DEF TableInv, RowsOnce
      <3>4. QED
        BY <3>2, <3>3 DEF RowOnce, Gone
    <2> HIDE DEF a
    <2>5. /\ v.chain = a /\ v.idx = u.idx /\ v.fix = u.fix /\ v.miss = u.miss
          /\ v.locked = u.locked /\ v.unconf = u.unconf /\ v.job = u.job
      BY <1>0 DEF UpdateState
    <2> HIDE DEF v, u
    <2>6. NoSets(v) /\ v.job # "scan"
      BY <1>5, <2>1, <2>5
    <2>7. SawMined(seen, offers, v) /\ OneBefore(out', v)
      BY <2>1, <2>2, <2>3, <2>4, <2>5, <2>6 DEF SawMined, OneBefore
    <2>8. Ok(out', v)
      BY <2>6, <2>7, QuietOnce DEF Ok
    <2>9. QED
      BY <1>2, <1>3, <2>1, <2>8
  <1>14. ASSUME NEW pref \in Mmr, ScanReadOutputs(p, pref) PROVE OnceInv'
    <2>1. PICK v : upd' = [upd EXCEPT ![p] = v] /\ Ok(out, v)
      BY <1>14, ScanReadOnce DEF Ok
    <2>2. out' = out
      BY <1>14 DEF ScanReadOutputs, dbVars
    <2>3. QED
      BY <1>2, <1>3, <2>1, <2>2
  <1>15. ASSUME NEW r \in Rows, ScanIndexOutput(p, r) PROVE OnceInv'
    <2>1. TableInv' /\ \E v : upd' = [upd EXCEPT ![p] = v] /\ Ok(out', v)
      BY <1>1, <1>15, IndexOnce DEF Ok
    <2>2. QED
      BY <1>2, <2>1
  <1>16. ASSUME NEW r \in Rows, ScanUnspendOutput(p, r) PROVE OnceInv'
    <2> DEFINE v == [u EXCEPT !.fix = @ \ {r}]
               o == [u.rows[r] EXCEPT !.status = "Unspent"]
    <2>1. /\ upd' = [upd EXCEPT ![p] = v] /\ r \in u.fix /\ u.pc = "repair" /\ u.idx = {}
          /\ out' = [out EXCEPT ![r] = o]
      BY <1>16 DEF ScanUnspendOutput, UnspendRow, TypeOK, At
    <2>2. /\ v.pc = u.pc /\ v.rows = u.rows /\ v.chain = u.chain /\ v.job = u.job /\ v.idx = u.idx
          /\ v.fix = u.fix \ {r} /\ v.miss = u.miss /\ v.locked = u.locked /\ v.unconf = u.unconf
      BY <1>0 DEF UpdateState
    <2>3. o.status = "Unspent" /\ o.cb = u.rows[r].cb
      <3>1. u.rows[r] \in OutputData
        BY <1>0 DEF UpdateState
      <3>2. QED
        BY <3>1 DEF OutputData
    <2> HIDE DEF v, o
    <2>4. TableInv' /\ Ok(out', v)
      BY <1>1, <2>1, <2>2, <2>3, SavedOnce DEF Ok
    <2>5. QED
      BY <1>2, <2>1, <2>4
  <1>17. ASSUME NEW q \in Rows, RestoreMissingOutput(p, q) PROVE OnceInv'
    <2> DEFINE v == [u EXCEPT !.miss = @ \ {q}, !.found = IF q[1] >= @ THEN q[1] + 1 ELSE @]
               o == [status |-> "Unspent", entry |-> nextLog, cb |-> q[1] \in cbKeys, height |-> 0]
    <2>1. /\ upd' = [upd EXCEPT ![p] = v] /\ q \in u.miss /\ u.pc = "repair" /\ u.idx = {} /\ u.fix = {}
          /\ out' = [out EXCEPT ![q] = o]
      BY <1>17 DEF RestoreMissingOutput, TypeOK, At
    <2>2. /\ v.pc = u.pc /\ v.rows = u.rows /\ v.chain = u.chain /\ v.job = u.job /\ v.idx = u.idx
          /\ v.fix = u.fix /\ v.miss = u.miss \ {q} /\ v.locked = u.locked /\ v.unconf = u.unconf
      BY <1>0 DEF UpdateState
    <2>3. o.status = "Unspent" /\ o.cb = FALSE
      <3>1. (q[1] \in cbKeys) = FALSE
        BY <1>0 DEF Plain
      <3>2. o = [status |-> "Unspent", entry |-> nextLog, cb |-> FALSE, height |-> 0]
        BY <3>1, Zenon
      <3>3. QED
        BY <3>2
    <2> HIDE DEF v, o
    <2>4. TableInv' /\ Ok(out', v)
      BY <1>1, <2>1, <2>2, <2>3, SavedOnce DEF Ok
    <2>5. QED
      BY <1>2, <2>1, <2>4
  <1>18. ASSUME NEW r \in Rows, ScanUnlockOutput(p, r) \/ ScanDeleteOutput(p, r) PROVE OnceInv'
    <2>1. u.locked = {} /\ u.unconf = {}
      BY <1>0 DEF Ok, OutCarry, NoRepair
    <2>2. QED
      BY <1>18, <2>1 DEF ScanUnlockOutput, ScanDeleteOutput
  <1>19. CASE ScanReadChildIndex(p)
    <2>1. ~ (u.found > nextChild)
      BY <1>0
    <2>2. /\ upd' = [upd EXCEPT ![p] = IF u.found > nextChild THEN [@ EXCEPT !.pc = "index"]
                                       ELSE AfterScan(p)]
          /\ out' = out
      BY <1>19 DEF ScanReadChildIndex, dbVars
    <2>3. upd' = [upd EXCEPT ![p] = AfterScan(p)]
      BY <2>1, <2>2, Zenon
    <2>4. QED
      BY <1>2, <1>3, <1>6, <2>2, <2>3
  <1>20. CASE ScanSaveChildIndex(p)
    <2>1. upd' = [upd EXCEPT ![p] = AfterScan(p)] /\ out' = out
      BY <1>20 DEF ScanSaveChildIndex
    <2>2. QED
      BY <1>2, <1>3, <1>6, <2>1
  <1>21. ASSUME NEW i, CancelTxAndOutputs(i) PROVE TableInv'
    <2>1. \A r \in Rows : \/ out'[r] = out[r]
                          \/ out'[r] = NoRow /\ out[r].status = "Unconfirmed"
                          \/ out'[r] = [out[r] EXCEPT !.status = "Unspent"] /\ out[r].status = "Locked"
      BY <1>21 DEF CancelTxAndOutputs
    <2>2. QED
      BY <1>7, <2>1
  <1>22. CASE ExpireTx(p)
    <2> DEFINE i == Least(u.todo)
               v == [u EXCEPT !.todo = @ \ {i}]
    <2>1. u.pc = "expire"
      BY <1>22 DEF ExpireTx, At
    <2>2. /\ v.chain = u.chain /\ v.idx = u.idx /\ v.fix = u.fix /\ v.miss = u.miss
          /\ v.locked = u.locked /\ v.unconf = u.unconf /\ v.job = u.job /\ v.pc = u.pc
      BY <1>0 DEF UpdateState
    <2>3. CASE Cancellable(txlog[i])
      <3>1. CancelTxAndOutputs(i) /\ upd' = [upd EXCEPT ![p] = v]
        BY <1>22, <2>3 DEF ExpireTx, TypeOK
      <3> HIDE DEF i, v, u
      <3>2. Ok(out', v)
        BY <1>4, <1>5, <2>1, <2>2
      <3>3. QED
        BY <1>2, <1>21, <3>1, <3>2
    <2>4. CASE ~Cancellable(txlog[i])
      <3>1. upd' = [upd EXCEPT ![p] = UpdateIdle] /\ out' = out
        BY <1>22, <2>4 DEF ExpireTx
      <3>2. QED
        BY <1>2, <1>3, <1>6, <3>1
    <2>5. QED
      BY <2>3, <2>4
  <1>23. CASE UpdateDone(p)
    <2> DEFINE v == [u EXCEPT !.pc = "cancel"]
    <2>1. /\ upd' = [upd EXCEPT ![p] = v] \/ upd' = [upd EXCEPT ![p] = UpdateIdle]
          /\ out' = out /\ u.pc # "repair"
      BY <1>23 DEF UpdateDone, TypeOK, dbVars, At
    <2>2. /\ v.chain = u.chain /\ v.idx = u.idx /\ v.fix = u.fix /\ v.miss = u.miss
          /\ v.locked = u.locked /\ v.unconf = u.unconf /\ v.job = u.job /\ v.pc = "cancel"
      BY <1>0 DEF UpdateState
    <2> HIDE DEF v, u
    <2>3. Ok(out', v)
      BY <1>4, <1>5, <2>1, <2>2
    <2>4. QED
      BY <1>2, <1>3, <1>6, <2>1, <2>3
  <1>24. CASE CancelTx(p)
    <2>1. /\ upd' = [upd EXCEPT ![p] = UpdateIdle]
          /\ CancelTxAndOutputs(u.goal) \/ out' = out
      BY <1>24 DEF CancelTx
    <2> HIDE DEF u
    <2>2. QED
      BY <1>2, <1>3, <1>6, <1>21, <2>1
  <1>25. CASE UpdateFails(p)
    <2>1. upd' = [upd EXCEPT ![p] = UpdateIdle] /\ out' = out
      BY <1>25 DEF UpdateFails, dbVars
    <2>2. QED
      BY <1>2, <1>3, <1>6, <2>1
  <1>26. QED
    BY <1>0, <1>9, <1>10, <1>11, <1>12, <1>13, <1>14, <1>15, <1>16, <1>17, <1>18, <1>19, <1>20,
       <1>22, <1>23, <1>24, <1>25 DEF UpdateStep, StartUpdate, StartCancel, StartScan

\* A wallet whose coins were on chain from the start, each with one row.
LEMMA OnceInit == ASSUME Ordinary, Restored = FALSE PROVE Init => OnceInv
  <1> SUFFICES ASSUME Init PROVE OnceInv
    OBVIOUS
  <1>1. /\ \A r \in Rows : r[1] \in Keys /\ r[2] \in {0, 1}
        /\ \A k \in Keys : <<k, 0>> \in Rows /\ <<k, 1>> \in Rows
    BY TwoPositions
  <1>2. \A r \in Rows : \/ out[r] = NoRow
                        \/ /\ out[r] = [NoRow EXCEPT !.status = "Unspent"]
                           /\ r[1] < Coins /\ r[2] = IF Indexed THEN 1 ELSE 0
    BY DEF Init
  <1>3. NoRow.status = "None" /\ NoRow.cb = FALSE
    BY DEF NoRow
  <1>4. /\ [NoRow EXCEPT !.status = "Unspent"].status = "Unspent"
        /\ [NoRow EXCEPT !.status = "Unspent"].cb = FALSE
    BY DEF NoRow
  <1>5. Plain
    BY DEF Init, Plain
  <1>6. \A r \in Rows : r[1] < Coins => WasOn(seen, offers, r[1])
    BY <1>1, ConstantsAssumption DEF WasOn, Minted, Keys
  <1>7. RowsOnce
    <2> SUFFICES ASSUME NEW r \in Rows PROVE RowOnce(utxo, seen, offers, r, out[r])
      BY DEF RowsOnce
    <2>1. /\ ~ out[r].cb /\ out[r].status \in {"None", "Unspent"}
          /\ out[r].status # "None" => r[1] < Coins
      BY <1>2, <1>3, <1>4
    <2>2. QED
      BY <1>6, <2>1 DEF RowOnce
  <1>8. \A k \in Keys : ~ (Has(out, k, 0) /\ Has(out, k, 1))
    <2> SUFFICES ASSUME NEW k \in Keys PROVE out[<<k, 0>>].status = "None" \/ out[<<k, 1>>].status = "None"
      BY DEF Has
    <2>1. <<k, 0>> \in Rows /\ <<k, 1>> \in Rows /\ <<k, 0>>[2] = 0 /\ <<k, 1>>[2] = 1
      BY <1>1
    <2>2. CASE Indexed
      BY <1>2, <1>3, <2>1, <2>2
    <2>3. CASE ~Indexed
      BY <1>2, <1>3, <2>1, <2>3
    <2>4. QED
      BY <2>2, <2>3
  <1>9. SecondSpent(out)
    BY <1>8 DEF SecondSpent
  <1>10. CtxRows
    BY DEF Init, NoCtx, CtxRows
  <1>11. OutCarried
    <2> SUFFICES ASSUME NEW p \in Updaters PROVE OutCarry(utxo, seen, offers, out, ctx, UpdateIdle)
      BY DEF Init, OutCarried
    <2>1. /\ UpdateIdle.idx = {} /\ UpdateIdle.fix = {} /\ UpdateIdle.miss = {} /\ UpdateIdle.locked = {}
          /\ UpdateIdle.unconf = {} /\ UpdateIdle.chain = {} /\ UpdateIdle.job = "update"
      BY DEF UpdateIdle
    <2>2. SawMined(seen, offers, UpdateIdle) /\ OneBefore(out, UpdateIdle)
      BY <2>1 DEF SawMined, OneBefore
    <2>3. QED
      BY <2>1, <2>2, QuietOnce
  <1>12. QED
    BY <1>5, <1>7, <1>9, <1>10, <1>11 DEF OnceInv, TableInv

\* In a wallet that sends, receives and invoices on a chain without forks, with one thread
\* updating it that does not repair and no restore, an output is in the table once: a refresh
\* or a scan may move its row to the position on chain, or add a row of an output spent since
\* it was read, but beside any other calls it has one row that is not spent.
THEOREM LivesOnce ==
  ASSUME Ordinary, OneUpdater, Restored = FALSE PROVE Spec => []OneLiveRow
  <1> DEFINE Inv == KeyInv /\ ChainInv /\ OnceInv
  <1>1. Init => Inv
    BY KeyInit, ChainInit, OnceInit
  <1>2. TypeOK /\ Inv /\ [Next]_vars => Inv'
    <2> SUFFICES ASSUME TypeOK, Inv, [Next]_vars PROVE Inv'
      OBVIOUS
    <2>1. TypeOK' /\ KeyInv' /\ ChainInv'
      BY NextType, KeyStep, ChainStep
    <2>2. CASE UNCHANGED vars
      <3>1. UNCHANGED <<out, ctx, utxo, cbKeys, upd, offers, mmr, seen, mined, pool>>
        BY <2>2 DEF vars, dbVars, slateVars, nodeVars
      <3>2. Plain'
        BY <3>1 DEF Plain, OnceInv
      <3>3. TableInv'
        <4>1. RowsOnce'
          BY <3>1 DEF OnceInv, TableInv, RowsOnce
        <4>2. SecondSpent(out') /\ CtxRows'
          BY <3>1 DEF OnceInv, TableInv, CtxRows
        <4>3. QED
          BY <4>1, <4>2 DEF TableInv
      <3>4. OutCarried'
        BY <3>1 DEF OnceInv, OutCarried
      <3>5. QED
        BY <2>1, <3>2, <3>3, <3>4 DEF OnceInv
    <2>3. CASE Next
      BY <2>1, <2>3, ApiOnce, UpdateOnce DEF Next
    <2>4. QED
      BY <2>2, <2>3
  <1>3. TypeOK /\ Inv => OneLiveRow
    <2> SUFFICES ASSUME TypeOK, SecondSpent(out), NEW r \in Rows, NEW q \in Rows, r[1] = q[1],
                        out[r].status \notin {"None", "Spent"}, out[q].status \notin {"None", "Spent"}
                 PROVE  r = q
      BY DEF OneLiveRow, OnceInv, TableInv
    <2>1. /\ r[1] \in Keys /\ r = <<r[1], r[2]>> /\ q = <<r[1], q[2]>>
          /\ r[2] \in {0, 1} /\ q[2] \in {0, 1}
      BY TwoPositions
    <2>2. ~ (Has(out, r[1], 0) /\ out[<<r[1], 1>>].status \notin {"None", "Spent"})
      BY <2>1 DEF SecondSpent, Has
    <2>3. r[2] = q[2]
      BY <2>1, <2>2 DEF Has
    <2>4. QED
      BY <2>1, <2>3
  <1>4. QED
    BY <1>1, <1>2, <1>3, LedgerTypeOK, PTL DEF Spec

=============================================================================
