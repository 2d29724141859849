------------------------------ MODULE Accounts ------------------------------
(* The accounts of a wallet: their labels, the log and the outputs each holds,
   and how a scan restores and names the accounts of a wallet that was created
   from its recovery phrase while the user creates, selects and uses accounts.
   Every action is one critical section of the wallet mutex.  What happens to a
   row within an account is WalletLedger's subject; here a coin keeps its row. *)
EXTENDS Integers, Sequences, FiniteSets, FiniteSetsExt

CONSTANTS
  UserLabels,   \* labels the user may give an account
  Old,          \* keys <<path, child>> used before the wallet was recreated, by height
  OldFile,      \* transactions exported then
  Slates,       \* slates sent to this wallet
  Scanners,     \* threads that may scan
  MaxPath,      \* bound: account paths
  MaxChild,     \* bound: keys of an account
  MaxIds,       \* bound: log ids of an account
  MaxReceives   \* bound: entries of received slates

Paths    == 0 .. MaxPath
NoPath   == -1
AutoLabel(n) == <<"account", n>>
Default  == <<"default", 0>>
Autos    == {AutoLabel(n) : n \in 1 .. (MaxPath + Cardinality(UserLabels) + 2)}
Labels   == {Default} \cup UserLabels \cup Autos

\* A coin is a key and whether it dates from before: a key that is handed out
\* again makes another commitment, with another amount
Ids      == 0 .. (MaxIds - 1)
Coins    == Paths \X (0 .. MaxChild) \X {"old", "new"}
OldCoins == {<<Old[i][1], Old[i][2], "old">> : i \in DOMAIN Old}
NoCoin   == <<>>
NoSlate  == "none"

Entry   == [type : {"None", "TxReceived", "TxReceivedCancelled"}, slate : Slates \cup {NoSlate},
            confirmed : BOOLEAN, coin : Coins \cup {NoCoin}]
NoEntry == [type |-> "None", slate |-> NoSlate, confirmed |-> FALSE, coin |-> NoCoin]
Row     == [status : {"None", "Unconfirmed", "Unspent"}, root : Paths, entry : Ids]
NoRow   == [status |-> "None", root |-> 0, entry |-> 0]

ASSUME AccountsAssumption ==
  /\ MaxPath \in Nat /\ MaxChild \in Nat /\ MaxIds \in Nat \ {0} /\ MaxReceives \in Nat
  /\ IsFiniteSet(UserLabels)
  /\ \A i \in DOMAIN Old : Old[i] \in Paths \X (0 .. MaxChild)
  /\ DOMAIN OldFile \subseteq Paths \X Ids /\ \A x \in DOMAIN OldFile : OldFile[x] \in Entry
  /\ NoSlate \notin Slates

VARIABLES
  acct,     \* account_path_mapping: label -> path
  active,   \* parent_key_id of the backend
  child,    \* per path: the next child index
  logId,    \* per path: the next log id
  log,      \* tx log, by <<path, id>>
  outs,     \* output table, by coin
  chain,    \* coins in the node's UTXO set
  file,     \* the exported transactions, by <<path, id>>
  scan,     \* what each scanning thread carries
  cut       \* accounts a scan restored outputs into and ended before naming

vars == <<acct, active, child, logId, log, outs, chain, file, scan, cut>>

ScanState ==
  [pc : {"idle", "read", "restore", "name", "index", "save"}, miss : SUBSET Coins,
   found : [Paths -> -1 .. MaxChild], accounts : SUBSET Paths, index : Nat,
   todo : SUBSET Paths, path : Paths]
Idle == [pc |-> "idle", miss |-> {}, found |-> [p \in Paths |-> -1], accounts |-> {},
         index |-> 0, todo |-> {}, path |-> 0]

TypeOK ==
  /\ acct \in [Labels -> Paths \cup {NoPath}] /\ active \in Paths
  /\ child \in [Paths -> 0 .. (MaxChild + 1)] /\ logId \in [Paths -> 0 .. MaxIds]
  /\ log \in [Paths \X Ids -> Entry] /\ outs \in [Coins -> Row] /\ chain \subseteq Coins
  /\ scan \in [Scanners -> ScanState] /\ cut \subseteq Paths

\* LMDBBackend::new: the default account always exists; the rest of a recreated
\* wallet's database is empty, the chain still holds what it received before
Init ==
  /\ acct = [l \in Labels |-> IF l = Default THEN 0 ELSE NoPath] /\ active = 0
  /\ child = [p \in Paths |-> 0] /\ logId = [p \in Paths |-> 0]
  /\ log = [x \in Paths \X Ids |-> NoEntry] /\ outs = [c \in Coins |-> NoRow]
  /\ chain = OldCoins /\ file = OldFile
  /\ scan = [t \in Scanners |-> Idle] /\ cut = {}

\* acct_path_iter
Mapped   == {l \in Labels : acct[l] # NoPath}
Named(p) == \E l \in Labels : acct[l] = p

-----------------------------------------------------------------------------
(* Calls *)

\* new_acct_path: a label that exists is refused; the path follows the highest
CreateAccountPath(l) ==
  LET p == Max({acct[m] : m \in Mapped}) + 1 IN
  /\ acct[l] = NoPath /\ p <= MaxPath
  /\ acct' = [acct EXCEPT ![l] = p]
  /\ UNCHANGED <<active, child, logId, log, outs, chain, file, scan, cut>>

\* set_active_account, and the account option of the commands
SetActiveAccount(l) ==
  /\ acct[l] # NoPath /\ active' = acct[l]
  /\ UNCHANGED <<acct, child, logId, log, outs, chain, file, scan, cut>>

\* The account a call names; an unknown label means the active account
AccountOf(l) == IF acct[l] # NoPath THEN acct[l] ELSE active

\* receive_tx and build_recipient_output: the entry and the output belong to the
\* account named, the key is the next one of the active account
ReceiveTx(s, l) ==
  LET p == AccountOf(l)
      c == <<active, child[active], "new">> IN
  /\ \A i \in Ids : ~(log[<<p, i>>].slate = s /\ log[<<p, i>>].type = "TxReceived")
  /\ child[active] <= MaxChild /\ logId[p] < MaxIds
  /\ Cardinality({x \in Paths \X Ids : log[x].slate = s}) < MaxReceives
  /\ child' = [child EXCEPT ![active] = @ + 1]
  /\ logId' = [logId EXCEPT ![p] = @ + 1]
  /\ log' = [log EXCEPT ![<<p, logId[p]>>] =
               [type |-> "TxReceived", slate |-> s, confirmed |-> FALSE, coin |-> c]]
  /\ outs' = [outs EXCEPT ![c] = [status |-> "Unconfirmed", root |-> p, entry |-> logId[p]]]
  /\ UNCHANGED <<acct, active, chain, file, scan, cut>>

\* The sender's transaction is mined
Mine(c) ==
  /\ outs[c].status = "Unconfirmed" /\ c \notin chain
  /\ chain' = chain \cup {c}
  /\ UNCHANGED <<acct, active, child, logId, log, outs, file, scan, cut>>

\* refresh_outputs: the outputs of the active account that are on chain, and
\* the entries they name in that account
Arrived        == {c \in chain : outs[c].status = "Unconfirmed" /\ outs[c].root = active}
RefreshedOuts  == [c \in Coins |-> IF c \in Arrived THEN [outs[c] EXCEPT !.status = "Unspent"]
                                   ELSE outs[c]]
RefreshedLog   == [x \in Paths \X Ids |->
                     IF \E c \in Arrived : x = <<active, outs[c].entry>>
                       THEN [log[x] EXCEPT !.confirmed = TRUE] ELSE log[x]]

\* retrieve_outputs, retrieve_txs, retrieve_summary_info
Refresh ==
  /\ Arrived # {} /\ outs' = RefreshedOuts /\ log' = RefreshedLog
  /\ UNCHANGED <<acct, active, child, logId, chain, file, scan, cut>>

\* cancel_tx: update, then an entry of the active account that is still open,
\* with the unconfirmed outputs of that account that name it
CancelTx(i) ==
  LET e == RefreshedLog[<<active, i>>] IN
  /\ e.type = "TxReceived" /\ ~e.confirmed
  /\ log' = [RefreshedLog EXCEPT ![<<active, i>>].type = "TxReceivedCancelled"]
  /\ outs' = [c \in Coins |->
                IF /\ RefreshedOuts[c].status = "Unconfirmed"
                   /\ outs[c].root = active /\ outs[c].entry = i
                  THEN NoRow ELSE RefreshedOuts[c]]
  /\ UNCHANGED <<acct, active, child, logId, chain, file, scan, cut>>

\* export_tx --all or --id: update, then the entries of the active account, if any
ExportTx(ids) ==
  LET f == [x \in {active} \X {i \in ids : RefreshedLog[<<active, i>>].type # "None"} |->
              RefreshedLog[x]] IN
  /\ DOMAIN f # {}
  /\ file' = f /\ log' = RefreshedLog /\ outs' = RefreshedOuts
  /\ UNCHANGED <<acct, active, child, logId, chain, scan, cut>>

\* What import_tx looks at: the ids and the slates of every account's entries
KnownIds    == {i \in Ids : \E p \in Paths : log[<<p, i>>].type # "None"}
KnownSlates == {log[x].slate : x \in Paths \X Ids} \ {NoSlate}

\* Faulty variant: only the slates are compared
ImportTxBySlate ==
  LET new == {x \in DOMAIN file : file[x].slate \notin KnownSlates} IN
  /\ new # {} /\ log' = [x \in Paths \X Ids |-> IF x \in new THEN file[x] ELSE log[x]]
  /\ UNCHANGED <<acct, active, child, logId, outs, chain, file, scan, cut>>

\* import_tx: the transactions of the file whose id and slate are unknown.  The
\* counter of log ids is not advanced.
ImportTx ==
  LET new == {x \in DOMAIN file : x[2] \notin KnownIds /\ file[x].slate \notin KnownSlates} IN
  /\ new # {} /\ log' = [x \in Paths \X Ids |-> IF x \in new THEN file[x] ELSE log[x]]
  /\ UNCHANGED <<acct, active, child, logId, outs, chain, file, scan, cut>>

-----------------------------------------------------------------------------
(* A scan *)

At(t, pc) == scan[t].pc = pc

\* collect_chain_outputs and identify_utxo_outputs: the wallet's coins on chain
\* from a height on, read without the mutex
CollectChainOutputs(t, from) ==
  /\ At(t, "idle")
  /\ scan' = [scan EXCEPT ![t] =
       [Idle EXCEPT !.pc = "read",
          !.miss = chain \ {<<Old[i][1], Old[i][2], "old">> : i \in 1 .. (from - 1)}]]
  /\ UNCHANGED <<acct, active, child, logId, log, outs, chain, file, cut>>

\* scan: what is missing from the output table, whatever its account
ReadOutputs(t) ==
  /\ At(t, "read")
  /\ scan' = [scan EXCEPT ![t].pc = "restore",
                          ![t].miss = {c \in @ : outs[c].status = "None"}]
  /\ UNCHANGED <<acct, active, child, logId, log, outs, chain, file, cut>>

RestoredRow(t, c) ==
  LET p == c[1] IN
  /\ At(t, "restore") /\ c \in scan[t].miss /\ logId[p] < MaxIds
  /\ logId' = [logId EXCEPT ![p] = @ + 1]
  /\ log' = [log EXCEPT ![<<p, logId[p]>>] =
               [type |-> "TxReceived", slate |-> NoSlate, confirmed |-> TRUE, coin |-> c]]
  /\ outs' = [outs EXCEPT ![c] = [status |-> "Unspent", root |-> p, entry |-> logId[p]]]

\* Faulty variant: a parent counts as found from its second key on
RestoreMissingLate(t, c) ==
  /\ RestoredRow(t, c)
  /\ scan' = [scan EXCEPT ![t].miss = @ \ {c},
                ![t].found[c[1]] = IF c[2] > Max({@, 0}) THEN c[2] ELSE @]
  /\ UNCHANGED <<acct, active, child, chain, file, cut>>

\* restore_missing_output: into the account of its key
RestoreMissing(t, c) ==
  /\ RestoredRow(t, c)
  /\ scan' = [scan EXCEPT ![t].miss = @ \ {c}, ![t].found[c[1]] = Max({@, c[2]})]
  /\ UNCHANGED <<acct, active, child, chain, file, cut>>

\* found_parents, and those of them that the scan has yet to name
Found(t)  == {p \in Paths : scan[t].found[p] >= 0}
ToName(t) == {p \in Found(t) :
                \/ At(t, "restore")
                \/ At(t, "name") /\ p \in scan[t].todo
                \/ scan[t].pc \in {"index", "save"} /\ p \in scan[t].todo \ {scan[t].path}}
Nameless(t) == {p \in ToName(t) : ~Named(p)}

\* Faulty variant: the default account is not counted
ReadAccountsUncounted(t) ==
  /\ At(t, "restore") /\ scan[t].miss = {}
  /\ scan' = [scan EXCEPT ![t] =
       IF Found(t) = {} THEN Idle
       ELSE [@ EXCEPT !.pc = "name", !.todo = Found(t), !.accounts = {acct[l] : l \in Mapped},
                      !.index = Max({Cardinality(Mapped) - 1, 1})]]
  /\ UNCHANGED <<acct, active, child, logId, log, outs, chain, file, cut>>

\* The paths that have a label, and the number of labels, read once
ReadAccounts(t) ==
  /\ At(t, "restore") /\ scan[t].miss = {}
  /\ scan' = [scan EXCEPT ![t] =
       IF Found(t) = {} THEN Idle
       ELSE [@ EXCEPT !.pc = "name", !.todo = Found(t), !.accounts = {acct[l] : l \in Mapped},
                      !.index = Cardinality(Mapped)]]
  /\ UNCHANGED <<acct, active, child, logId, log, outs, chain, file, cut>>

\* set_acct_path for a path that had no label, in the order of a hash map; the
\* save replaces whatever has the label
NameAccount(t, p) ==
  LET new == p \notin scan[t].accounts IN
  /\ At(t, "name") /\ p \in scan[t].todo
  /\ acct' = IF new THEN [acct EXCEPT ![AutoLabel(scan[t].index)] = p] ELSE acct
  /\ scan' = [scan EXCEPT ![t].pc = "index", ![t].path = p,
                          ![t].index = IF new THEN @ + 1 ELSE @]
  /\ UNCHANGED <<active, child, logId, log, outs, chain, file, cut>>

\* Past the last path the scan is done
NextPath(t) ==
  LET todo == scan[t].todo \ {scan[t].path} IN
  IF todo = {} THEN Idle ELSE [scan[t] EXCEPT !.pc = "name", !.todo = todo]

\* current_child_index, and save_child_index in a section of its own
ReadChildIndex(t) ==
  /\ At(t, "index")
  /\ scan' = [scan EXCEPT ![t] =
       IF @.found[@.path] >= child[@.path] THEN [@ EXCEPT !.pc = "save"] ELSE NextPath(t)]
  /\ UNCHANGED <<acct, active, child, logId, log, outs, chain, file, cut>>

SaveChildIndex(t) ==
  /\ At(t, "save")
  /\ child' = [child EXCEPT ![scan[t].path] = scan[t].found[scan[t].path] + 1]
  /\ scan' = [scan EXCEPT ![t] = NextPath(t)]
  /\ UNCHANGED <<acct, active, logId, log, outs, chain, file, cut>>

\* A call of the scan fails and `?` ends it: what it restored stays, what it carried
\* of it is gone, and no later scan finds these outputs missing
ScanFails(t) ==
  /\ ~At(t, "idle")
  /\ scan' = [scan EXCEPT ![t] = Idle] /\ cut' = cut \cup Nameless(t)
  /\ UNCHANGED <<acct, active, child, logId, log, outs, chain, file>>

\* The process stops, with every scan it runs; it comes back with the default account
Stop ==
  /\ scan' = [t \in Scanners |-> Idle] /\ cut' = cut \cup UNION {Nameless(t) : t \in Scanners}
  /\ active' = 0
  /\ UNCHANGED <<acct, child, logId, log, outs, chain, file>>

ScanStep(t) ==
  \/ \E from \in 1 .. (Len(Old) + 1) : CollectChainOutputs(t, from)
  \/ ReadOutputs(t)
  \/ \E c \in Coins : RestoreMissing(t, c)
  \/ ReadAccounts(t)
  \/ \E p \in Paths : NameAccount(t, p)
  \/ ReadChildIndex(t)
  \/ SaveChildIndex(t)

Next ==
  \/ \E l \in UserLabels : CreateAccountPath(l)
  \/ \E l \in Labels : SetActiveAccount(l)
  \/ \E s \in Slates, l \in Labels : ReceiveTx(s, l)
  \/ \E c \in Coins : Mine(c)
  \/ Refresh
  \/ \E i \in Ids : CancelTx(i)
  \/ \E i \in Ids : ExportTx({i})
  \/ ExportTx(Ids)
  \/ ImportTx
  \/ \E t \in Scanners : ScanStep(t)
  \/ \E t \in Scanners : ScanFails(t)
  \/ Stop

Spec == Init /\ [][Next]_vars

-----------------------------------------------------------------------------
(* Properties *)

\* An account never loses its last label.  The scan picks labels from a count
\* it read earlier and saves them over whatever is there, while the user
\* creates accounts in between; without a label an account's funds cannot be
\* selected any more (set_parent_key_id_by_name).
PathKept == [][\A p \in Paths : Named(p) => Named(p)']_vars

\* A restored output is not in the list of missing ones again, so the scan that
\* restored it is the only one that will name its account: it has a label, or that
\* scan has yet to come to it, unless that scan ended in between, by an error or
\* with the process.  The exception is the code's own defect: nothing repairs it.
RestoredIsNamed ==
  \A c \in Coins : c[3] = "old" /\ outs[c].status # "None" =>
    \/ Named(c[1])
    \/ \E t \in Scanners : c[1] \in ToName(t)
    \/ c[1] \in cut

\* Ids count per account, outputs name their entry by id alone, and calls, scans
\* and imports all add entries: the entry an output names in its account is
\* always the one made for it.
EntryOfOutput ==
  \A c \in Coins : outs[c].status # "None" => log[<<outs[c].root, outs[c].entry>>].coin = c

=============================================================================
