--------------------------- MODULE AccountsProofs ---------------------------
(***************************************************************************)
(* Accounts and their labels, for any number of accounts, keys and log     *)
(* ids.  The entry an output names is its own whatever scans and imports   *)
(* run; labels and accounts are kept while one thread scans and the user's *)
(* labels are not of the form a scan gives.                                *)
(***************************************************************************)
EXTENDS Accounts, FiniteSetTheorems, NaturalsInduction, TLAPS

\* The larger of two integers.
LEMMA MaxOfTwo ==
  ASSUME NEW a \in Int, NEW b \in Int
  PROVE  Max({a, b}) = IF a >= b THEN a ELSE b
  <1>1. \E x \in {a, b} : \A y \in {a, b} : x >= y
    OBVIOUS
  <1>2. QED
    BY <1>1 DEF Max

\* The greatest of a non-empty set of paths is one of them.
LEMMA MaxIsIn == ASSUME NEW S \in SUBSET Paths, S # {} PROVE Max(S) \in S
  <1> DEFINE R == {ss \in Nat \X Nat : ss[1] < ss[2]}
             T == {MaxPath - x : x \in S}
  <1>0. S \subseteq Int /\ \A x \in S : x <= MaxPath /\ MaxPath \in Nat
    BY AccountsAssumption DEF Paths
  <1>1. IsWellFoundedOn(R, Nat)
    <2>1. OpToRel(<, Nat) = R
      BY SMT DEF OpToRel
    <2>2. QED
      BY <2>1, NatLessThanWellFounded
  <1>2. T \subseteq Nat /\ T # {}
    <2>1. \A x \in S : MaxPath - x \in Nat
      BY AccountsAssumption DEF Paths
    <2>2. QED
      BY <2>1
  <1>3. \A x, y \in Nat : ~ (<<y, x>> \in R) => x <= y
    OBVIOUS
  <1>4. \E x \in T : \A y \in T : ~ (<<y, x>> \in R)
    <2> HIDE DEF R, T
    <2> QED BY <1>1, <1>2, WFMin
  <1>5. PICK x \in T : \A y \in T : x <= y
    <2> HIDE DEF R, T
    <2> QED BY <1>2, <1>3, <1>4
  <1>6. PICK z \in S : x = MaxPath - z
    OBVIOUS
  <1>7. \A y \in S : z >= y
    <2> TAKE y \in S
    <2>1. MaxPath - y \in T
      OBVIOUS
    <2> HIDE DEF T
    <2>2. x <= MaxPath - y
      BY <1>5, <2>1
    <2>3. QED
      BY <1>0, <1>6, <2>2
  <1>8. QED
    BY <1>7 DEF Max

-----------------------------------------------------------------------------
(* Types.  The file is typed too: an import writes its entries to the log.   *)
(* The default account keeps its label, so there is a highest path.          *)

FileOk == DOMAIN file \subseteq Paths \X Ids /\ \A x \in DOMAIN file : file[x] \in Entry
Typed  == TypeOK /\ FileOk /\ acct[Default] = 0

\* The paths of the labels in use.
LEMMA MappedPaths == ASSUME TypeOK PROVE {acct[l] : l \in Mapped} \subseteq Paths
  BY DEF TypeOK, Mapped

\* The number of labels in use is a number.
LEMMA FiniteLabels ==
  /\ IsFiniteSet(Labels) /\ Cardinality(UserLabels) \in Nat
  /\ IsFiniteSet(Mapped) /\ Cardinality(Mapped) \in Nat
  <1> DEFINE top == MaxPath + Cardinality(UserLabels) + 2
  <1>1. Cardinality(UserLabels) \in Nat
    BY AccountsAssumption, FS_CardinalityType
  <1>2. IsFiniteSet(1 .. top)
    <2>1. top \in Int
      BY <1>1, AccountsAssumption
    <2> HIDE DEF top
    <2>2. QED
      BY <2>1, FS_Interval
  <1>3. IsFiniteSet(Autos)
    <2> DEFINE f == [i \in 1 .. top |-> <<"account", i>>]
    <2>1. Autos = {<<"account", i>> : i \in 1 .. top}
      BY DEF Autos, AutoLabel
    <2> HIDE DEF top
    <2>2. f \in [1 .. top -> Autos] /\ \A a \in Autos : \E i \in 1 .. top : f[i] = a
      BY <2>1
    <2> HIDE DEF f
    <2>3. f \in Surjection(1 .. top, Autos)
      BY <2>2 DEF Surjection
    <2>4. QED
      BY <1>2, <2>3, FS_Surjection
  <1>4. IsFiniteSet({Default} \cup UserLabels)
    BY AccountsAssumption, FS_Singleton, FS_Union
  <1>5. IsFiniteSet(Labels)
    BY <1>3, <1>4, FS_Union DEF Labels
  <1>6. Mapped \subseteq Labels
    BY DEF Mapped
  <1>7. IsFiniteSet(Mapped)
    BY <1>5, <1>6, FS_Subset
  <1>8. QED
    BY <1>1, <1>5, <1>7, FS_CardinalityType

\* Refreshed tables have their types.
LEMMA RefreshType ==
  ASSUME TypeOK
  PROVE  RefreshedOuts \in [Coins -> Row] /\ RefreshedLog \in [Paths \X Ids -> Entry]
  <1>1. \A c \in Coins : outs[c] \in Row /\ [outs[c] EXCEPT !.status = "Unspent"] \in Row
    BY DEF TypeOK, Row
  <1>2. \A x \in Paths \X Ids : log[x] \in Entry /\ [log[x] EXCEPT !.confirmed = TRUE] \in Entry
    <2>1. \A e \in Entry : [e EXCEPT !.confirmed = TRUE] \in Entry
      BY DEF Entry
    <2>2. \A x \in Paths \X Ids : log[x] \in Entry
      BY DEF TypeOK
    <2>3. QED
      BY <2>1, <2>2
  <1>3. QED
    <2>1. RefreshedOuts \in [Coins -> Row]
      BY <1>1 DEF RefreshedOuts
    <2>2. RefreshedLog \in [Paths \X Ids -> Entry]
      BY <1>2 DEF RefreshedLog
    <2>3. QED
      BY <2>1, <2>2

\* A call writes the tables as they are typed.
LEMMA CallTypes ==
  ASSUME Typed,
         \/ \E l \in UserLabels : CreateAccountPath(l)
         \/ \E l \in Labels : SetActiveAccount(l)
         \/ \E s \in Slates, l \in Labels : ReceiveTx(s, l)
         \/ \E c \in Coins : Mine(c)
         \/ Refresh
         \/ \E i \in Ids : CancelTx(i)
         \/ \E i \in Ids : ExportTx({i})
         \/ ExportTx(Ids)
         \/ ImportTx
  PROVE  Typed' /\ scan' = scan
  <1>0. /\ acct \in [Labels -> Paths \cup {NoPath}] /\ active \in Paths
        /\ child \in [Paths -> 0 .. (MaxChild + 1)] /\ logId \in [Paths -> 0 .. MaxIds]
        /\ log \in [Paths \X Ids -> Entry] /\ outs \in [Coins -> Row] /\ chain \subseteq Coins
        /\ scan \in [Scanners -> ScanState] /\ FileOk /\ acct[Default] = 0 /\ cut \subseteq Paths
    BY DEF Typed, TypeOK
  <1>1. ASSUME NEW l \in UserLabels, CreateAccountPath(l) PROVE Typed' /\ scan' = scan
    <2> DEFINE p == Max({acct[m] : m \in Mapped}) + 1
    <2>1. /\ acct' = [acct EXCEPT ![l] = p] /\ p <= MaxPath
          /\ UNCHANGED <<active, child, logId, log, outs, chain, file, scan, cut>>
      BY <1>1 DEF CreateAccountPath
    <2>2. p \in Paths
      <3> DEFINE S == {acct[m] : m \in Mapped}
      <3>1. S \subseteq Paths /\ S # {}
        BY <1>0, MappedPaths DEF Typed, Mapped, Labels, NoPath
      <3> HIDE DEF S
      <3>2. Max(S) \in Paths
        BY <3>1, MaxIsIn
      <3>3. QED
        BY <2>1, <3>2, AccountsAssumption DEF Paths, S
    <2> HIDE DEF p
    <2>3. acct' \in [Labels -> Paths \cup {NoPath}] /\ acct'[Default] = 0
      <3>1. l # Default /\ Default \in Labels
        BY <1>0, <1>1 DEF CreateAccountPath, NoPath, Labels
      <3>2. QED
        BY <1>0, <2>1, <2>2, <3>1
    <2>4. QED
      BY <1>0, <2>1, <2>3 DEF Typed, TypeOK, FileOk
  <1>2. ASSUME NEW l \in Labels, SetActiveAccount(l) PROVE Typed' /\ scan' = scan
    BY <1>0, <1>2 DEF SetActiveAccount, Typed, TypeOK, FileOk
  <1>3. ASSUME NEW s \in Slates, NEW l \in Labels, ReceiveTx(s, l) PROVE Typed' /\ scan' = scan
    <2> DEFINE p == AccountOf(l)
               c == <<active, child[active], "new">>
               e == [type |-> "TxReceived", slate |-> s, confirmed |-> FALSE, coin |-> c]
               o == [status |-> "Unconfirmed", root |-> p, entry |-> logId[p]]
    <2>1. p \in Paths
      BY <1>0 DEF AccountOf
    <2>2. /\ child[active] <= MaxChild /\ logId[p] < MaxIds
          /\ child' = [child EXCEPT ![active] = @ + 1]
          /\ logId' = [logId EXCEPT ![p] = @ + 1]
          /\ log' = [log EXCEPT ![<<p, logId[p]>>] = e] /\ outs' = [outs EXCEPT ![c] = o]
          /\ UNCHANGED <<acct, active, chain, file, scan, cut>>
      BY <1>3 DEF ReceiveTx
    <2> HIDE DEF p
    <2>3. logId[p] \in Ids /\ c \in Coins
      BY <1>0, <2>1, <2>2, AccountsAssumption DEF Ids, Coins
    <2> HIDE DEF c
    <2>4. e \in Entry /\ o \in Row
      BY <2>1, <2>3 DEF Entry, Row
    <2> HIDE DEF e, o
    <2>5. log' \in [Paths \X Ids -> Entry] /\ outs' \in [Coins -> Row]
      BY <1>0, <2>2, <2>4
    <2>6. child' \in [Paths -> 0 .. (MaxChild + 1)] /\ logId' \in [Paths -> 0 .. MaxIds]
      BY <1>0, <2>1, <2>2, AccountsAssumption
    <2>7. QED
      BY <1>0, <2>2, <2>5, <2>6 DEF Typed, TypeOK, FileOk
  <1>4. ASSUME NEW c \in Coins, Mine(c) PROVE Typed' /\ scan' = scan
    BY <1>0, <1>4 DEF Mine, Typed, TypeOK, FileOk
  <1>5. CASE Refresh
    BY <1>0, <1>5, RefreshType DEF Refresh, Typed, TypeOK, FileOk
  <1>6. ASSUME NEW i \in Ids, CancelTx(i) PROVE Typed' /\ scan' = scan
    <2>1. RefreshedOuts \in [Coins -> Row] /\ RefreshedLog \in [Paths \X Ids -> Entry]
      BY RefreshType DEF Typed
    <2>2. NoRow \in Row
      BY AccountsAssumption DEF NoRow, Row, Paths, Ids
    <2>3. outs' \in [Coins -> Row]
      BY <1>6, <2>1, <2>2 DEF CancelTx
    <2>4. log' \in [Paths \X Ids -> Entry]
      <3>1. log' = [RefreshedLog EXCEPT ![<<active, i>>].type = "TxReceivedCancelled"]
        BY <1>6 DEF CancelTx
      <3>2. \A x \in Paths \X Ids : [RefreshedLog[x] EXCEPT !.type = "TxReceivedCancelled"] \in Entry
        BY <2>1 DEF Entry
      <3>3. QED
        BY <2>1, <3>1, <3>2
    <2>5. QED
      BY <1>0, <1>6, <2>3, <2>4 DEF CancelTx, Typed, TypeOK, FileOk
  <1>7. ASSUME NEW ids \in SUBSET Ids, ExportTx(ids) PROVE Typed' /\ scan' = scan
    <2> DEFINE D == {active} \X {i \in ids : RefreshedLog[<<active, i>>].type # "None"}
    <2>1. RefreshedOuts \in [Coins -> Row] /\ RefreshedLog \in [Paths \X Ids -> Entry]
      BY RefreshType DEF Typed
    <2>2. file' = [x \in D |-> RefreshedLog[x]]
      BY <1>7 DEF ExportTx
    <2>3. D \subseteq Paths \X Ids
      BY <1>0
    <2> HIDE DEF D
    <2>4. FileOk'
      BY <2>1, <2>2, <2>3 DEF FileOk
    <2>5. QED
      BY <1>0, <1>7, <2>1, <2>4 DEF ExportTx, Typed, TypeOK
  <1>8. CASE ImportTx
    <2>1. log' \in [Paths \X Ids -> Entry]
      BY <1>0, <1>8 DEF ImportTx, FileOk
    <2>2. QED
      BY <1>0, <1>8, <2>1 DEF ImportTx, Typed, TypeOK, FileOk
  <1>9. QED
    BY <1>1, <1>2, <1>3, <1>4, <1>5, <1>6, <1>7, <1>8

\* A scan carries what it is declared to carry.
LEMMA ScanTypes ==
  ASSUME Typed, NEW t \in Scanners, ScanStep(t)
  PROVE  Typed'
  <1> DEFINE s == scan[t]
  <1>0. /\ acct \in [Labels -> Paths \cup {NoPath}] /\ active \in Paths
        /\ child \in [Paths -> 0 .. (MaxChild + 1)] /\ logId \in [Paths -> 0 .. MaxIds]
        /\ log \in [Paths \X Ids -> Entry] /\ outs \in [Coins -> Row] /\ chain \subseteq Coins
        /\ scan \in [Scanners -> ScanState] /\ FileOk /\ acct[Default] = 0 /\ s \in ScanState
        /\ cut \subseteq Paths
    BY DEF Typed, TypeOK
  <1>1. Idle \in ScanState
    BY AccountsAssumption DEF Idle, ScanState, Paths
  <1>2. NextPath(t) \in ScanState
    <2>1. \A todo \in SUBSET Paths : [s EXCEPT !.pc = "name", !.todo = todo] \in ScanState
      BY <1>0 DEF ScanState
    <2>2. s.todo \ {s.path} \in SUBSET Paths
      BY <1>0 DEF ScanState
    <2>3. QED
      BY <1>1, <2>1, <2>2 DEF NextPath
  <1>3. ASSUME NEW v \in ScanState, scan' = [scan EXCEPT ![t] = v],
               UNCHANGED <<acct, active, child, logId, log, outs, chain, file, cut>>
        PROVE  Typed'
    BY <1>0, <1>3 DEF Typed, TypeOK, FileOk
  <1>4. ASSUME NEW from, CollectChainOutputs(t, from) PROVE Typed'
    <2> DEFINE m == chain \ {<<Old[i][1], Old[i][2], "old">> : i \in 1 .. (from - 1)}
               v == [Idle EXCEPT !.pc = "read", !.miss = m]
    <2>1. /\ scan' = [scan EXCEPT ![t] = v]
          /\ UNCHANGED <<acct, active, child, logId, log, outs, chain, file, cut>>
      BY <1>4 DEF CollectChainOutputs
    <2>2. m \in SUBSET Coins
      BY <1>0
    <2> HIDE DEF m
    <2>3. v \in ScanState
      BY <1>1, <2>2 DEF ScanState
    <2> HIDE DEF v
    <2>4. QED
      BY <1>3, <2>1, <2>3
  <1>5. CASE ReadOutputs(t)
    <2> DEFINE m == {c \in s.miss : outs[c].status = "None"}
               v == [s EXCEPT !.pc = "restore", !.miss = m]
    <2>1. scan' = [scan EXCEPT ![t] = v]
      BY <1>0, <1>5 DEF ReadOutputs
    <2>2. UNCHANGED <<acct, active, child, logId, log, outs, chain, file, cut>>
      BY <1>5 DEF ReadOutputs
    <2>3. m \in SUBSET Coins
      BY <1>0 DEF ScanState
    <2> HIDE DEF m
    <2>4. v \in ScanState
      BY <1>0, <2>3 DEF ScanState
    <2> HIDE DEF v
    <2>5. QED
      BY <1>3, <2>1, <2>2, <2>4
  <1>6. ASSUME NEW c \in Coins, RestoreMissing(t, c) PROVE Typed'
    <2> DEFINE p == c[1]
               e == [type |-> "TxReceived", slate |-> NoSlate, confirmed |-> TRUE, coin |-> c]
               o == [status |-> "Unspent", root |-> p, entry |-> logId[p]]
               f == [s.found EXCEPT ![p] = Max({@, c[2]})]
               v == [s EXCEPT !.miss = @ \ {c}, !.found = f]
    <2>1. /\ logId[p] < MaxIds /\ logId' = [logId EXCEPT ![p] = @ + 1]
          /\ log' = [log EXCEPT ![<<p, logId[p]>>] = e] /\ outs' = [outs EXCEPT ![c] = o]
          /\ UNCHANGED <<acct, active, child, chain, file, cut>>
      BY <1>6 DEF RestoreMissing, RestoredRow
    <2>2. scan' = [scan EXCEPT ![t] = v]
      BY <1>0, <1>6 DEF RestoreMissing
    <2>3. p \in Paths /\ c[2] \in 0 .. MaxChild
      BY DEF Coins
    <2>4. f \in [Paths -> -1 .. MaxChild]
      <3>1. s.found \in [Paths -> -1 .. MaxChild]
        BY <1>0 DEF ScanState
      <3>2. Max({s.found[p], c[2]}) \in -1 .. MaxChild
        BY <2>3, <3>1, MaxOfTwo, AccountsAssumption
      <3>3. QED
        BY <2>3, <3>1, <3>2
    <2> HIDE DEF p, f
    <2>5. v \in ScanState
      BY <1>0, <2>4 DEF ScanState
    <2>6. logId[p] \in Ids
      BY <1>0, <2>1, <2>3, AccountsAssumption DEF Ids
    <2>7. e \in Entry /\ o \in Row
      BY <2>3, <2>6 DEF Entry, Row
    <2> HIDE DEF e, o, v
    <2>8. /\ log' \in [Paths \X Ids -> Entry] /\ outs' \in [Coins -> Row]
          /\ logId' \in [Paths -> 0 .. MaxIds] /\ scan' \in [Scanners -> ScanState]
      <3>1. log' \in [Paths \X Ids -> Entry]
        BY <1>0, <2>1, <2>7
      <3>2. outs' \in [Coins -> Row]
        BY <1>0, <2>1, <2>7
      <3>3. logId' \in [Paths -> 0 .. MaxIds]
        BY <1>0, <2>1, <2>3, AccountsAssumption
      <3>4. scan' \in [Scanners -> ScanState]
        BY <1>0, <2>2, <2>5
      <3>5. QED
        BY <3>1, <3>2, <3>3, <3>4
    <2>9. QED
      BY <1>0, <2>1, <2>8 DEF Typed, TypeOK, FileOk
  <1>7. CASE ReadAccounts(t)
    <2> DEFINE a == {acct[l] : l \in Mapped}
               n == Cardinality(Mapped)
               v == [s EXCEPT !.pc = "name", !.todo = Found(t), !.accounts = a, !.index = n]
    <2>0. a \in SUBSET Paths
      BY MappedPaths DEF Typed
    <2>1. n \in Nat /\ Found(t) \in SUBSET Paths
      BY FiniteLabels DEF Found
    <2>2. \/ scan' = [scan EXCEPT ![t] = Idle]
          \/ scan' = [scan EXCEPT ![t] = v]
      BY <1>0, <1>7 DEF ReadAccounts
    <2>3. UNCHANGED <<acct, active, child, logId, log, outs, chain, file, cut>>
      BY <1>7 DEF ReadAccounts
    <2> HIDE DEF a, n
    <2>4. v \in ScanState
      BY <1>0, <2>0, <2>1 DEF ScanState
    <2> HIDE DEF v
    <2>5. QED
      BY <1>1, <1>3, <2>2, <2>3, <2>4
  <1>8. ASSUME NEW p \in Paths, NameAccount(t, p) PROVE Typed'
    <2> DEFINE v == [s EXCEPT !.pc = "index", !.path = p,
                              !.index = IF p \notin s.accounts THEN @ + 1 ELSE @]
    <2>1. scan' = [scan EXCEPT ![t] = v]
      BY <1>0, <1>8 DEF NameAccount
    <2>2. acct' = acct \/ \E n : acct' = [acct EXCEPT ![AutoLabel(n)] = p]
      BY <1>8 DEF NameAccount
    <2>3. UNCHANGED <<active, child, logId, log, outs, chain, file, cut>>
      BY <1>8 DEF NameAccount
    <2>4. \A n : AutoLabel(n) # Default
      BY DEF AutoLabel, Default
    <2>5. acct' \in [Labels -> Paths \cup {NoPath}] /\ acct'[Default] = 0
      <3>1. Default \in Labels
        BY DEF Labels
      <3>2. QED
        BY <1>0, <2>2, <2>4, <3>1
    <2>6. s.index \in Nat /\ s.index + 1 \in Nat
      BY <1>0 DEF ScanState
    <2>7. v \in ScanState
      BY <1>0, <2>6 DEF ScanState
    <2> HIDE DEF v
    <2>8. QED
      BY <1>0, <2>1, <2>3, <2>5, <2>7 DEF Typed, TypeOK, FileOk
  <1>9. CASE ReadChildIndex(t)
    <2> DEFINE v == [s EXCEPT !.pc = "save"]
    <2>1. v \in ScanState
      BY <1>0 DEF ScanState
    <2>2. \/ scan' = [scan EXCEPT ![t] = v]
          \/ scan' = [scan EXCEPT ![t] = NextPath(t)]
      BY <1>0, <1>9 DEF ReadChildIndex
    <2>3. UNCHANGED <<acct, active, child, logId, log, outs, chain, file, cut>>
      BY <1>9 DEF ReadChildIndex
    <2> HIDE DEF v
    <2>4. QED
      BY <1>2, <1>3, <2>1, <2>2, <2>3
  <1>10. CASE SaveChildIndex(t)
    <2>1. /\ child' = [child EXCEPT ![s.path] = s.found[s.path] + 1]
          /\ scan' = [scan EXCEPT ![t] = NextPath(t)]
          /\ UNCHANGED <<acct, active, logId, log, outs, chain, file, cut>>
      BY <1>10 DEF SaveChildIndex
    <2>2. s.found[s.path] + 1 \in 0 .. (MaxChild + 1)
      BY <1>0, AccountsAssumption DEF ScanState
    <2>3. child' \in [Paths -> 0 .. (MaxChild + 1)]
      BY <1>0, <2>1, <2>2
    <2>4. QED
      BY <1>0, <1>2, <2>1, <2>3 DEF Typed, TypeOK, FileOk
  <1>11. QED
    BY <1>4, <1>5, <1>6, <1>7, <1>8, <1>9, <1>10 DEF ScanStep

\* What a scan that ends leaves unnamed are paths.
LEMMA NamelessPaths == \A t : Nameless(t) \subseteq Paths
  BY DEF Nameless, ToName, Found

\* A scan that ends, alone or with the process, carries nothing any more.
LEMMA ScanEndTypes ==
  ASSUME Typed, Stop \/ \E t \in Scanners : ScanFails(t)
  PROVE  Typed'
  <1>1. Idle \in ScanState /\ 0 \in Paths
    BY AccountsAssumption DEF Idle, ScanState, Paths
  <1>2. UNCHANGED <<acct, child, logId, log, outs, chain, file>> /\ active' \in {active, 0}
    BY DEF Stop, ScanFails
  <1>3. scan' \in [Scanners -> ScanState]
    BY <1>1 DEF Stop, ScanFails, Typed, TypeOK
  <1>4. cut' \subseteq Paths
    BY NamelessPaths DEF Stop, ScanFails, Typed, TypeOK
  <1>5. QED
    BY <1>1, <1>2, <1>3, <1>4 DEF Typed, TypeOK, FileOk

LEMMA TypesInit == Init => Typed
  <1> SUFFICES ASSUME Init PROVE Typed
    OBVIOUS
  <1>1. NoEntry \in Entry /\ NoRow \in Row /\ Idle \in ScanState
    BY AccountsAssumption DEF NoEntry, Entry, NoRow, Row, Idle, ScanState, Paths, Ids
  <1>2. OldCoins \subseteq Coins
    BY AccountsAssumption DEF OldCoins, Coins
  <1>3. FileOk
    BY AccountsAssumption DEF Init, FileOk
  <1>4. /\ acct \in [Labels -> Paths \cup {NoPath}] /\ active \in Paths
        /\ child \in [Paths -> 0 .. (MaxChild + 1)] /\ logId \in [Paths -> 0 .. MaxIds]
    BY AccountsAssumption DEF Init, Paths
  <1>5. acct[Default] = 0
    BY DEF Init, Labels
  <1>6. QED
    BY <1>1, <1>2, <1>3, <1>4, <1>5 DEF Init, Typed, TypeOK

LEMMA TypesStep == ASSUME Typed, [Next]_vars PROVE Typed'
  <1>1. CASE UNCHANGED vars
    BY <1>1 DEF vars, Typed, TypeOK, FileOk
  <1>2. CASE Next
    BY <1>2, CallTypes, ScanTypes, ScanEndTypes DEF Next
  <1>3. QED
    BY <1>1, <1>2

\* Type correctness of accounts, log, outputs and scans.
THEOREM AccountsTypes == Spec => []TypeOK
  <1>1. Typed => TypeOK
    BY DEF Typed
  <1>2. Typed /\ [Next]_vars => Typed'
    BY TypesStep
  <1>3. QED
    BY <1>1, <1>2, TypesInit, PTL DEF Spec

-----------------------------------------------------------------------------
(* An output and its entry.  Ids count up per account, and an import, which  *)
(* does not count, only writes where no account has an entry.                *)

\* With log L and next ids n: the entry that row o of coin c names was made for it,
\* under an id that was counted.
NamesOwn(c, o, L, n) == o.status # "None" =>
  /\ o.entry < n[o.root] /\ L[<<o.root, o.entry>>].type # "None"
  /\ L[<<o.root, o.entry>>].coin = c
EntryInv == \A c \in Coins : NamesOwn(c, outs[c], log, logId)

\* A new entry under the next id, and the row of a coin that names it.
LEMMA EntryAdded ==
  ASSUME Typed, EntryInv, NEW p \in Paths, NEW c \in Coins, logId[p] < MaxIds, NEW e, NEW o,
         e.type = "TxReceived", e.coin = c, o.root = p, o.entry = logId[p],
         logId' = [logId EXCEPT ![p] = @ + 1], log' = [log EXCEPT ![<<p, logId[p]>>] = e],
         outs' = [outs EXCEPT ![c] = o]
  PROVE  EntryInv'
  <1>0. /\ logId \in [Paths -> 0 .. MaxIds] /\ log \in [Paths \X Ids -> Entry]
        /\ outs \in [Coins -> Row]
    BY DEF Typed, TypeOK
  <1>1. logId[p] \in Ids /\ logId[p] \in Int /\ logId'[p] = logId[p] + 1
    BY <1>0, AccountsAssumption DEF Ids
  <1>2. log'[<<p, logId[p]>>] = e /\ \A x \in Paths \X Ids : x # <<p, logId[p]>> => log'[x] = log[x]
    BY <1>0, <1>1
  <1>3. ASSUME NEW d \in Coins PROVE NamesOwn(d, outs'[d], log', logId')
    <2>1. CASE d = c
      <3>1. outs'[d] = o
        BY <1>0, <2>1
      <3>2. QED
        BY <1>1, <1>2, <2>1, <3>1 DEF NamesOwn
    <2>2. CASE d # c
      <3> DEFINE r == outs[d].root
                 i == outs[d].entry
      <3>1. outs'[d] = outs[d] /\ r \in Paths /\ i \in Ids
        BY <1>0, <2>2 DEF Row
      <3>2. ASSUME outs[d].status # "None"
            PROVE  i < logId'[r] /\ <<r, i>> # <<p, logId[p]>>
        <4>1. i < logId[r]
          BY <3>2 DEF EntryInv, NamesOwn
        <4> HIDE DEF r, i
        <4>2. i \in Int /\ logId[r] \in Int /\ logId'[r] = (IF r = p THEN logId[r] + 1 ELSE logId[r])
          BY <1>0, <3>1, AccountsAssumption DEF Ids
        <4>3. QED
          BY <4>1, <4>2
      <3>3. NamesOwn(d, outs[d], log, logId)
        BY DEF EntryInv
      <3>4. QED
        BY <1>2, <3>1, <3>2, <3>3 DEF NamesOwn
    <2>3. QED
      BY <2>1, <2>2
  <1>4. QED
    BY <1>3 DEF EntryInv

\* Rows and entries keep who they are for while their marks change or rows go.
LEMMA EntryMarked ==
  ASSUME Typed, EntryInv, logId' = logId,
         \A x \in Paths \X Ids : /\ log'[x].coin = log[x].coin
                                 /\ log[x].type # "None" => log'[x].type # "None",
         \A c \in Coins : \/ outs'[c].status = "None"
                          \/ /\ outs[c].status # "None"
                             /\ outs'[c].root = outs[c].root /\ outs'[c].entry = outs[c].entry
  PROVE  EntryInv'
  <1>1. \A c \in Coins : outs[c].root \in Paths /\ outs[c].entry \in Ids
    BY DEF Typed, TypeOK, Row
  <1>2. QED
    BY <1>1 DEF EntryInv, NamesOwn

\* What a refresh changes: marks only.
LEMMA RefreshMarksOnly ==
  ASSUME Typed
  PROVE  /\ \A x \in Paths \X Ids : /\ RefreshedLog[x].coin = log[x].coin
                                    /\ RefreshedLog[x].type = log[x].type
         /\ \A c \in Coins : /\ RefreshedOuts[c].status # "None" => outs[c].status # "None"
                             /\ RefreshedOuts[c].root = outs[c].root
                             /\ RefreshedOuts[c].entry = outs[c].entry
  <1>1. \A x \in Paths \X Ids : log[x] \in Entry
    BY DEF Typed, TypeOK
  <1>2. \A c \in Coins : outs[c] \in Row
    BY DEF Typed, TypeOK
  <1>3. \A e \in Entry : [e EXCEPT !.confirmed = TRUE].coin = e.coin /\ [e EXCEPT !.confirmed = TRUE].type = e.type
    BY DEF Entry
  <1>4. \A o \in Row : [o EXCEPT !.status = "Unspent"].root = o.root /\ [o EXCEPT !.status = "Unspent"].entry = o.entry
    BY DEF Row
  <1>5. \A x \in Paths \X Ids : RefreshedLog[x].coin = log[x].coin /\ RefreshedLog[x].type = log[x].type
    BY <1>1, <1>3 DEF RefreshedLog
  <1>6. \A c \in Coins : \/ RefreshedOuts[c] = outs[c]
                         \/ outs[c].status = "Unconfirmed" /\ RefreshedOuts[c] = [outs[c] EXCEPT !.status = "Unspent"]
    BY DEF RefreshedOuts, Arrived
  <1>7. QED
    BY <1>2, <1>4, <1>5, <1>6

LEMMA EntryStep == ASSUME Typed, EntryInv, [Next]_vars PROVE EntryInv'
  <1>0. /\ log \in [Paths \X Ids -> Entry] /\ outs \in [Coins -> Row] /\ active \in Paths
        /\ child \in [Paths -> 0 .. (MaxChild + 1)] /\ acct \in [Labels -> Paths \cup {NoPath}]
    BY DEF Typed, TypeOK
  <1>1. ASSUME UNCHANGED <<logId, log, outs>> PROVE EntryInv'
    BY <1>1 DEF EntryInv
  <1>2. ASSUME NEW s \in Slates, NEW l \in Labels, ReceiveTx(s, l) PROVE EntryInv'
    <2> DEFINE p == AccountOf(l)
               c == <<active, child[active], "new">>
               e == [type |-> "TxReceived", slate |-> s, confirmed |-> FALSE, coin |-> c]
               o == [status |-> "Unconfirmed", root |-> p, entry |-> logId[p]]
    <2>1. p \in Paths
      BY <1>0 DEF AccountOf
    <2>2. /\ child[active] <= MaxChild /\ logId[p] < MaxIds
          /\ logId' = [logId EXCEPT ![p] = @ + 1]
          /\ log' = [log EXCEPT ![<<p, logId[p]>>] = e] /\ outs' = [outs EXCEPT ![c] = o]
      BY <1>2 DEF ReceiveTx
    <2> HIDE DEF p
    <2>3. c \in Coins
      BY <1>0, <2>2, AccountsAssumption DEF Coins
    <2> HIDE DEF c
    <2>4. e.type = "TxReceived" /\ e.coin = c /\ o.root = p /\ o.entry = logId[p]
      OBVIOUS
    <2> HIDE DEF e, o
    <2>5. QED
      BY <2>1, <2>2, <2>3, <2>4, EntryAdded
  <1>3. CASE Refresh
    <2>1. log' = RefreshedLog /\ outs' = RefreshedOuts /\ logId' = logId
      BY <1>3 DEF Refresh
    <2>2. QED
      BY <2>1, RefreshMarksOnly, EntryMarked
  <1>4. ASSUME NEW i \in Ids, CancelTx(i) PROVE EntryInv'
    <2>1. /\ log' = [RefreshedLog EXCEPT ![<<active, i>>].type = "TxReceivedCancelled"]
          /\ \A c \in Coins : outs'[c] = NoRow \/ outs'[c] = RefreshedOuts[c]
          /\ logId' = logId
      BY <1>4 DEF CancelTx
    <2>2. RefreshedLog \in [Paths \X Ids -> Entry]
      BY RefreshType DEF Typed
    <2>3. \A x \in Paths \X Ids : /\ log'[x].coin = RefreshedLog[x].coin
                                  /\ RefreshedLog[x].type # "None" => log'[x].type # "None"
      BY <2>1, <2>2 DEF Entry
    <2>4. NoRow.status = "None"
      BY DEF NoRow
    <2>5. QED
      BY <2>1, <2>3, <2>4, RefreshMarksOnly, EntryMarked
  <1>5. ASSUME NEW ids, ExportTx(ids) PROVE EntryInv'
    <2>1. log' = RefreshedLog /\ outs' = RefreshedOuts /\ logId' = logId
      BY <1>5 DEF ExportTx
    <2>2. QED
      BY <2>1, RefreshMarksOnly, EntryMarked
  <1>6. CASE ImportTx
    <2>1. \A x \in Paths \X Ids : log'[x] = log[x] \/ x[2] \notin KnownIds
      BY <1>6 DEF ImportTx
    <2>2. logId' = logId /\ outs' = outs
      BY <1>6 DEF ImportTx
    <2>3. ASSUME NEW c \in Coins PROVE NamesOwn(c, outs'[c], log', logId')
      <3> DEFINE r == outs[c].root
                 i == outs[c].entry
      <3>1. r \in Paths /\ i \in Ids /\ NamesOwn(c, outs[c], log, logId)
        BY <1>0 DEF Row, EntryInv
      <3>2. log[<<r, i>>].type # "None" => log'[<<r, i>>] = log[<<r, i>>]
        BY <2>1, <3>1 DEF KnownIds
      <3>3. QED
        BY <2>2, <3>1, <3>2 DEF NamesOwn
    <2>4. QED
      BY <2>3 DEF EntryInv
  <1>7. ASSUME NEW t \in Scanners, NEW c \in Coins, RestoreMissing(t, c) PROVE EntryInv'
    <2> DEFINE p == c[1]
               e == [type |-> "TxReceived", slate |-> NoSlate, confirmed |-> TRUE, coin |-> c]
               o == [status |-> "Unspent", root |-> p, entry |-> logId[p]]
    <2>1. /\ logId[p] < MaxIds /\ logId' = [logId EXCEPT ![p] = @ + 1]
          /\ log' = [log EXCEPT ![<<p, logId[p]>>] = e] /\ outs' = [outs EXCEPT ![c] = o]
      BY <1>7 DEF RestoreMissing, RestoredRow
    <2>2. p \in Paths
      BY DEF Coins
    <2>3. e.type = "TxReceived" /\ e.coin = c /\ o.root = p /\ o.entry = logId[p]
      OBVIOUS
    <2> HIDE DEF p, e, o
    <2>4. QED
      BY <2>1, <2>2, <2>3, EntryAdded
  <1>8. ASSUME NEW t \in Scanners, ScanStep(t) PROVE EntryInv'
    BY <1>1, <1>7, <1>8 DEF ScanStep, CollectChainOutputs, ReadOutputs, ReadAccounts, NameAccount,
                            ReadChildIndex, SaveChildIndex
  <1>9. CASE UNCHANGED vars
    BY <1>1, <1>9 DEF vars
  <1>10. CASE \/ \E l \in UserLabels : CreateAccountPath(l)
              \/ \E l \in Labels : SetActiveAccount(l)
              \/ \E c \in Coins : Mine(c)
              \/ \E t \in Scanners : ScanFails(t)
              \/ Stop
    BY <1>1, <1>10 DEF CreateAccountPath, SetActiveAccount, Mine, ScanFails, Stop
  <1>11. QED
    BY <1>2, <1>3, <1>4, <1>5, <1>6, <1>8, <1>9, <1>10 DEF Next

\* Whatever the scans and imports, and however many at once: the entry an output
\* names in its account is the one made for it.  Ids of log entries are counted per
\* account, and the counter is not advanced by an import.
THEOREM OutputsNameOwn == Spec => []EntryOfOutput
  <1>1. Init => EntryInv
    BY DEF Init, EntryInv, NamesOwn, NoRow
  <1>2. Typed /\ EntryInv /\ [Next]_vars => Typed' /\ EntryInv'
    BY TypesStep, EntryStep
  <1>3. EntryInv => EntryOfOutput
    BY DEF EntryInv, NamesOwn, EntryOfOutput
  <1>4. QED
    BY <1>1, <1>2, <1>3, TypesInit, PTL DEF Spec

-----------------------------------------------------------------------------
(* Labels.  A scan numbers its labels from the count of labels it read.      *)
(* While only one thread scans, every number in use is below that count.     *)

\* With account mapping A: the labels in use, those of a scan's form among them, and
\* the paths with a label.  Of scan s: the paths it found, and those it has to name.
InUse(A)      == {l \in Labels : A[l] # NoPath}
AutosOf(A)    == {l \in Autos : A[l] # NoPath}
NamedIn(A, p) == \E l \in Labels : A[l] = p
FoundBy(s)    == {p \in Paths : s.found[p] >= 0}
LeftOf(s)     == IF s.pc = "name" THEN s.todo ELSE s.todo \ {s.path}
Naming        == {"name", "index", "save"}

\* A number in use is below the number of labels; no path has two such labels.
AutoOk(A) == /\ \A a \in AutosOf(A) : a[2] < Cardinality(InUse(A))
             /\ \A a, b \in AutosOf(A) : A[a] = A[b] => a = b
\* The scan's next number is not in use; the paths it read as named are named, and
\* so are those it is done with; those it has to name have no label of its form.
NamingOk(s, A) ==
  /\ s.index \in 1 .. Cardinality(InUse(A))
  /\ \A a \in AutosOf(A) : a[2] < s.index /\ (A[a] \in s.accounts \/ A[a] \notin LeftOf(s))
  /\ \A p \in s.accounts : NamedIn(A, p)
  /\ \A p \in FoundBy(s) : p \in LeftOf(s) \/ NamedIn(A, p)
ScanOk(s, A) == /\ s.pc \in {"idle", "read"} => FoundBy(s) = {}
                /\ s.pc \in Naming => NamingOk(s, A)
LabelInv == AutoOk(acct) /\ \A t \in Scanners : ScanOk(scan[t], acct)

\* There is a label for every number a scan can come to.
LEMMA EnoughLabels ==
  ASSUME Typed, AutoOk(acct)
  PROVE  /\ IsFiniteSet(InUse(acct))
         /\ Cardinality(InUse(acct)) \in 1 .. (MaxPath + Cardinality(UserLabels) + 2)
  <1> DEFINE A == AutosOf(acct)
             U == InUse(acct)
             V == {Default} \cup UserLabels
             f == [a \in A |-> acct[a]]
  <1>0. acct \in [Labels -> Paths \cup {NoPath}] /\ acct[Default] = 0 /\ Default \in Labels
    BY DEF Typed, TypeOK, Labels
  <1>1. IsFiniteSet(U) /\ Cardinality(U) \in Nat
    BY FiniteLabels DEF InUse, Mapped
  <1>2. Cardinality(U) # 0
    <2>1. Default \in U
      BY <1>0 DEF InUse, NoPath
    <2> HIDE DEF U
    <2>2. QED
      BY <1>1, <2>1, FS_EmptySet
  <1>3. MaxPath \in Nat /\ IsFiniteSet(Paths) /\ Cardinality(Paths) = MaxPath + 1
    BY AccountsAssumption, FS_Interval DEF Paths
  <1>4. f \in Injection(A, Paths)
    <2>1. \A a \in A : acct[a] \in Paths
      BY <1>0 DEF AutosOf, Labels
    <2>2. \A a, b \in A : acct[a] = acct[b] => a = b
      BY DEF AutoOk
    <2> HIDE DEF A
    <2>3. QED
      BY <2>1, <2>2 DEF Injection, IsInjective
  <1>5. IsFiniteSet(A) /\ Cardinality(A) \in Nat /\ Cardinality(A) <= MaxPath + 1
    <2> HIDE DEF A, f
    <2> QED BY <1>3, <1>4, FS_Injection, FS_CardinalityType
  <1>6. IsFiniteSet(V) /\ Cardinality(V) \in Nat /\ Cardinality(V) <= Cardinality(UserLabels) + 1
    <2>1. V = UserLabels \cup {Default} /\ Cardinality(UserLabels) \in Nat
      BY FiniteLabels
    <2> HIDE DEF V
    <2>2. QED
      BY SMTT(30), <2>1, AccountsAssumption, FS_AddElement
  <1>7. U \subseteq V \cup A
    BY DEF InUse, AutosOf, Labels
  <1>8. IsFiniteSet(V \cup A) /\ Cardinality(V \cup A) \in Nat /\ Cardinality(V \cup A) <= Cardinality(V) + Cardinality(A)
    <2> HIDE DEF V, A
    <2>1. /\ IsFiniteSet(V \cup A) /\ IsFiniteSet(V \cap A)
          /\ Cardinality(V \cup A) = Cardinality(V) + Cardinality(A) - Cardinality(V \cap A)
      BY <1>5, <1>6, FS_Union, FS_Intersection
    <2>2. Cardinality(V \cap A) \in Nat /\ Cardinality(V \cup A) \in Nat
      BY <2>1, FS_CardinalityType
    <2>3. QED
      BY <1>5, <1>6, <2>1, <2>2
  <1>9. Cardinality(U) <= Cardinality(V \cup A)
    <2> HIDE DEF U, V, A
    <2> QED BY <1>7, <1>8, FS_Subset
  <1>10. QED
    <2>1. Cardinality(UserLabels) \in Nat
      BY FiniteLabels
    <2> HIDE DEF V, A
    <2>2. QED
      BY <1>1, <1>2, <1>3, <1>5, <1>6, <1>8, <1>9, <2>1

\* A label that was not in use is given to a path.
LEMMA LabelAdded ==
  ASSUME Typed, AutoOk(acct), NEW l \in Labels, acct[l] = NoPath, NEW p \in Paths,
         acct' = [acct EXCEPT ![l] = p]
  PROVE  /\ acct'[l] = p /\ \A k \in Labels : k # l => acct'[k] = acct[k]
         /\ Cardinality(InUse(acct')) = Cardinality(InUse(acct)) + 1
         /\ AutosOf(acct') \subseteq AutosOf(acct) \cup {l}
         /\ NamedIn(acct', p) /\ \A q \in Paths : NamedIn(acct, q) => NamedIn(acct', q)
  <1>0. acct \in [Labels -> Paths \cup {NoPath}] /\ NoPath \notin Paths
    BY DEF Typed, TypeOK, NoPath, Paths
  <1>1. acct'[l] = p /\ \A k \in Labels : k # l => acct'[k] = acct[k]
    BY <1>0
  <1>2. InUse(acct') = InUse(acct) \cup {l} /\ l \notin InUse(acct)
    BY <1>0, <1>1 DEF InUse
  <1>3. Cardinality(InUse(acct')) = Cardinality(InUse(acct)) + 1
    BY <1>2, EnoughLabels, FS_AddElement
  <1>4. AutosOf(acct') \subseteq AutosOf(acct) \cup {l}
    BY <1>1 DEF AutosOf, Labels
  <1>5. NamedIn(acct', p) /\ \A q \in Paths : NamedIn(acct, q) => NamedIn(acct', q)
    BY <1>0, <1>1 DEF NamedIn
  <1>6. QED
    BY <1>1, <1>3, <1>4, <1>5

\* What a step keeps: a label for every path that has one, and of the paths the scan
\* found those that have none, unless the scan ended early.
LabelsKept(t) == /\ \A q \in Paths : NamedIn(acct, q) => NamedIn(acct', q)
                 /\ \A q \in FoundBy(scan[t]) :
                      q \in FoundBy(scan'[t]) \/ NamedIn(acct', q) \/ q \in cut'

\* A path that a scan found has a label or is still to be named by it.
LEMMA FoundToName ==
  ASSUME Typed, LabelInv, NEW t \in Scanners
  PROVE  \A q \in FoundBy(scan[t]) : NamedIn(acct, q) \/ q \in ToName(t)
  <1> DEFINE s == scan[t]
  <1>1. s.pc \in {"idle", "read", "restore", "name", "index", "save"} /\ ScanOk(s, acct)
    BY DEF Typed, TypeOK, ScanState, LabelInv
  <1>2. FoundBy(s) = Found(t)
    BY DEF FoundBy, Found
  <1>3. CASE s.pc \in {"idle", "read"}
    BY <1>1, <1>3 DEF ScanOk
  <1>4. CASE s.pc = "restore"
    BY <1>2, <1>4 DEF ToName, At
  <1>5. CASE s.pc \in Naming
    <2>1. \A q \in FoundBy(s) : q \in LeftOf(s) \/ NamedIn(acct, q)
      BY <1>1, <1>5 DEF ScanOk, NamingOk
    <2>2. QED
      BY <1>2, <1>5, <2>1 DEF LeftOf, ToName, At, Naming
  <1>6. QED
    BY <1>1, <1>3, <1>4, <1>5 DEF Naming

\* The user adds a label, which is not of a scan's form.
LEMMA UserLabel ==
  ASSUME Typed, LabelInv, UserLabels \cap Autos = {}, NEW l \in UserLabels, CreateAccountPath(l)
  PROVE  LabelInv' /\ \A q \in Paths : NamedIn(acct, q) => NamedIn(acct', q)
  <1> DEFINE n == Cardinality(InUse(acct))
  <1>1. PICK p \in Paths : acct' = [acct EXCEPT ![l] = p]
    <2> DEFINE S == {acct[m] : m \in Mapped}
    <2>1. acct' = [acct EXCEPT ![l] = Max(S) + 1] /\ Max(S) + 1 <= MaxPath
      BY DEF CreateAccountPath
    <2>2. S \subseteq Paths /\ S # {}
      BY MappedPaths DEF Typed, Mapped, Labels, NoPath
    <2> HIDE DEF S
    <2>3. Max(S) \in Paths
      BY <2>2, MaxIsIn
    <2>4. Max(S) + 1 \in Paths
      BY <2>1, <2>3, AccountsAssumption DEF Paths
    <2>5. QED
      BY <2>1, <2>4
  <1>2. acct[l] = NoPath /\ l \in Labels /\ scan' = scan /\ l \notin Autos
    BY DEF CreateAccountPath, Labels
  <1>3. /\ \A k \in Labels : k # l => acct'[k] = acct[k]
        /\ Cardinality(InUse(acct')) = n + 1
        /\ AutosOf(acct') \subseteq AutosOf(acct) \cup {l}
        /\ \A q \in Paths : NamedIn(acct, q) => NamedIn(acct', q)
    BY <1>1, <1>2, LabelAdded DEF LabelInv
  <1>4. n \in Nat
    BY EnoughLabels, FS_CardinalityType DEF LabelInv
  <1>5. \A a \in AutosOf(acct') : a \in AutosOf(acct) /\ acct'[a] = acct[a]
    BY <1>2, <1>3 DEF AutosOf, Labels
  <1>6. \A a \in AutosOf(acct) : a[2] < n
    BY DEF LabelInv, AutoOk
  <1> HIDE DEF n
  <1>7. AutoOk(acct')
    <2>1. \A a \in AutosOf(acct) : a[2] < n + 1
      <3>1. \A a \in AutosOf(acct) : a[2] \in Int
        <4>1. \A k : AutoLabel(k)[2] = k
          BY DEF AutoLabel
        <4>2. QED
          BY <4>1 DEF AutosOf, Autos
      <3>2. QED
        BY <1>4, <1>6, <3>1
    <2>2. QED
      BY <1>3, <1>5, <2>1 DEF LabelInv, AutoOk
  <1>8. ASSUME NEW t \in Scanners PROVE ScanOk(scan'[t], acct')
    <2> DEFINE s == scan[t]
    <2>1. ScanOk(s, acct) /\ scan'[t] = s /\ s.accounts \subseteq Paths /\ FoundBy(s) \subseteq Paths
      BY <1>2 DEF LabelInv, Typed, TypeOK, ScanState, FoundBy
    <2> HIDE DEF s
    <2>2. ASSUME s.pc \in Naming PROVE NamingOk(s, acct')
      <3>1. NamingOk(s, acct) /\ s.index \in 1 .. n
        BY <2>1, <2>2 DEF ScanOk, NamingOk, n
      <3>2. s.index \in 1 .. (n + 1)
        BY <1>4, <3>1
      <3>3. \A a \in AutosOf(acct') : /\ a[2] < s.index
                                      /\ acct'[a] \in s.accounts \/ acct'[a] \notin LeftOf(s)
        BY <1>5, <3>1 DEF NamingOk
      <3>4. \A p2 \in s.accounts : NamedIn(acct', p2)
        BY <1>3, <2>1, <3>1 DEF NamingOk
      <3>5. \A p2 \in FoundBy(s) : p2 \in LeftOf(s) \/ NamedIn(acct', p2)
        BY <1>3, <2>1, <3>1 DEF NamingOk
      <3>6. QED
        BY <1>3, <3>2, <3>3, <3>4, <3>5 DEF NamingOk
    <2>3. QED
      BY <2>1, <2>2 DEF ScanOk
  <1>9. QED
    BY <1>3, <1>7, <1>8 DEF LabelInv

\* The only thread that scans gives the next path it found a label, if it has none.
LEMMA ScanLabel ==
  ASSUME Typed, LabelInv, NEW t, Scanners = {t}, NEW p \in Paths, NameAccount(t, p)
  PROVE  LabelInv' /\ LabelsKept(t)
  <1> DEFINE s == scan[t]
             n == Cardinality(InUse(acct))
             a == AutoLabel(s.index)
             i == IF p \notin s.accounts THEN s.index + 1 ELSE s.index
             v == scan'[t]
  <1>0. s \in ScanState /\ s.pc = "name" /\ p \in s.todo
    BY DEF Typed, TypeOK, NameAccount, At
  <1>1. /\ v.pc = "index" /\ v.path = p /\ v.index = i /\ v.todo = s.todo
        /\ v.accounts = s.accounts /\ v.found = s.found
    <2>1. scan' = [scan EXCEPT ![t].pc = "index", ![t].path = p, ![t].index = i]
      BY DEF NameAccount
    <2>2. scan \in [Scanners -> ScanState]
      BY DEF Typed, TypeOK
    <2> HIDE DEF i
    <2>3. QED
      BY <2>1, <2>2 DEF ScanState
  <1>2. FoundBy(v) = FoundBy(s) /\ LeftOf(v) = LeftOf(s) \ {p} /\ p \in LeftOf(s)
    BY <1>0, <1>1 DEF FoundBy, LeftOf
  <1>3. NamingOk(s, acct) /\ AutoOk(acct)
    BY <1>0 DEF LabelInv, ScanOk, Naming
  <1>4. s.accounts \subseteq Paths /\ FoundBy(s) \subseteq Paths /\ s.index \in Nat
    BY <1>0 DEF ScanState, FoundBy
  <1>5. n \in Nat /\ n <= MaxPath + Cardinality(UserLabels) + 2 /\ s.index \in 1 .. n
    BY <1>3, EnoughLabels, FiniteLabels, AccountsAssumption DEF NamingOk
  <1>6. ASSUME AutoOk(acct'), NamingOk(v, acct'), \A q \in Paths : NamedIn(acct, q) => NamedIn(acct', q)
        PROVE  LabelInv' /\ LabelsKept(t)
    BY <1>1, <1>2, <1>6 DEF LabelInv, ScanOk, LabelsKept
  <1>7. CASE p \in s.accounts
    <2>1. acct' = acct /\ i = s.index
      BY <1>7 DEF NameAccount
    <2>2. NamedIn(acct, p)
      BY <1>3, <1>7 DEF NamingOk
    <2> HIDE DEF s, v, i
    <2>3. NamingOk(v, acct)
      BY <1>1, <1>2, <1>3, <2>1, <2>2 DEF NamingOk
    <2>4. QED
      BY <1>3, <1>6, <2>1, <2>3
  <1>8. CASE p \notin s.accounts
    <2>1. a \in Autos /\ a \in Labels /\ a[2] = s.index
      <3>1. s.index \in 1 .. (MaxPath + Cardinality(UserLabels) + 2)
        BY <1>5, FiniteLabels, AccountsAssumption
      <3>2. a \in Autos
        BY <3>1 DEF Autos
      <3>3. QED
        BY <3>2 DEF Labels, AutoLabel
    <2>2. acct' = [acct EXCEPT ![a] = p] /\ i = s.index + 1
      BY <1>8 DEF NameAccount
    <2>3. acct[a] = NoPath
      <3>1. ~(s.index < s.index)
        BY <1>4
      <3>2. QED
        BY <1>3, <2>1, <3>1 DEF NamingOk, AutosOf
    <2>4. /\ acct'[a] = p /\ \A k \in Labels : k # a => acct'[k] = acct[k]
          /\ Cardinality(InUse(acct')) = n + 1
          /\ AutosOf(acct') \subseteq AutosOf(acct) \cup {a}
          /\ NamedIn(acct', p) /\ \A q \in Paths : NamedIn(acct, q) => NamedIn(acct', q)
      BY <1>3, <2>1, <2>2, <2>3, LabelAdded
    <2>5. \A b \in AutosOf(acct') : b = a \/ (b \in AutosOf(acct) /\ acct'[b] = acct[b])
      <3>1. AutosOf(acct) \subseteq Labels /\ a \notin AutosOf(acct)
        BY <2>3 DEF AutosOf, Labels
      <3>2. QED
        BY <2>4, <3>1
    <2> HIDE DEF n, a, s, v, i
    <2>6. \A b \in AutosOf(acct) : /\ b[2] \in Int /\ b[2] < s.index /\ acct[b] # p
                                   /\ acct[b] \in s.accounts \/ acct[b] \notin LeftOf(s)
      <3>1. \A k : AutoLabel(k)[2] = k
        BY DEF AutoLabel
      <3>2. \A b \in AutosOf(acct) : b[2] \in Int
        BY <3>1 DEF AutosOf, Autos
      <3>3. QED
        BY <1>2, <1>3, <1>8, <3>2 DEF NamingOk
    <2>7. AutoOk(acct')
      <3>1. \A b \in AutosOf(acct') : b[2] < n + 1
        BY <1>5, <2>1, <2>5, <2>6
      <3>2. \A b, c \in AutosOf(acct') : acct'[b] = acct'[c] => b = c
        BY <1>3, <2>4, <2>5, <2>6 DEF AutoOk
      <3>3. QED
        BY <2>4, <3>1, <3>2 DEF AutoOk
    <2>8. NamingOk(v, acct')
      <3>1. v.index \in 1 .. Cardinality(InUse(acct'))
        BY <1>1, <1>5, <2>2, <2>4
      <3>2. \A b \in AutosOf(acct') : b[2] < v.index
        BY <1>1, <1>4, <2>1, <2>2, <2>5, <2>6
      <3>3. \A b \in AutosOf(acct') : acct'[b] \in v.accounts \/ acct'[b] \notin LeftOf(v)
        BY <1>1, <1>2, <2>4, <2>5, <2>6
      <3>4. \A q \in v.accounts : NamedIn(acct', q)
        BY <1>1, <1>3, <1>4, <2>4 DEF NamingOk
      <3>5. \A q \in FoundBy(v) : q \in LeftOf(v) \/ NamedIn(acct', q)
        BY <1>2, <1>3, <1>4, <2>4 DEF NamingOk
      <3>6. QED
        BY <3>1, <3>2, <3>3, <3>4, <3>5 DEF NamingOk
    <2>9. QED
      BY <1>6, <2>4, <2>7, <2>8
  <1>9. QED
    BY <1>7, <1>8

\* Every step, while only t scans and the user's labels are not of a scan's form.
LEMMA LabelStep ==
  ASSUME Typed, LabelInv, NEW t, Scanners = {t}, UserLabels \cap Autos = {}, [Next]_vars
  PROVE  LabelInv' /\ LabelsKept(t)
  <1> DEFINE s == scan[t]
  <1>0. scan \in [Scanners -> ScanState] /\ t \in Scanners /\ s \in ScanState
    BY DEF Typed, TypeOK
  <1>1. ASSUME UNCHANGED <<acct, scan>> PROVE LabelInv' /\ LabelsKept(t)
    BY <1>1 DEF LabelInv, LabelsKept
  <1>2. ASSUME NEW l \in UserLabels, CreateAccountPath(l) PROVE LabelInv' /\ LabelsKept(t)
    <2>1. scan' = scan
      BY <1>2 DEF CreateAccountPath
    <2>2. QED
      BY <1>2, <2>1, UserLabel DEF LabelsKept
  <1>3. ASSUME NEW v, scan' = [scan EXCEPT ![t] = v], acct' = acct, ScanOk(v, acct),
               \A q \in FoundBy(s) : q \in FoundBy(v) \/ NamedIn(acct, q)
        PROVE  LabelInv' /\ LabelsKept(t)
    BY <1>0, <1>3 DEF LabelInv, LabelsKept
  <1>4. FoundBy(Idle) = {} /\ ScanOk(Idle, acct)
    <2>1. FoundBy(Idle) = {}
      BY DEF FoundBy, Idle
    <2>2. Idle.pc = "idle"
      BY DEF Idle
    <2>3. QED
      BY <2>1, <2>2 DEF ScanOk, Naming
  <1>5. ASSUME NEW v, v.found = s.found, v.accounts = s.accounts, v.index = s.index,
               LeftOf(v) = LeftOf(s), s.pc \in Naming, v.pc \in Naming
        PROVE  ScanOk(v, acct) /\ \A q \in FoundBy(s) : q \in FoundBy(v)
    <2>1. FoundBy(v) = FoundBy(s)
      BY <1>5 DEF FoundBy
    <2>2. NamingOk(s, acct)
      BY <1>0, <1>5 DEF LabelInv, ScanOk
    <2> HIDE DEF s
    <2>3. NamingOk(v, acct)
      BY <1>5, <2>1, <2>2 DEF NamingOk
    <2>4. QED
      BY <1>5, <2>1, <2>3 DEF ScanOk, Naming
  <1>6. ASSUME s.pc \in {"index", "save"}
        PROVE  /\ ScanOk(NextPath(t), acct)
               /\ \A q \in FoundBy(s) : q \in FoundBy(NextPath(t)) \/ NamedIn(acct, q)
    <2> DEFINE todo == s.todo \ {s.path}
               v == [s EXCEPT !.pc = "name", !.todo = todo]
    <2>1. LeftOf(s) = todo
      BY <1>6 DEF LeftOf
    <2>2. CASE todo = {}
      <3>1. NextPath(t) = Idle
        BY <2>2 DEF NextPath
      <3>2. \A q \in FoundBy(s) : NamedIn(acct, q)
        BY <1>0, <1>6, <2>1, <2>2 DEF LabelInv, ScanOk, NamingOk, Naming
      <3>3. QED
        BY <1>4, <3>1, <3>2
    <2>3. CASE todo # {}
      <3>1. NextPath(t) = v
        BY <2>3 DEF NextPath
      <3>2. /\ v.found = s.found /\ v.accounts = s.accounts /\ v.index = s.index
            /\ v.pc = "name" /\ v.todo = todo
        BY <1>0 DEF ScanState
      <3> HIDE DEF v
      <3>3. LeftOf(v) = LeftOf(s)
        BY <2>1, <3>2 DEF LeftOf
      <3>4. QED
        BY <1>5, <1>6, <3>1, <3>2, <3>3 DEF Naming
    <2>4. QED
      BY <2>2, <2>3
  <1>7. ASSUME NEW from, CollectChainOutputs(t, from) PROVE LabelInv' /\ LabelsKept(t)
    <2> DEFINE m == chain \ {<<Old[i][1], Old[i][2], "old">> : i \in 1 .. (from - 1)}
               v == [Idle EXCEPT !.pc = "read", !.miss = m]
    <2>1. scan' = [scan EXCEPT ![t] = v] /\ acct' = acct /\ s.pc = "idle"
      BY <1>7 DEF CollectChainOutputs, At
    <2>2. v.pc = "read" /\ v.found = Idle.found
      <3> HIDE DEF m
      <3> QED BY DEF Idle
    <2> HIDE DEF v
    <2>3. FoundBy(v) = {} /\ ScanOk(v, acct)
      BY <1>4, <2>2 DEF FoundBy, ScanOk, Naming
    <2>4. FoundBy(s) = {}
      BY <1>0, <2>1 DEF LabelInv, ScanOk
    <2>5. QED
      BY <1>3, <2>1, <2>3, <2>4
  <1>8. CASE ReadOutputs(t)
    <2> DEFINE m == {c \in s.miss : outs[c].status = "None"}
               v == [s EXCEPT !.pc = "restore", !.miss = m]
    <2>1. scan' = [scan EXCEPT ![t] = v] /\ acct' = acct
      BY <1>0, <1>8 DEF ReadOutputs
    <2> HIDE DEF m
    <2>2. v.pc = "restore" /\ v.found = s.found
      BY <1>0 DEF ScanState
    <2> HIDE DEF v
    <2>3. ScanOk(v, acct) /\ FoundBy(v) = FoundBy(s)
      BY <2>2 DEF ScanOk, Naming, FoundBy
    <2>4. QED
      BY <1>3, <2>1, <2>3
  <1>9. ASSUME NEW c \in Coins, RestoreMissing(t, c) PROVE LabelInv' /\ LabelsKept(t)
    <2> DEFINE f == [s.found EXCEPT ![c[1]] = Max({@, c[2]})]
               v == [s EXCEPT !.miss = @ \ {c}, !.found = f]
    <2>1. scan' = [scan EXCEPT ![t] = v] /\ acct' = acct /\ s.pc = "restore"
      BY <1>0, <1>9 DEF RestoreMissing, RestoredRow, At
    <2>2. \A q \in Paths : s.found[q] >= 0 => f[q] >= 0
      <3>1. s.found \in [Paths -> -1 .. MaxChild] /\ c[1] \in Paths /\ c[2] \in 0 .. MaxChild
        BY <1>0 DEF ScanState, Coins
      <3>2. Max({s.found[c[1]], c[2]}) >= 0
        BY <3>1, MaxOfTwo, AccountsAssumption
      <3>3. QED
        BY <3>1, <3>2
    <2> HIDE DEF f
    <2>3. v.pc = s.pc /\ v.found = f
      BY <1>0 DEF ScanState
    <2> HIDE DEF v
    <2>4. ScanOk(v, acct)
      BY <2>1, <2>3 DEF ScanOk, Naming
    <2>5. \A q \in FoundBy(s) : q \in FoundBy(v)
      BY <2>2, <2>3 DEF FoundBy
    <2>6. QED
      BY <1>3, <2>1, <2>4, <2>5
  <1>10. CASE ReadAccounts(t)
    <2> DEFINE A == {acct[l] : l \in Mapped}
               n == Cardinality(Mapped)
               v == [s EXCEPT !.pc = "name", !.todo = Found(t), !.accounts = A, !.index = n]
    <2>1. acct' = acct
      BY <1>10 DEF ReadAccounts
    <2>2. Found(t) = FoundBy(s) /\ Mapped = InUse(acct)
      BY DEF Found, FoundBy, Mapped, InUse
    <2>3. CASE Found(t) = {}
      <3>1. scan' = [scan EXCEPT ![t] = Idle]
        BY <1>10, <2>3 DEF ReadAccounts
      <3>2. QED
        BY <1>3, <1>4, <2>1, <2>2, <2>3, <3>1
    <2>4. CASE Found(t) # {}
      <3>1. scan' = [scan EXCEPT ![t] = v]
        BY <1>10, <2>4 DEF ReadAccounts
      <3>2. \A a \in AutosOf(acct) : acct[a] \in A
        BY DEF AutosOf, Mapped, Labels
      <3>3. \A q \in A : NamedIn(acct, q)
        BY DEF NamedIn, Mapped
      <3>4. n \in 1 .. n
        BY <2>2, EnoughLabels, FiniteLabels, AccountsAssumption DEF LabelInv
      <3>5. AutoOk(acct) /\ n = Cardinality(InUse(acct))
        BY <2>2 DEF LabelInv
      <3> HIDE DEF A, n
      <3>6. v.pc = "name" /\ v.todo = Found(t) /\ v.accounts = A /\ v.index = n /\ v.found = s.found
        BY <1>0 DEF ScanState
      <3> HIDE DEF v
      <3>7. LeftOf(v) = FoundBy(v) /\ FoundBy(v) = FoundBy(s)
        BY <2>2, <3>6 DEF LeftOf, FoundBy
      <3>8. NamingOk(v, acct)
        BY <3>2, <3>3, <3>4, <3>5, <3>6, <3>7 DEF NamingOk, AutoOk
      <3>9. ScanOk(v, acct)
        BY <3>6, <3>8 DEF ScanOk
      <3>10. QED
        BY <1>3, <2>1, <3>1, <3>7, <3>9
    <2>5. QED
      BY <2>3, <2>4
  <1>11. CASE ReadChildIndex(t)
    <2> DEFINE v == [s EXCEPT !.pc = "save"]
    <2>1. acct' = acct /\ s.pc = "index"
      BY <1>11 DEF ReadChildIndex, At
    <2>2. \/ scan' = [scan EXCEPT ![t] = v]
          \/ scan' = [scan EXCEPT ![t] = NextPath(t)]
      BY <1>0, <1>11 DEF ReadChildIndex
    <2>3. /\ v.found = s.found /\ v.accounts = s.accounts /\ v.index = s.index
          /\ v.pc = "save" /\ v.todo = s.todo /\ v.path = s.path
      BY <1>0 DEF ScanState
    <2> HIDE DEF v
    <2>4. LeftOf(v) = LeftOf(s)
      BY <2>1, <2>3 DEF LeftOf
    <2>5. ScanOk(v, acct) /\ \A q \in FoundBy(s) : q \in FoundBy(v)
      BY <1>5, <2>1, <2>3, <2>4 DEF Naming
    <2>6. QED
      BY <1>3, <1>6, <2>1, <2>2, <2>5
  <1>12. CASE SaveChildIndex(t)
    <2>1. acct' = acct /\ s.pc = "save" /\ scan' = [scan EXCEPT ![t] = NextPath(t)]
      BY <1>12 DEF SaveChildIndex, At
    <2>2. QED
      BY <1>3, <1>6, <2>1
  <1>13. ASSUME NEW x \in Scanners, ScanStep(x) PROVE LabelInv' /\ LabelsKept(t)
    BY <1>7, <1>8, <1>9, <1>10, <1>11, <1>12, <1>13, ScanLabel DEF ScanStep
  <1>14. CASE UNCHANGED vars
    BY <1>1, <1>14 DEF vars
  <1>15. CASE Stop \/ \E x \in Scanners : ScanFails(x)
    <2>1. scan' = [x \in Scanners |-> Idle] /\ acct' = acct
      BY <1>0, <1>15 DEF Stop, ScanFails
    <2>2. Nameless(t) \subseteq cut'
      BY <1>15 DEF Stop, ScanFails
    <2>3. \A q \in FoundBy(s) : NamedIn(acct, q) \/ q \in cut'
      BY <1>0, <2>2, FoundToName DEF Nameless, Named, NamedIn
    <2>4. QED
      BY <1>4, <2>1, <2>3 DEF LabelInv, LabelsKept
  <1>16. QED
    BY <1>1, <1>2, <1>13, <1>14, <1>15 DEF Next, SetActiveAccount, ReceiveTx, Mine, Refresh,
                                           CancelTx, ExportTx, ImportTx

LEMMA LabelInit == Init => LabelInv
  <1> SUFFICES ASSUME Init PROVE LabelInv
    OBVIOUS
  <1>1. AutosOf(acct) = {}
    <2>1. Autos \subseteq Labels /\ Default \notin Autos
      BY DEF Autos, Labels, AutoLabel, Default
    <2>2. QED
      BY <2>1 DEF Init, AutosOf
  <1>2. AutoOk(acct)
    BY <1>1 DEF AutoOk
  <1>3. \A t \in Scanners : scan[t].pc = "idle" /\ FoundBy(scan[t]) = {}
    BY DEF Init, Idle, FoundBy
  <1>4. QED
    BY <1>2, <1>3 DEF LabelInv, ScanOk, Naming

\* While one thread scans and no label of the user has the form a scan gives, an
\* account never loses its last label: the labels a scan numbers from a count it read
\* earlier never replace another, whatever accounts the user creates meanwhile.
THEOREM LabelsStay ==
  ASSUME NEW t, Scanners = {t}, UserLabels \cap Autos = {}
  PROVE  Spec => PathKept
  <1>1. Typed /\ LabelInv /\ [Next]_vars => Typed' /\ LabelInv'
    BY TypesStep, LabelStep
  <1>2. Typed /\ LabelInv /\ [Next]_vars => [\A p \in Paths : Named(p) => Named(p)']_vars
    <2> SUFFICES ASSUME Typed, LabelInv, [Next]_vars PROVE \A p \in Paths : Named(p) => Named(p)'
      OBVIOUS
    <2>1. \A p \in Paths : NamedIn(acct, p) => NamedIn(acct', p)
      BY LabelStep DEF LabelsKept
    <2>2. QED
      BY <2>1 DEF NamedIn, Named
  <1>3. QED
    BY <1>1, <1>2, TypesInit, LabelInit, PTL DEF Spec, PathKept

\* A restored output is the business of the scan until its account has a label, or the
\* scan ended early.
RestoredInv == \A c \in Coins : c[3] = "old" /\ outs[c].status # "None" =>
                 \/ NamedIn(acct, c[1]) \/ c[1] \in cut
                 \/ \E t \in Scanners : c[1] \in FoundBy(scan[t])

\* No step forgets a scan that ended early.
LEMMA CutGrows == ASSUME [Next]_vars PROVE cut \subseteq cut'
  BY DEF Next, vars, CreateAccountPath, SetActiveAccount, ReceiveTx, Mine, Refresh, CancelTx,
         ExportTx, ImportTx, ScanStep, CollectChainOutputs, ReadOutputs, RestoreMissing,
         ReadAccounts, NameAccount, ReadChildIndex, SaveChildIndex, ScanFails, Stop

\* Only the scan writes the row of an old coin that has none.
LEMMA OldRows ==
  ASSUME Typed, [Next]_vars, NEW c \in Coins, c[3] = "old", outs[c].status = "None",
         outs'[c].status # "None"
  PROVE  \E t \in Scanners : c[1] \in FoundBy(scan'[t])
  <1>0. outs \in [Coins -> Row] /\ scan \in [Scanners -> ScanState]
    BY DEF Typed, TypeOK
  <1>1. RefreshedOuts[c].status = "None" /\ NoRow.status = "None"
    BY RefreshMarksOnly DEF NoRow
  <1>2. ASSUME NEW s \in Slates, NEW l \in Labels, ReceiveTx(s, l) PROVE FALSE
    <2>1. \E p, o : outs' = [outs EXCEPT ![<<active, child[active], "new">>] = o]
      BY <1>2 DEF ReceiveTx
    <2>2. c # <<active, child[active], "new">>
      OBVIOUS
    <2>3. QED
      BY <1>0, <2>1, <2>2
  <1>3. ASSUME NEW t \in Scanners, NEW d \in Coins, RestoreMissing(t, d)
        PROVE  c[1] \in FoundBy(scan'[t])
    <2> DEFINE s == scan[t]
               f == [s.found EXCEPT ![d[1]] = Max({@, d[2]})]
    <2>1. \E o : outs' = [outs EXCEPT ![d] = o]
      BY <1>3 DEF RestoreMissing, RestoredRow
    <2>2. c = d
      BY <1>0, <2>1
    <2>3. s \in ScanState /\ d[1] \in Paths /\ d[2] \in 0 .. MaxChild
      BY <1>0 DEF Coins
    <2>4. scan'[t].found = f
      BY <1>0, <1>3, <2>3 DEF RestoreMissing, ScanState
    <2>5. s.found \in [Paths -> -1 .. MaxChild]
      BY <2>3 DEF ScanState
    <2>6. f[d[1]] >= 0
      BY <2>3, <2>5, MaxOfTwo, AccountsAssumption
    <2>7. QED
      BY <2>2, <2>3, <2>4, <2>6 DEF FoundBy
  <1>4. outs' # outs
    OBVIOUS
  <1>5. CASE UNCHANGED vars
    BY <1>4, <1>5 DEF vars
  <1>6. ASSUME NEW t \in Scanners, ScanStep(t) PROVE c[1] \in FoundBy(scan'[t])
    BY <1>3, <1>4, <1>6 DEF ScanStep, CollectChainOutputs, ReadOutputs, ReadAccounts, NameAccount,
                            ReadChildIndex, SaveChildIndex
  <1>7. ~Refresh /\ \A ids : ~ExportTx(ids)
    BY <1>1 DEF Refresh, ExportTx
  <1>8. \A i \in Ids : ~CancelTx(i)
    BY <1>1 DEF CancelTx
  <1>9. QED
    BY <1>2, <1>4, <1>5, <1>6, <1>7, <1>8 DEF Next, CreateAccountPath, SetActiveAccount, Mine,
                                              ImportTx, ScanFails, Stop

\* While one thread scans and no label of the user has the form a scan gives, the
\* account of a restored output has a label or the scan that restored it is still to
\* give it one: only a scan that ends early, by an error or with the process, leaves
\* restored funds in an account that cannot be selected.
THEOREM RestoredNamed ==
  ASSUME NEW t, Scanners = {t}, UserLabels \cap Autos = {}
  PROVE  Spec => []RestoredIsNamed
  <1>1. Init => RestoredInv
    BY DEF Init, RestoredInv, NoRow
  <1>2. Typed /\ LabelInv /\ RestoredInv /\ [Next]_vars => Typed' /\ LabelInv' /\ RestoredInv'
    <2> SUFFICES ASSUME Typed, LabelInv, RestoredInv, [Next]_vars
                 PROVE  Typed' /\ LabelInv' /\ RestoredInv'
      OBVIOUS
    <2>1. Typed' /\ LabelInv' /\ LabelsKept(t)
      BY TypesStep, LabelStep
    <2>2. ASSUME NEW c \in Coins, c[3] = "old", outs'[c].status # "None"
          PROVE  \/ NamedIn(acct', c[1]) \/ c[1] \in cut'
                 \/ \E x \in Scanners : c[1] \in FoundBy(scan'[x])
      <3>1. c[1] \in Paths
        BY DEF Coins
      <3>2. CASE outs[c].status = "None"
        BY <2>2, <3>2, OldRows
      <3>3. CASE outs[c].status # "None"
        <4>1. NamedIn(acct, c[1]) \/ c[1] \in FoundBy(scan[t]) \/ c[1] \in cut
          BY <2>2, <3>3 DEF RestoredInv
        <4>2. QED
          BY <2>1, <3>1, <4>1, CutGrows DEF LabelsKept
      <3>4. QED
        BY <3>2, <3>3
    <2>3. RestoredInv'
      BY <2>2 DEF RestoredInv
    <2>4. QED
      BY <2>1, <2>3
  <1>3. Typed /\ LabelInv /\ RestoredInv => RestoredIsNamed
    BY FoundToName DEF RestoredInv, RestoredIsNamed, NamedIn, Named
  <1>4. QED
    BY <1>1, <1>2, <1>3, TypesInit, LabelInit, PTL DEF Spec
=============================================================================
