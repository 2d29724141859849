------------------------- MODULE WalletStoreProofs -------------------------
(* Proofs about WalletStore for any number of processes, outputs, operations *)
(* and crashes.                                                             *)
EXTENDS WalletStore, SequenceTheorems, TLAPS

ProcRecs == [op : Groups \cup {"idle", "down"}, pc : {"next", "execute", "write"},
             todo : Seq(Stmts), form : {"none", "insert", "update", "delete"},
             tries : 0 .. MaxRetries, beaten : BOOLEAN, id : 0 .. MaxIds,
             res : {"none", "ok", "failed"}]

\* The table as a map.
TableOf(R) == [k \in Keys |-> IF \E r \in R : r.key = k THEN (CHOOSE r \in R : r.key = k).val ELSE Absent]
Table == TableOf(rows)

Child == <<"child", 0>>
LogId == <<"logid", 0>>
HistId == <<"histid", 0>>

\* Which values are written under which keys.
Fits(k, v) ==
    /\ k \in Counters => v \in {"num"} \X (0 .. MaxIds)
    /\ k \in OutKeys \cup HistKeys => v \in Versions
    /\ k \in LogKeys => v \in {"tx"} \X (1 .. MaxOps)
    /\ v \in Values

\* The key is UNIQUE.
RowsOK(R) ==
    /\ R \subseteq [key : Keys, val : Values]
    /\ \A r \in R : Fits(r.key, r.val)
    /\ \A r, s \in R : r.key = s.key => r = s

\* Which rows the operations of a group write, and which of them they delete.
Deletable == OutKeys \cup {Plain}
KeysOf(g) ==
    CASE g = "child" -> {Child}
      [] g = "log" -> {LogId} \cup LogKeys
      [] g = "out" -> {HistId} \cup HistKeys \cup OutKeys
      [] OTHER -> {Plain}
StmtOK(g, s) ==
    /\ s \in Stmts /\ s.key \in KeysOf(g)
    /\ s.kind = "put" => Fits(s.key, s.val)
    /\ s.kind = "delete" => s.key \in Deletable

\* A statement under way is the first that is left to do.  An UPDATE has its row, unless a DELETE
\* came between.
ProcOK(r, T) ==
    /\ r.pc # "next" =>
          /\ r.todo # <<>> /\ Head(r.todo).kind \in {"put", "delete"}
          /\ r.form = "delete" <=> Head(r.todo).kind = "delete"
          /\ r.form # "none"
          /\ r.form = "update" => T[Head(r.todo).key] # Absent \/ (r.beaten /\ Head(r.todo).key \in Deletable)
    /\ r.op \in {"idle", "down"} => r.todo = <<>>
    /\ \A i \in 1 .. Len(r.todo) : StmtOK(r.op, r.todo[i])

CoreInv ==
    /\ TypeOK
    /\ RowsOK(rows)
    /\ \A p \in Procs : ProcOK(proc[p], Table)
    /\ \A p \in Procs : writer = p <=> proc[p].pc = "write"

\* The value of a counter in the table T.
Count(T, c) == IF T[c] = Absent THEN 0 ELSE T[c][2]
InHist(T, v) == \E k \in HistKeys : T[k] = v
Alone(g) == \A p, q \in Procs : proc[p].op = g /\ proc[q].op = g => p = q

\* next_child and save_child_index: what was handed out is below the counter, what is about to be is
\* new.  A scan that has compared is alone with the counter, which is not above the index it found.
ChildTodo(r, T, h) ==
    \/ r.todo = <<>> /\ r.id < Count(T, Child) /\ r.id \notin h
    \/ r.todo = <<put(Child, num(r.id + 1))>> /\ Count(T, Child) <= r.id
ScanInv ==
    \A p \in Procs : scan[p] # NoScan =>
      /\ Count(Table, Child) <= scan[p]
      /\ \A q \in Procs : proc[q].op # "child" /\ (scan[q] # NoScan => q = p)
ChildInv ==
    "child" \notin overlap =>
      /\ Alone("child") /\ ~reused /\ ScanInv
      /\ \A i \in handed : i < Count(Table, Child)
      /\ \A p \in Procs : proc[p].op = "child" => ChildTodo(proc[p], Table, handed)

\* next_tx_log_id and save_tx_log_entry: there is no entry yet under an id that is being given out.
LogTodo(t, T) ==
    \/ t = <<>>
    \/ \E n \in 0 .. MaxIds, v \in {"tx"} \X (1 .. MaxOps) :
          \/ t = <<put(<<"log", n>>, v)>> /\ n < Count(T, LogId) /\ T[<<"log", n>>] = Absent
          \/ t = <<put(LogId, num(n + 1)), put(<<"log", n>>, v)>> /\ n = Count(T, LogId)
LogInv ==
    "log" \notin overlap =>
      /\ Alone("log")
      /\ \A n \in 0 .. MaxIds : Table[<<"log", n>>] # Absent => n < Count(Table, LogId)
      /\ \A t \in entries : \E k \in LogKeys : Table[k] = <<"tx", t>>
      /\ \A p \in Procs : proc[p].op = "log" => LogTodo(proc[p].todo, Table)

\* save, delete and save_output_history: what is about to be overwritten or deleted is in the
\* history, or is one of the versions that are still to be put there (the statements from m on).
Covered(t, T, m) ==
    LET l == t[Len(t)]
    IN  \/ T[l.key] = Absent
        \/ l.kind = "put" /\ T[l.key] = l.val
        \/ InHist(T, T[l.key])
        \/ \E i \in m .. Len(t) - 1 : /\ t[i].kind = "hist" \/ t[i].key \in HistKeys
                                      /\ t[i].val = T[l.key]
OutTodo(t, T) ==
    t # <<>> =>
      /\ t[Len(t)].key \in OutKeys /\ t[Len(t)].kind \in {"put", "delete"}
      /\ \A i \in 1 .. Len(t) - 1 : t[i].kind = "hist" \/ t[i].key \in HistKeys \cup {HistId}
      /\ \A i \in 2 .. Len(t) : t[i].key # HistId
      /\ t[1].key = HistId => /\ Len(t) > 2 /\ t[2].key = <<"hist", Count(T, HistId)>>
                              /\ t[1].val = num(Count(T, HistId) + 1)
      /\ \A i \in 1 .. Len(t) : t[i].key \in HistKeys =>
            \/ i = 1 /\ T[t[1].key] = Absent /\ t[1].key[2] < Count(T, HistId)
            \/ i = 2 /\ t[1].key = HistId
      /\ Covered(t, T, 1)
HistInv ==
    "out" \notin overlap =>
      /\ Alone("out")
      /\ \A n \in 0 .. MaxIds : Table[<<"hist", n>>] # Absent => n < Count(Table, HistId)
      /\ \A v \in past : InHist(Table, v[2])
      /\ \A p \in Procs : proc[p].op = "out" => OutTodo(proc[p].todo, Table)

-----------------------------------------------------------------------------
(* Keys, values and the table. *)

LEMMA KeyTypes ==
  /\ Child \in Keys /\ LogId \in Keys /\ HistId \in Keys /\ Plain \in Keys
  /\ Counters = {Child, LogId, HistId} /\ Child # LogId /\ Child # HistId /\ LogId # HistId
  /\ \A n \in 0 .. MaxIds : /\ <<"log", n>> \in LogKeys /\ <<"hist", n>> \in HistKeys
  /\ \A o \in Outs : <<"out", o>> \in OutKeys
  /\ OutKeys \subseteq Keys /\ HistKeys \subseteq Keys /\ LogKeys \subseteq Keys
  BY DEF Child, LogId, HistId, Keys, Counters, OutKeys, HistKeys, LogKeys

LEMMA KeysApart ==
  /\ Plain \notin OutKeys \cup HistKeys \cup LogKeys \cup Counters
  /\ \A k \in OutKeys : k \notin HistKeys \cup LogKeys \cup Counters
  /\ \A k \in HistKeys : k \notin LogKeys \cup Counters
  /\ \A k \in LogKeys : k \notin Counters
  BY DEF Plain, Counters, OutKeys, HistKeys, LogKeys

LEMMA Prefixes ==
  ASSUME NEW k \in Keys
  PROVE  (k[1] = "hist" <=> k \in HistKeys) /\ (k[1] = "log" <=> k \in LogKeys)
  <1>1. \A j \in OutKeys : j[1] = "out"
    BY DEF OutKeys
  <1>2. \A j \in HistKeys : j[1] = "hist"
    BY DEF HistKeys
  <1>3. \A j \in LogKeys : j[1] = "log"
    BY DEF LogKeys
  <1>4. \A j \in Counters \cup {Plain} : j[1] \notin {"hist", "log"}
    BY DEF Counters, Plain
  <1> QED
    BY <1>1, <1>2, <1>3, <1>4 DEF Keys

LEMMA AbsentIsNone == Absent \notin Values /\ <<"data", 0>> \in Values /\ Versions \subseteq Values
  BY DEF Absent, Values, Versions, Statuses

\* Looking up a row.
LEMMA TableRow ==
  ASSUME NEW R, RowsOK(R), NEW r \in R
  PROVE  r.key \in Keys /\ r.val \in Values /\ TableOf(R)[r.key] = r.val
  BY DEF RowsOK, TableOf

LEMMA TableNone ==
  ASSUME NEW R, NEW k \in Keys, ~\E r \in R : r.key = k
  PROVE  TableOf(R)[k] = Absent
  BY DEF TableOf

LEMMA TableTypes ==
  ASSUME NEW R, RowsOK(R)
  PROVE  /\ TableOf(R) \in [Keys -> Values \cup {Absent}]
         /\ \A k \in Keys : TableOf(R)[k] # Absent => Fits(k, TableOf(R)[k])
         /\ \A k \in Keys : (\E r \in R : r.key = k) <=> TableOf(R)[k] # Absent
  <1>1. ASSUME NEW k \in Keys
        PROVE  /\ TableOf(R)[k] \in Values \cup {Absent}
               /\ TableOf(R)[k] # Absent => Fits(k, TableOf(R)[k])
               /\ (\E r \in R : r.key = k) <=> TableOf(R)[k] # Absent
    <2>1. CASE \E r \in R : r.key = k
      <3>1. PICK r \in R : r.key = k
        BY <2>1
      <3>2. TableOf(R)[k] = r.val /\ r.val \in Values /\ Fits(k, r.val)
        BY <3>1, TableRow DEF RowsOK
      <3> QED
        BY <2>1, <3>2, AbsentIsNone
    <2>2. CASE ~\E r \in R : r.key = k
      BY <2>2, TableNone
    <2> QED
      BY <2>1, <2>2
  <1>2. TableOf(R) = [k \in Keys |-> TableOf(R)[k]]
    BY DEF TableOf
  <1> QED
    BY <1>1, <1>2

\* A map that agrees with the rows is the table.
LEMMA TableIs ==
  ASSUME NEW R, RowsOK(R), NEW T, T = [k \in Keys |-> T[k]],
         \A r \in R : T[r.key] = r.val,
         \A k \in Keys : T[k] # Absent => \E r \in R : r.key = k
  PROVE  TableOf(R) = T
  <1>1. ASSUME NEW k \in Keys PROVE TableOf(R)[k] = T[k]
    BY TableRow, TableNone
  <1>2. TableOf(R) = [k \in Keys |-> TableOf(R)[k]]
    BY DEF TableOf
  <1> QED
    BY <1>1, <1>2

LEMMA TableInsert ==
  ASSUME NEW R, RowsOK(R), NEW k \in Keys, NEW v, Fits(k, v), TableOf(R)[k] = Absent
  PROVE  /\ RowsOK(R \cup {[key |-> k, val |-> v]})
         /\ TableOf(R \cup {[key |-> k, val |-> v]}) = [TableOf(R) EXCEPT ![k] = v]
  <1> DEFINE new == [key |-> k, val |-> v]
             N == R \cup {new}
             T == [TableOf(R) EXCEPT ![k] = v]
  <1>0. new.key = k /\ new.val = v /\ new \in [key : Keys, val : Values]
    BY DEF Fits
  <1> HIDE DEF new
  <1>1. \A r \in R : r.key # k
    BY TableTypes
  <1>2. RowsOK(N)
    BY <1>0, <1>1 DEF RowsOK
  <1>3. TableOf(R) \in [Keys -> Values \cup {Absent}]
    BY TableTypes
  <1>4. T = [j \in Keys |-> T[j]] /\ T[k] = v /\ \A j \in Keys : j # k => T[j] = TableOf(R)[j]
    BY <1>3
  <1> HIDE DEF T
  <1>5. \A r \in N : T[r.key] = r.val
    BY <1>0, <1>1, <1>4, TableRow
  <1>6. \A j \in Keys : T[j] # Absent => \E r \in N : r.key = j
    BY <1>0, <1>4, TableTypes
  <1> HIDE DEF N
  <1>7. TableOf(N) = T
    BY <1>2, <1>4, <1>5, <1>6, TableIs
  <1> QED
    BY <1>2, <1>7 DEF N, T, new

LEMMA TableUpdate ==
  ASSUME NEW R, RowsOK(R), NEW k \in Keys, NEW v, Fits(k, v),
         NEW N, \A x : x \in N <=> \E r \in R : x = IF r.key = k THEN [r EXCEPT !.val = v] ELSE r
  PROVE  /\ RowsOK(N)
         /\ TableOf(R)[k] # Absent => TableOf(N) = [TableOf(R) EXCEPT ![k] = v]
         /\ TableOf(R)[k] = Absent => TableOf(N) = TableOf(R)
  <1> DEFINE upd(r) == IF r.key = k THEN [r EXCEPT !.val = v] ELSE r
  <1>1. \A r \in R : /\ upd(r).key = r.key /\ upd(r) \in [key : Keys, val : Values]
                     /\ upd(r).val = IF r.key = k THEN v ELSE r.val
                     /\ r.key # k => upd(r) = r
    BY DEF RowsOK, Fits
  <1>2. \A x : x \in N <=> \E r \in R : x = upd(r)
    OBVIOUS
  <1> HIDE DEF upd
  <1>3. RowsOK(N)
    BY <1>1, <1>2 DEF RowsOK
  <1>4. TableOf(R) \in [Keys -> Values \cup {Absent}]
    BY TableTypes
  <1>5. CASE TableOf(R)[k] # Absent
    <2> DEFINE T == [TableOf(R) EXCEPT ![k] = v]
    <2>1. T = [j \in Keys |-> T[j]] /\ T[k] = v /\ \A j \in Keys : j # k => T[j] = TableOf(R)[j]
      BY <1>4
    <2> HIDE DEF T
    <2>2. \A r \in N : T[r.key] = r.val
      BY <1>1, <1>2, <2>1, TableRow
    <2>3. \A j \in Keys : T[j] # Absent => \E r \in N : r.key = j
      BY <1>1, <1>2, <1>5, <2>1, TableTypes
    <2>4. TableOf(N) = T
      BY <1>3, <2>1, <2>2, <2>3, TableIs
    <2> QED
      BY <1>3, <1>5, <2>4 DEF T
  <1>6. CASE TableOf(R)[k] = Absent
    <2>1. \A r \in R : r.key # k
      BY <1>6, TableTypes
    <2>2. N = R
      <3>1. \A r \in R : upd(r) = r
        BY <1>1, <2>1
      <3>2. \A x : x \in N <=> x \in R
        BY <1>2, <3>1
      <3> QED
        BY <3>2
    <2> QED
      BY <1>3, <1>6, <2>2
  <1> QED
    BY <1>5, <1>6

LEMMA TableDelete ==
  ASSUME NEW R, RowsOK(R), NEW k \in Keys
  PROVE  /\ RowsOK({r \in R : r.key # k})
         /\ TableOf({r \in R : r.key # k}) = [TableOf(R) EXCEPT ![k] = Absent]
  <1> DEFINE N == {r \in R : r.key # k}
             T == [TableOf(R) EXCEPT ![k] = Absent]
  <1>1. RowsOK(N)
    BY DEF RowsOK
  <1>2. TableOf(R) \in [Keys -> Values \cup {Absent}]
    BY TableTypes
  <1>3. T = [j \in Keys |-> T[j]] /\ T[k] = Absent /\ \A j \in Keys : j # k => T[j] = TableOf(R)[j]
    BY <1>2
  <1> HIDE DEF T
  <1>4. \A r \in N : T[r.key] = r.val
    BY <1>3, TableRow
  <1>5. \A j \in Keys : T[j] # Absent => \E r \in N : r.key = j
    BY <1>3, TableTypes
  <1> HIDE DEF N
  <1>6. TableOf(N) = T
    BY <1>1, <1>3, <1>4, <1>5, TableIs
  <1> QED
    BY <1>1, <1>6 DEF N, T

\* The reads of the store, in terms of the table.
LEMMA Reads ==
  ASSUME RowsOK(rows)
  PROVE  /\ \A k \in Keys : get(k) = Table[k] /\ (exists(k) <=> Table[k] # Absent)
         /\ \A k \in Counters : number(k) = IF Table[k] = Absent THEN 0 ELSE Table[k][2]
         /\ \A v : v \in iter("hist") <=> \E k \in HistKeys : Table[k] # Absent /\ Table[k] = v
         /\ \A v : v \in iter("log") <=> \E k \in LogKeys : Table[k] # Absent /\ Table[k] = v
  <1>1. \A k \in Keys : get(k) = Table[k] /\ (exists(k) <=> Table[k] # Absent)
    BY TableTypes DEF get, exists, Table, TableOf
  <1>2. \A k \in Counters : number(k) = IF Table[k] = Absent THEN 0 ELSE Table[k][2]
    BY <1>1 DEF number, Keys
  <1>3. ASSUME NEW K, NEW f, K \subseteq Keys, \A k \in Keys : k[1] = f <=> k \in K
        PROVE  \A v : v \in iter(f) <=> \E k \in K : Table[k] # Absent /\ Table[k] = v
    <2>1. \A v : v \in iter(f) <=> \E r \in rows : r.key \in K /\ r.val = v
      BY <1>3, TableRow DEF iter
    <2>2. \A v : (\E r \in rows : r.key \in K /\ r.val = v) <=> \E k \in K : Table[k] # Absent /\ Table[k] = v
      BY <1>3, TableRow, TableTypes, AbsentIsNone DEF Table
    <2> QED
      BY <2>1, <2>2
  <1>4. \A v : v \in iter("hist") <=> \E k \in HistKeys : Table[k] # Absent /\ Table[k] = v
    BY <1>3, Prefixes, KeyTypes
  <1>5. \A v : v \in iter("log") <=> \E k \in LogKeys : Table[k] # Absent /\ Table[k] = v
    BY <1>3, Prefixes, KeyTypes
  <1> QED
    BY <1>1, <1>2, <1>4, <1>5

-----------------------------------------------------------------------------
(* The processes and the abstract map. *)

HistTypes ==
    /\ ops \in 0 .. MaxOps /\ crashes \in 0 .. MaxCrashes
    /\ handed \subseteq 0 .. MaxIds /\ reused \in BOOLEAN
    /\ entries \subseteq 1 .. MaxOps
    /\ past \subseteq OutKeys \X Versions
    /\ overlap \subseteq Groups
    /\ scan \in [Procs -> 0 .. MaxIds]

LEMMA TypeParts ==
  /\ TypeOK <=> /\ rows \subseteq [key : Keys, val : Values] /\ writer \in Procs \cup {Nobody}
                /\ proc \in [Procs -> ProcRecs] /\ HistTypes
  /\ \A r \in ProcRecs : r.todo \in Seq(Stmts) /\ r.id \in 0 .. MaxIds /\ r.tries \in 0 .. MaxRetries
                         /\ r.res \in {"none", "ok", "failed"} /\ r.op \in Groups \cup {"idle", "down"}
  BY DEF TypeOK, HistTypes, ProcRecs

LEMMA SetIs ==
  ASSUME TypeOK, NEW p \in Procs, NEW r \in ProcRecs, Set(p, r)
  PROVE  proc' \in [Procs -> ProcRecs] /\ proc'[p] = r /\ \A q \in Procs : q # p => proc'[q] = proc[q]
  BY TypeParts DEF Set

LEMMA IdleTypes ==
  /\ Idle \in ProcRecs /\ Idle.op = "idle" /\ Idle.pc = "next" /\ Idle.todo = <<>> /\ Idle.res = "none" /\ Idle.id = 0
  /\ Down \in ProcRecs /\ Down.op = "down" /\ Down.pc = "next" /\ Down.todo = <<>> /\ Down.res = "none" /\ Down.id = 0
  <1>1. 0 \in 0 .. MaxIds /\ 0 \in 0 .. MaxRetries
    BY StoreAssumption
  <1>2. <<>> \in Seq(Stmts)
    OBVIOUS
  <1>3. /\ Idle \in ProcRecs /\ Idle.op = "idle" /\ Idle.pc = "next" /\ Idle.todo = <<>>
        /\ Idle.res = "none" /\ Idle.id = 0
    BY <1>1, <1>2 DEF Idle, ProcRecs
  <1> QED
    BY <1>3 DEF Down, ProcRecs

\* The first statement that is left to do.
LEMMA HeadOK ==
  ASSUME NEW r \in ProcRecs, NEW T, ProcOK(r, T), r.todo # <<>>
  PROVE  /\ Head(r.todo) \in Stmts /\ Head(r.todo) = r.todo[1] /\ StmtOK(r.op, Head(r.todo))
         /\ Tail(r.todo) \in Seq(Stmts) /\ Len(Tail(r.todo)) = Len(r.todo) - 1 /\ Len(r.todo) \in Nat \ {0}
         /\ \A i \in 1 .. Len(Tail(r.todo)) : Tail(r.todo)[i] = r.todo[i + 1]
         /\ \A i \in 1 .. Len(Tail(r.todo)) : StmtOK(r.op, Tail(r.todo)[i])
  <1>1. r.todo \in Seq(Stmts) /\ Len(r.todo) \in Nat \ {0}
    BY TypeParts
  <1>2. /\ Head(r.todo) \in Stmts /\ Head(r.todo) = r.todo[1]
        /\ Tail(r.todo) \in Seq(Stmts) /\ Len(Tail(r.todo)) = Len(r.todo) - 1
        /\ \A i \in 1 .. Len(Tail(r.todo)) : Tail(r.todo)[i] = r.todo[i + 1]
    BY <1>1
  <1>3. \A i \in 1 .. Len(r.todo) : StmtOK(r.op, r.todo[i])
    BY DEF ProcOK
  <1>4. 1 \in 1 .. Len(r.todo) /\ \A i \in 1 .. Len(Tail(r.todo)) : i + 1 \in 1 .. Len(r.todo)
    BY <1>1, <1>2
  <1> QED
    BY <1>1, <1>2, <1>3, <1>4

LEMMA StmtTypes ==
  ASSUME NEW s \in Stmts
  PROVE  /\ s.kind \in {"put", "delete", "hist"} /\ s.key \in Keys
         /\ s.kind = "hist" => s.key \in OutKeys /\ s.val \in Versions
         /\ s.val \in Values
  BY AbsentIsNone, KeyTypes DEF Stmts

\* The write a process waits for, and the refinement mapping.
CallOf(r) ==
    IF r.pc \in {"execute", "write"}
    THEN [kind |-> Head(r.todo).kind, key |-> Head(r.todo).key, val |-> Head(r.todo).val, beaten |-> r.beaten]
    ELSE [kind |-> "none", key |-> Absent, val |-> Absent, beaten |-> FALSE]
CallsOf(P) == [p \in Procs |-> CallOf(P[p])]
ResOf(P) == [p \in Procs |-> P[p].res]

LEMMA Mapping ==
  /\ Table = [k \in Keys |-> get(k)] /\ Table' = [k \in Keys |-> get(k)]'
  /\ CallsOf(proc) = [p \in Procs |-> Pending(p)] /\ CallsOf(proc') = [p \in Procs |-> Pending(p)]'
  /\ ResOf(proc) = [p \in Procs |-> proc[p].res] /\ ResOf(proc') = [p \in Procs |-> proc[p].res]'
  /\ KV!NoCall = [kind |-> "none", key |-> Absent, val |-> Absent, beaten |-> FALSE]
  /\ KV!Calls = [kind : {"put", "delete"}, key : Keys, val : Values, beaten : {FALSE}]
  BY DEF Table, TableOf, get, exists, CallsOf, CallOf, Pending, Head1, Writing, ResOf, KV!NoCall, KV!Calls

\* A step of the map, or none.
KVStep == [KV!KVNext]_(KV!kvVars)

LEMMA CoreFrame ==
  ASSUME CoreInv, NEW p \in Procs, NEW r \in ProcRecs, Set(p, r), rows' = rows, ProcOK(r, Table), HistTypes',
         writer' \in Procs \cup {Nobody}, \A q \in Procs : q # p => (writer' = q <=> writer = q),
         writer' = p <=> r.pc = "write"
  PROVE  CoreInv'
  <1>1. proc' \in [Procs -> ProcRecs] /\ proc'[p] = r /\ \A q \in Procs : q # p => proc'[q] = proc[q]
    BY SetIs DEF CoreInv
  <1>2. Table' = Table
    BY DEF Table
  <1>3. TypeOK'
    BY <1>1, TypeParts DEF CoreInv, TypeOK, HistTypes, ProcRecs
  <1>4. RowsOK(rows')
    BY DEF CoreInv
  <1>5. \A q \in Procs : ProcOK(proc'[q], Table')
    BY <1>1, <1>2 DEF CoreInv
  <1>6. \A q \in Procs : writer' = q <=> proc'[q].pc = "write"
    BY <1>1 DEF CoreInv
  <1> QED
    BY <1>3, <1>4, <1>5, <1>6 DEF CoreInv

\* Steps that do not change the table, on the side of the map.
LEMMA RefFrame ==
  ASSUME TypeOK, NEW p \in Procs, NEW r \in ProcRecs, Set(p, r), rows' = rows,
         \/ CallOf(r) = CallOf(proc[p]) /\ r.res = proc[p].res
         \/ CallOf(proc[p]) = KV!NoCall /\ CallOf(r) \in KV!Calls /\ r.res = "none"
         \/ CallOf(r) = KV!NoCall /\ r.res = "failed"
  PROVE  KVStep
  <1>1. proc' \in [Procs -> ProcRecs] /\ proc'[p] = r /\ \A q \in Procs : q # p => proc'[q] = proc[q]
    BY SetIs
  <1>2. Table' = Table
    BY DEF Table
  <1>3. CallsOf(proc') = [CallsOf(proc) EXCEPT ![p] = CallOf(r)]
    BY <1>1 DEF CallsOf
  <1>4. ResOf(proc') = [ResOf(proc) EXCEPT ![p] = r.res]
    BY <1>1 DEF ResOf
  <1>5. CallsOf(proc)[p] = CallOf(proc[p]) /\ CallsOf(proc')[p] = CallOf(r)
    BY <1>1 DEF CallsOf
  <1>6. ResOf(proc)[p] = proc[p].res
    BY DEF ResOf
  <1>7. CASE CallOf(r) = CallOf(proc[p]) /\ r.res = proc[p].res
    <2>1. CallsOf(proc') = CallsOf(proc) /\ ResOf(proc') = ResOf(proc)
      BY <1>1, <1>7 DEF CallsOf, ResOf
    <2> QED
      BY <1>2, <2>1, Mapping DEF KVStep, KV!kvVars
  <1>8. CASE CallOf(proc[p]) = KV!NoCall /\ CallOf(r) \in KV!Calls /\ r.res = "none"
    <2>1. KV!Call(p)
      BY <1>2, <1>3, <1>4, <1>5, <1>8, Mapping DEF KV!Call
    <2> QED
      BY <2>1 DEF KVStep, KV!KVNext
  <1>9. CASE CallOf(r) = KV!NoCall /\ r.res = "failed"
    <2>1. KV!NoEffect(p)
      BY <1>2, <1>3, <1>4, <1>9, Mapping DEF KV!NoEffect
    <2> QED
      BY <2>1 DEF KVStep, KV!KVNext
  <1> QED
    BY <1>7, <1>8, <1>9

-----------------------------------------------------------------------------
(* The steps of a statement. *)

\* The work of every process is as before.
SameWork == \A q \in Procs : /\ proc'[q].op = proc[q].op /\ proc'[q].todo = proc[q].todo
                             /\ proc'[q].id = proc[q].id
OthersWork(p) == \A q \in Procs : q # p => /\ proc'[q].op = proc[q].op /\ proc'[q].todo = proc[q].todo
                                           /\ proc'[q].id = proc[q].id

LEMMA PrepareStep ==
  ASSUME CoreInv, NEW p \in Procs, Prepare(p)
  PROVE  CoreInv' /\ KVStep /\ SameWork /\ Table' = Table /\ UNCHANGED histVars
  <1> TypeOK
    BY DEF CoreInv
  <1> DEFINE s == Head(proc[p].todo)
             f == IF s.kind = "delete" THEN "delete" ELSE IF exists(s.key) THEN "update" ELSE "insert"
             r == [proc[p] EXCEPT !.pc = "execute", !.tries = 0, !.beaten = FALSE, !.res = "none", !.form = f]
  <1>1. /\ proc[p].todo # <<>> /\ proc[p].pc = "next" /\ s.kind # "hist" /\ Set(p, r)
        /\ UNCHANGED <<rows, writer, histVars>>
    BY DEF Prepare, Head1
  <1>2. proc[p] \in ProcRecs /\ ProcOK(proc[p], Table) /\ RowsOK(rows)
    BY TypeParts DEF CoreInv
  <1>3. s \in Stmts /\ StmtOK(proc[p].op, s)
    BY <1>1, <1>2, HeadOK
  <1>4. s.kind \in {"put", "delete"} /\ s.key \in Keys /\ s.val \in Values
    BY <1>1, <1>3, StmtTypes
  <1>5. f \in {"insert", "update", "delete"} /\ (f = "delete" <=> s.kind = "delete")
        /\ (f = "update" => Table[s.key] # Absent)
    BY <1>2, <1>4, Reads
  <1> HIDE DEF f
  <1>6. /\ r \in ProcRecs /\ r.op = proc[p].op /\ r.todo = proc[p].todo /\ r.id = proc[p].id
        /\ r.pc = "execute" /\ r.form = f /\ r.res = "none" /\ r.beaten = FALSE
    <2>1. 0 \in 0 .. MaxRetries
      BY StoreAssumption
    <2> QED
      BY <1>2, <1>5, <2>1 DEF ProcRecs
  <1> HIDE DEF r
  <1>7. ProcOK(r, Table)
    BY <1>1, <1>2, <1>4, <1>5, <1>6 DEF ProcOK
  <1>8. HistTypes'
    BY <1>1, TypeParts DEF histVars, HistTypes
  <1>9. CoreInv'
    <2>1. writer # p
      BY <1>1 DEF CoreInv
    <2> QED
      BY <1>1, <1>6, <1>7, <1>8, <2>1, CoreFrame, TypeParts
  <1>10. CallOf(proc[p]) = KV!NoCall /\ CallOf(r) \in KV!Calls
    <2>1. CallOf(r) = [kind |-> s.kind, key |-> s.key, val |-> s.val, beaten |-> FALSE]
      BY <1>6 DEF CallOf
    <2> QED
      BY <1>1, <1>4, <2>1, Mapping DEF CallOf
  <1>11. KVStep
    BY <1>1, <1>6, <1>10, RefFrame
  <1>12. SameWork
    BY <1>1, <1>6, SetIs DEF SameWork
  <1>13. Table' = Table
    BY <1>1 DEF Table
  <1> QED
    BY <1>1, <1>9, <1>11, <1>12, <1>13

LEMMA ExecuteStep ==
  ASSUME CoreInv, NEW p \in Procs, Execute(p)
  PROVE  CoreInv' /\ KVStep /\ SameWork /\ Table' = Table /\ UNCHANGED histVars
  <1> TypeOK
    BY DEF CoreInv
  <1> DEFINE r == [proc[p] EXCEPT !.pc = "write"]
  <1>1. proc[p].pc = "execute" /\ writer = Nobody /\ writer' = p /\ Set(p, r) /\ UNCHANGED <<rows, histVars>>
    BY DEF Execute
  <1>2. proc[p] \in ProcRecs /\ ProcOK(proc[p], Table)
    BY TypeParts DEF CoreInv
  <1>3. /\ r \in ProcRecs /\ r.op = proc[p].op /\ r.todo = proc[p].todo /\ r.id = proc[p].id
        /\ r.pc = "write" /\ r.form = proc[p].form /\ r.res = proc[p].res /\ r.beaten = proc[p].beaten
    BY <1>2 DEF ProcRecs
  <1> HIDE DEF r
  <1>4. ProcOK(r, Table)
    BY <1>1, <1>2, <1>3 DEF ProcOK
  <1>5. HistTypes'
    BY <1>1, TypeParts DEF histVars, HistTypes
  <1>6. CoreInv'
    BY <1>1, <1>3, <1>4, <1>5, CoreFrame, StoreAssumption
  <1>7. CallOf(r) = CallOf(proc[p])
    BY <1>1, <1>3 DEF CallOf
  <1>8. KVStep
    BY <1>1, <1>3, <1>7, RefFrame
  <1>9. SameWork
    BY <1>1, <1>3, SetIs DEF SameWork
  <1> QED
    BY <1>1, <1>6, <1>8, <1>9 DEF Table

\* A statement that fails: the operation ends, or the deletion of an output goes on behind it.
LEMMA GiveUpTypes ==
  ASSUME CoreInv, NEW p \in Procs, proc[p].pc # "next", NEW r, r = GiveUp(p)
  PROVE  /\ r \in ProcRecs /\ r.id = proc[p].id /\ r.pc = "next" /\ r.res = "failed" /\ ProcOK(r, Table)
         /\ \/ r.todo = <<>> /\ r.op = "idle"
            \/ /\ r.todo = Tail(proc[p].todo) /\ r.op = proc[p].op
               /\ Head(proc[p].todo).kind = "delete" /\ Head(proc[p].todo).key \in OutKeys
  <1> DEFINE s == Head(proc[p].todo)
             cond == s.kind = "delete" /\ s.key \in OutKeys
             t == IF cond THEN Tail(proc[p].todo) ELSE <<>>
             o == IF cond THEN proc[p].op ELSE "idle"
  <1>1. proc[p] \in ProcRecs /\ ProcOK(proc[p], Table)
    BY TypeParts DEF CoreInv
  <1>2. proc[p].todo # <<>>
    BY <1>1 DEF ProcOK
  <1>3. /\ Tail(proc[p].todo) \in Seq(Stmts) /\ <<>> \in Seq(Stmts)
        /\ \A i \in 1 .. Len(Tail(proc[p].todo)) : StmtOK(proc[p].op, Tail(proc[p].todo)[i])
    BY <1>1, <1>2, HeadOK
  <1>4. /\ t \in Seq(Stmts) /\ o \in Groups \cup {"idle", "down"}
        /\ (t = <<>> /\ o = "idle") \/ (t = Tail(proc[p].todo) /\ o = proc[p].op /\ cond)
    BY <1>1, <1>3, TypeParts
  <1>5. r = [proc[p] EXCEPT !.pc = "next", !.form = "none", !.tries = 0, !.beaten = FALSE, !.res = "failed",
                            !.todo = t, !.op = o]
    BY DEF GiveUp, Head1
  <1> HIDE DEF t, o
  <1>6. /\ r \in ProcRecs /\ r.id = proc[p].id /\ r.pc = "next" /\ r.res = "failed" /\ r.todo = t /\ r.op = o
    <2>1. 0 \in 0 .. MaxRetries
      BY StoreAssumption
    <2> QED
      BY ZenonT(30), <1>1, <1>4, <1>5, <2>1 DEF ProcRecs
  <1>7. ProcOK(r, Table)
    <2>1. CASE t = <<>> /\ o = "idle"
      BY <1>6, <2>1 DEF ProcOK
    <2>2. CASE t = Tail(proc[p].todo) /\ o = proc[p].op
      <3>1. proc[p].op \notin {"idle", "down"}
        BY <1>1, <1>2 DEF ProcOK
      <3> QED
        BY <1>3, <1>6, <2>2, <3>1 DEF ProcOK
    <2> QED
      BY <1>4, <2>1, <2>2
  <1> QED
    BY <1>4, <1>6, <1>7

\* SQLITE_BUSY and the violated UNIQUE key: the statement is tried again, or it fails.
FailsWork(p) ==
    /\ OthersWork(p)
    /\ \/ proc'[p].todo = <<>> /\ proc'[p].op = "idle"
       \/ /\ proc'[p].todo = Tail(proc[p].todo) /\ proc'[p].op = proc[p].op
          /\ proc[p].todo # <<>>
          /\ Head(proc[p].todo).kind = "delete" /\ Head(proc[p].todo).key \in OutKeys

LEMMA GiveUpStep ==
  ASSUME CoreInv, NEW p \in Procs, proc[p].pc # "next", Set(p, GiveUp(p)), UNCHANGED <<rows, histVars>>,
         \/ writer' = writer /\ proc[p].pc = "execute"
         \/ writer' = Nobody /\ proc[p].pc = "write"
  PROVE  CoreInv' /\ KVStep /\ FailsWork(p) /\ Table' = Table /\ UNCHANGED histVars
  <1> TypeOK
    BY DEF CoreInv
  <1> DEFINE r == GiveUp(p)
  <1>1. /\ r \in ProcRecs /\ r.id = proc[p].id /\ r.pc = "next" /\ r.res = "failed" /\ ProcOK(r, Table)
        /\ \/ r.todo = <<>> /\ r.op = "idle"
           \/ /\ r.todo = Tail(proc[p].todo) /\ r.op = proc[p].op
              /\ Head(proc[p].todo).kind = "delete" /\ Head(proc[p].todo).key \in OutKeys
    BY GiveUpTypes
  <1>2. Set(p, r)
    OBVIOUS
  <1> HIDE DEF r
  <1>3. HistTypes'
    BY TypeParts DEF histVars, HistTypes
  <1>4. writer' \in Procs \cup {Nobody} /\ writer' # p /\ \A q \in Procs : q # p => (writer' = q <=> writer = q)
    BY StoreAssumption, TypeParts DEF CoreInv
  <1>5. CoreInv'
    BY <1>1, <1>2, <1>3, <1>4, CoreFrame
  <1>6. CallOf(r) = KV!NoCall
    BY <1>1, Mapping DEF CallOf
  <1>7. KVStep
    BY <1>1, <1>2, <1>6, RefFrame
  <1>8. FailsWork(p)
    <2>1. proc[p].todo # <<>>
      BY DEF CoreInv, ProcOK
    <2> QED
      BY <1>1, <1>2, <2>1, SetIs DEF FailsWork, OthersWork
  <1> QED
    BY <1>5, <1>7, <1>8 DEF Table

LEMMA BusyStep ==
  ASSUME CoreInv, NEW p \in Procs, Busy(p)
  PROVE  CoreInv' /\ KVStep /\ (SameWork \/ FailsWork(p)) /\ Table' = Table /\ UNCHANGED histVars
  <1> TypeOK
    BY DEF CoreInv
  <1>1. proc[p].pc = "execute" /\ writer # p /\ UNCHANGED <<rows, writer, histVars>>
    BY DEF Busy
  <1>2. CASE proc[p].tries = MaxRetries
    BY <1>1, <1>2, GiveUpStep DEF Busy
  <1>3. CASE proc[p].tries # MaxRetries
    <2> DEFINE r == [proc[p] EXCEPT !.tries = @ + 1]
    <2>1. Set(p, r)
      BY <1>3 DEF Busy
    <2>2. proc[p] \in ProcRecs /\ ProcOK(proc[p], Table)
      BY TypeParts DEF CoreInv
    <2>3. proc[p].tries + 1 \in 0 .. MaxRetries
      BY <1>3, <2>2, StoreAssumption, TypeParts
    <2>4. /\ r \in ProcRecs /\ r.op = proc[p].op /\ r.todo = proc[p].todo /\ r.id = proc[p].id
          /\ r.pc = proc[p].pc /\ r.form = proc[p].form /\ r.res = proc[p].res /\ r.beaten = proc[p].beaten
      BY <2>2, <2>3 DEF ProcRecs
    <2> HIDE DEF r
    <2>5. ProcOK(r, Table)
      BY <2>2, <2>4 DEF ProcOK
    <2>6. HistTypes'
      BY <1>1, TypeParts DEF histVars, HistTypes
    <2>7. CoreInv'
      BY <1>1, <2>1, <2>4, <2>5, <2>6, CoreFrame, TypeParts
    <2>8. CallOf(r) = CallOf(proc[p])
      BY <2>4 DEF CallOf
    <2>9. KVStep
      BY <1>1, <2>1, <2>4, <2>8, RefFrame
    <2>10. SameWork
      BY <2>1, <2>4, SetIs DEF SameWork
    <2> QED
      BY <1>1, <2>7, <2>9, <2>10 DEF Table
  <1> QED
    BY <1>2, <1>3

LEMMA InsertFailsStep ==
  ASSUME CoreInv, NEW p \in Procs, InsertFails(p)
  PROVE  CoreInv' /\ KVStep /\ FailsWork(p) /\ Table' = Table /\ UNCHANGED histVars
  BY GiveUpStep DEF InsertFails

\* A statement that is done, and what it leaves the other processes.
LEMMA DoneTypes ==
  ASSUME CoreInv, NEW p \in Procs, NEW new, Done(p, new), proc[p].pc = "write"
  PROVE  /\ proc' \in [Procs -> ProcRecs]
         /\ proc'[p].op = proc[p].op /\ proc'[p].todo = Tail(proc[p].todo) /\ proc'[p].id = proc[p].id
         /\ proc'[p].pc = "next" /\ proc'[p].res = "ok"
         /\ \A q \in Procs : q # p =>
              /\ proc'[q].op = proc[q].op /\ proc'[q].todo = proc[q].todo /\ proc'[q].id = proc[q].id
              /\ proc'[q].pc = proc[q].pc /\ proc'[q].res = proc[q].res /\ proc'[q].form = proc[q].form
              /\ IF proc[p].form = "delete" /\ Writing(q) /\ Head1(q).key = Head1(p).key
                 THEN proc'[q].beaten ELSE proc'[q] = proc[q]
  <1> TypeOK
    BY DEF CoreInv
  <1>1. proc \in [Procs -> ProcRecs]
    BY TypeParts
  <1> DEFINE t == Tail(proc[p].todo)
             r == [proc[p] EXCEPT !.pc = "next", !.todo = t, !.form = "none", !.tries = 0, !.beaten = FALSE, !.res = "ok"]
             b(q) == [proc[q] EXCEPT !.beaten = TRUE]
             hit(q) == proc[p].form = "delete" /\ Writing(q) /\ Head1(q).key = Head1(p).key
  <1>2. t \in Seq(Stmts) /\ 0 \in 0 .. MaxRetries
    BY <1>1, HeadOK, StoreAssumption DEF CoreInv, ProcOK
  <1> HIDE DEF t
  <1>3. /\ r \in ProcRecs /\ r.op = proc[p].op /\ r.todo = t /\ r.id = proc[p].id
        /\ r.pc = "next" /\ r.res = "ok"
    <2>1. proc[p] \in ProcRecs
      BY <1>1
    <2> QED
      BY <1>2, <2>1 DEF ProcRecs
  <1>4. \A q \in Procs : /\ b(q) \in ProcRecs /\ b(q).op = proc[q].op /\ b(q).todo = proc[q].todo
                         /\ b(q).id = proc[q].id /\ b(q).pc = proc[q].pc /\ b(q).res = proc[q].res
                         /\ b(q).form = proc[q].form /\ b(q).beaten
    BY ZenonT(30), <1>1 DEF ProcRecs
  <1>5. proc' = [q \in Procs |-> IF q = p THEN r ELSE IF hit(q) THEN b(q) ELSE proc[q]]
    BY DEF Done, t
  <1> HIDE DEF r, b, hit
  <1>6. proc'[p] = r /\ \A q \in Procs : q # p => proc'[q] = IF hit(q) THEN b(q) ELSE proc[q]
    BY <1>5
  <1>7. proc' \in [Procs -> ProcRecs]
    BY <1>1, <1>3, <1>4, <1>5
  <1>8. ASSUME NEW q \in Procs, q # p
        PROVE  /\ proc'[q].op = proc[q].op /\ proc'[q].todo = proc[q].todo /\ proc'[q].id = proc[q].id
               /\ proc'[q].pc = proc[q].pc /\ proc'[q].res = proc[q].res /\ proc'[q].form = proc[q].form
               /\ IF hit(q) THEN proc'[q].beaten ELSE proc'[q] = proc[q]
    BY <1>4, <1>6, <1>8
  <1> QED
    BY <1>3, <1>6, <1>7, <1>8 DEF hit, t

LEMMA DoneCore ==
  ASSUME CoreInv, NEW p \in Procs, NEW new, Done(p, new), proc[p].pc = "write", RowsOK(new), HistTypes',
         \A k \in Keys : k # Head(proc[p].todo).key => TableOf(new)[k] = Table[k],
         proc[p].form # "delete" => \A k \in Keys : Table[k] # Absent => TableOf(new)[k] # Absent
  PROVE  CoreInv'
  <1> TypeOK
    BY DEF CoreInv
  <1> DEFINE s == Head(proc[p].todo)
  <1>1. rows' = new /\ writer' = Nobody /\ Table' = TableOf(new)
    BY DEF Done, Table
  <1>2. proc[p] \in ProcRecs /\ ProcOK(proc[p], Table)
    BY TypeParts DEF CoreInv
  <1>3. proc[p].todo # <<>> /\ StmtOK(proc[p].op, s) /\ s.key \in Keys /\ (proc[p].form = "delete" <=> s.kind = "delete")
    BY <1>2, HeadOK, StmtTypes DEF ProcOK
  <1>4. TypeOK'
    <2>1. proc' \in [Procs -> ProcRecs]
      BY DoneTypes
    <2>2. new \subseteq [key : Keys, val : Values]
      BY DEF RowsOK
    <2> QED
      BY <1>1, <2>1, <2>2 DEF TypeOK, HistTypes, ProcRecs
  <1>5. ProcOK(proc'[p], Table')
    <2>1. /\ proc'[p].op = proc[p].op /\ proc'[p].todo = Tail(proc[p].todo) /\ proc'[p].pc = "next"
      BY DoneTypes
    <2>2. proc[p].op \notin {"idle", "down"}
      BY <1>2, <1>3 DEF ProcOK
    <2>3. \A i \in 1 .. Len(Tail(proc[p].todo)) : StmtOK(proc[p].op, Tail(proc[p].todo)[i])
      BY <1>2, <1>3, HeadOK
    <2> QED
      BY <2>1, <2>2, <2>3 DEF ProcOK
  <1>6. ASSUME NEW q \in Procs, q # p PROVE ProcOK(proc'[q], Table')
    <2>1. /\ proc'[q].op = proc[q].op /\ proc'[q].todo = proc[q].todo
          /\ proc'[q].pc = proc[q].pc /\ proc'[q].form = proc[q].form
          /\ IF proc[p].form = "delete" /\ Writing(q) /\ Head1(q).key = Head1(p).key
             THEN proc'[q].beaten ELSE proc'[q] = proc[q]
      BY <1>6, DoneTypes
    <2>2. proc[q] \in ProcRecs /\ ProcOK(proc[q], Table)
      BY TypeParts DEF CoreInv
    <2>3. proc[q].pc # "next" => Writing(q) /\ proc[q].todo # <<>> /\ Head(proc[q].todo).key \in Keys
      BY <2>2, HeadOK, StmtTypes DEF ProcOK, ProcRecs, Writing
    <2>4. proc[q].pc # "next" /\ proc[q].form = "update" =>
            \/ Table'[Head(proc[q].todo).key] # Absent
            \/ proc'[q].beaten /\ Head(proc[q].todo).key \in Deletable
      <3> SUFFICES ASSUME proc[q].pc # "next", proc[q].form = "update"
                   PROVE  \/ Table'[Head(proc[q].todo).key] # Absent
                          \/ proc'[q].beaten /\ Head(proc[q].todo).key \in Deletable
        OBVIOUS
      <3>1. CASE proc[p].form = "delete" /\ Head1(q).key = Head1(p).key
        BY <1>3, <2>1, <2>3, <3>1 DEF Head1, StmtOK
      <3>2. CASE proc[p].form = "delete" /\ Head1(q).key # Head1(p).key
        BY <1>1, <2>1, <2>2, <2>3, <3>2 DEF Head1, ProcOK
      <3>3. CASE proc[p].form # "delete"
        BY <1>1, <2>1, <2>2, <2>3, <3>3 DEF ProcOK
      <3> QED
        BY <3>1, <3>2, <3>3
    <2> QED
      BY <2>1, <2>2, <2>4 DEF ProcOK
  <1>7. \A q \in Procs : writer' = q <=> proc'[q].pc = "write"
    <2>1. \A q \in Procs : q # p => proc[q].pc # "write"
      BY DEF CoreInv
    <2> QED
      BY <1>1, <2>1, DoneTypes, StoreAssumption
  <1> QED
    BY <1>1, <1>4, <1>5, <1>6, <1>7 DEF CoreInv

LEMMA BeatenIs ==
  ASSUME NEW A, NEW B, NEW C, NEW r \in [kind : A, key : B, val : C, beaten : BOOLEAN],
         NEW s \in [kind : A, key : B, val : C, beaten : BOOLEAN],
         s.kind = r.kind, s.key = r.key, s.val = r.val, s.beaten = TRUE
  PROVE  s = [r EXCEPT !.beaten = TRUE]
  BY SMT

LEMMA DoneRef ==
  ASSUME CoreInv, NEW p \in Procs, NEW new, Done(p, new), proc[p].pc = "write",
         \/ TableOf(new) = [Table EXCEPT ![Head(proc[p].todo).key] =
                              IF Head(proc[p].todo).kind = "put" THEN Head(proc[p].todo).val ELSE Absent]
         \/ proc[p].form = "update" /\ proc[p].beaten /\ TableOf(new) = Table
  PROVE  KVStep
  <1> TypeOK
    BY DEF CoreInv
  <1> DEFINE s == Head(proc[p].todo)
             c == CallOf(proc[p])
  <1>1. Table' = TableOf(new)
    BY DEF Done, Table
  <1>2. proc[p] \in ProcRecs /\ ProcOK(proc[p], Table)
    BY TypeParts DEF CoreInv
  <1>3. proc[p].todo # <<>> /\ s.kind \in {"put", "delete"} /\ (proc[p].form = "delete" <=> s.kind = "delete")
    BY <1>2 DEF ProcOK
  <1>4. c.kind = s.kind /\ c.key = s.key /\ c.val = s.val /\ c.beaten = proc[p].beaten
    BY DEF CallOf
  <1>9. CallsOf(proc)[p] = c
    BY DEF CallsOf
  <1> HIDE DEF c
  <1>5. CallOf(proc'[p]) = KV!NoCall /\ proc'[p].res = "ok"
    BY DoneTypes, Mapping DEF CallOf
  <1>6. ASSUME NEW q \in Procs, q # p
        PROVE  CallOf(proc'[q]) = IF c.kind = "delete" /\ CallOf(proc[q]).kind # "none" /\ CallOf(proc[q]).key = c.key
                                  THEN [CallOf(proc[q]) EXCEPT !.beaten = TRUE] ELSE CallOf(proc[q])
    <2>1. /\ proc'[q].todo = proc[q].todo /\ proc'[q].pc = proc[q].pc
          /\ IF proc[p].form = "delete" /\ Writing(q) /\ Head1(q).key = Head1(p).key
             THEN proc'[q].beaten ELSE proc'[q] = proc[q]
      BY <1>6, DoneTypes
    <2>2. proc[q] \in ProcRecs /\ ProcOK(proc[q], Table)
      BY TypeParts DEF CoreInv
    <2>3. CASE Writing(q)
      <3>1. Head(proc[q].todo).kind \in {"put", "delete"}
        BY <2>2, <2>3 DEF Writing, ProcOK
      <3>2. CallOf(proc[q]) = [kind |-> Head(proc[q].todo).kind, key |-> Head(proc[q].todo).key,
                               val |-> Head(proc[q].todo).val, beaten |-> proc[q].beaten]
        BY <2>3 DEF CallOf, Writing
      <3>3. CASE proc[p].form = "delete" /\ Head1(q).key = Head1(p).key
        <4>1. proc'[q].beaten = TRUE
          <5>1. proc'[q].beaten \in BOOLEAN
            BY DoneTypes DEF ProcRecs
          <5> QED
            BY <2>1, <2>3, <3>3, <5>1
        <4>2. CallOf(proc'[q]) = [kind |-> Head(proc[q].todo).kind, key |-> Head(proc[q].todo).key,
                                 val |-> Head(proc[q].todo).val, beaten |-> TRUE]
          BY <2>1, <2>3, <4>1 DEF CallOf, Writing
        <4>3. CallOf(proc'[q]) = [CallOf(proc[q]) EXCEPT !.beaten = TRUE]
          <5> DEFINE h == Head(proc[q].todo)
                     S == [kind : {h.kind}, key : {h.key}, val : {h.val}, beaten : BOOLEAN]
          <5>1. proc[q].beaten \in BOOLEAN
            BY <2>2 DEF ProcRecs
          <5>2. CallOf(proc[q]) \in S /\ CallOf(proc'[q]) \in S /\ CallOf(proc'[q]).beaten = TRUE
            BY <3>2, <4>2, <5>1
          <5>3. /\ CallOf(proc'[q]).kind = CallOf(proc[q]).kind /\ CallOf(proc'[q]).key = CallOf(proc[q]).key
                /\ CallOf(proc'[q]).val = CallOf(proc[q]).val
            BY <3>2, <4>2
          <5> QED
            BY <5>2, <5>3, BeatenIs
        <4>4. c.kind = "delete" /\ CallOf(proc[q]).kind # "none" /\ CallOf(proc[q]).key = c.key
          BY <1>3, <1>4, <3>1, <3>2, <3>3 DEF Head1
        <4> QED
          BY <4>3, <4>4
      <3>4. CASE ~(proc[p].form = "delete" /\ Head1(q).key = Head1(p).key)
        BY <1>3, <1>4, <2>1, <3>2, <3>4 DEF Head1
      <3> QED
        BY <3>3, <3>4
    <2>4. CASE ~Writing(q)
      <3>1. proc'[q] = proc[q] /\ CallOf(proc[q]).kind = "none"
        BY <2>1, <2>4 DEF CallOf, Writing
      <3> QED
        BY <3>1
    <2> QED
      BY <2>3, <2>4
  <1>7. ResOf(proc') = [ResOf(proc) EXCEPT ![p] = "ok"]
    <2>1. \A q \in Procs : q # p => proc'[q].res = proc[q].res
      BY DoneTypes
    <2> QED
      BY <1>5, <2>1 DEF ResOf
  <1>8. CallsOf(proc') = [q \in Procs |->
          IF q = p THEN KV!NoCall
          ELSE IF c.kind = "delete" /\ CallsOf(proc)[q].kind # "none" /\ CallsOf(proc)[q].key = c.key
               THEN [CallsOf(proc)[q] EXCEPT !.beaten = TRUE] ELSE CallsOf(proc)[q]]
    BY <1>5, <1>6 DEF CallsOf
  <1>10. CASE TableOf(new) = [Table EXCEPT ![s.key] = IF s.kind = "put" THEN s.val ELSE Absent]
    <2>1. KV!Effect(p)
      BY SMTT(30), <1>1, <1>3, <1>4, <1>7, <1>8, <1>9, <1>10, Mapping DEF KV!Effect
    <2> QED
      BY <2>1 DEF KVStep, KV!KVNext
  <1>11. CASE proc[p].form = "update" /\ proc[p].beaten /\ TableOf(new) = Table
    <2>1. CallsOf(proc') = [CallsOf(proc) EXCEPT ![p] = KV!NoCall]
      BY <1>3, <1>4, <1>8, <1>11 DEF CallsOf
    <2>2. CallsOf(proc)[p].beaten = TRUE
      <3>1. proc[p].beaten = TRUE
        BY <1>2, <1>11 DEF ProcRecs
      <3> QED
        BY <1>4, <1>9, <3>1
    <2>3. KV!Overtaken(p)
      BY <1>1, <1>7, <1>11, <2>1, <2>2, Mapping DEF KV!Overtaken
    <2> QED
      BY <2>3 DEF KVStep, KV!KVNext
  <1> QED
    BY <1>10, <1>11

\* What a statement that is done does to the table and to the histories.
WriteWork(p) ==
    LET s == Head(proc[p].todo)
    IN  /\ OthersWork(p) /\ proc[p].todo # <<>>
        /\ proc'[p].op = proc[p].op /\ proc'[p].todo = Tail(proc[p].todo) /\ proc'[p].id = proc[p].id
        /\ s.kind \in {"put", "delete"}
        /\ \/ Table' = [Table EXCEPT ![s.key] = IF s.kind = "put" THEN s.val ELSE Absent]
           \/ s.kind = "put" /\ s.key \in Deletable /\ Table[s.key] = Absent /\ Table' = Table
        /\ entries' = IF s.key \in LogKeys THEN entries \cup {s.val[2]} ELSE entries
        /\ past' \subseteq past \cup {<<s.key, Table[s.key]>>}
        /\ past' # past => s.key \in OutKeys /\ Table[s.key] # Absent /\ (s.kind = "put" => Table[s.key] # s.val)
        /\ UNCHANGED <<ops, crashes, handed, reused, overlap, scan>>

\* The statement under way.
LEMMA Writes ==
  ASSUME CoreInv, NEW p \in Procs, proc[p].pc = "write", NEW s, s = Head(proc[p].todo)
  PROVE  /\ proc[p].todo # <<>> /\ s = Head1(p) /\ s.key \in Keys /\ s.kind \in {"put", "delete"}
         /\ proc[p].form = "delete" <=> s.kind = "delete"
         /\ s.kind = "put" => Fits(s.key, s.val)
         /\ s.kind = "delete" => s.key \in Deletable
         /\ proc[p].form = "update" => Table[s.key] # Absent \/ (proc[p].beaten /\ s.key \in Deletable)
         /\ s.key \in LogKeys => s.kind = "put" /\ s.val[2] \in 1 .. MaxOps
         /\ get(s.key) = Table[s.key] /\ (exists(s.key) <=> Table[s.key] # Absent)
         /\ \A v : Replaced(s.key, v) \subseteq OutKeys \X Versions
         /\ \A v : Replaced(s.key, v) \subseteq {<<s.key, Table[s.key]>>}
         /\ \A v : Replaced(s.key, v) # {} => s.key \in OutKeys /\ Table[s.key] \notin {v, Absent}
  <1>1. proc[p] \in ProcRecs /\ ProcOK(proc[p], Table) /\ RowsOK(rows)
    BY TypeParts DEF CoreInv
  <1>2. proc[p].todo # <<>> /\ s.kind \in {"put", "delete"}
    BY <1>1 DEF ProcOK
  <1>3. s \in Stmts /\ StmtOK(proc[p].op, s)
    BY <1>1, <1>2, HeadOK
  <1>4. s.key \in Keys
    BY <1>3, StmtTypes
  <1>5. get(s.key) = Table[s.key] /\ (exists(s.key) <=> Table[s.key] # Absent)
    BY <1>1, <1>4, Reads
  <1>6. s.key \in LogKeys => s.kind = "put" /\ s.val[2] \in 1 .. MaxOps
    BY <1>2, <1>3, KeysApart DEF StmtOK, Deletable, Fits
  <1>7. s.key \in OutKeys /\ Table[s.key] # Absent => <<s.key, Table[s.key]>> \in OutKeys \X Versions
    BY <1>1, <1>4, TableTypes DEF Table, Fits
  <1>8. \A v : /\ Replaced(s.key, v) \subseteq OutKeys \X Versions
               /\ Replaced(s.key, v) \subseteq {<<s.key, Table[s.key]>>}
               /\ Replaced(s.key, v) # {} => s.key \in OutKeys /\ Table[s.key] \notin {v, Absent}
    BY <1>5, <1>7 DEF Replaced
  <1>9. /\ proc[p].form = "delete" <=> s.kind = "delete"
        /\ proc[p].form = "update" => Table[s.key] # Absent \/ (proc[p].beaten /\ s.key \in Deletable)
    BY <1>1 DEF ProcOK
  <1> QED
    BY <1>2, <1>3, <1>4, <1>5, <1>6, <1>8, <1>9 DEF StmtOK, Head1

LEMMA InsertStep ==
  ASSUME CoreInv, NEW p \in Procs, Insert(p)
  PROVE  CoreInv' /\ KVStep /\ WriteWork(p)
  <1> DEFINE s == Head(proc[p].todo)
             new == rows \cup {[key |-> s.key, val |-> s.val]}
  <1>1. /\ proc[p].pc = "write" /\ proc[p].form = "insert" /\ ~exists(s.key) /\ Done(p, new)
        /\ entries' = IF s.key \in LogKeys THEN entries \cup {s.val[2]} ELSE entries
        /\ UNCHANGED <<ops, crashes, handed, reused, past, overlap, scan>>
    BY DEF Insert, Head1
  <1>2. /\ proc[p].todo # <<>> /\ s.kind = "put" /\ s.key \in Keys /\ Fits(s.key, s.val) /\ Table[s.key] = Absent
        /\ s.key \in LogKeys => s.val[2] \in 1 .. MaxOps
    BY <1>1, Writes
  <1>3. RowsOK(rows)
    BY DEF CoreInv
  <1>4. RowsOK(new) /\ TableOf(new) = [Table EXCEPT ![s.key] = s.val]
    BY <1>2, <1>3, TableInsert DEF Table
  <1> HIDE DEF new, s
  <1>5. s = Head(proc[p].todo) /\ s.val # Absent /\ Table \in [Keys -> Values \cup {Absent}]
    BY <1>2, <1>3, AbsentIsNone, TableTypes DEF s, Fits, Table
  <1>6. /\ \A k \in Keys : k # s.key => TableOf(new)[k] = Table[k]
        /\ \A k \in Keys : Table[k] # Absent => TableOf(new)[k] # Absent
    BY <1>2, <1>4, <1>5
  <1>7. HistTypes'
    BY <1>1, <1>2, TypeParts DEF CoreInv, HistTypes
  <1>8. CoreInv'
    BY <1>1, <1>4, <1>5, <1>6, <1>7, DoneCore
  <1>9. KVStep
    BY <1>1, <1>2, <1>4, <1>5, DoneRef
  <1>10. Table' = [Table EXCEPT ![s.key] = s.val]
    BY <1>1, <1>4 DEF Done, Table
  <1>11. /\ OthersWork(p)
         /\ proc'[p].op = proc[p].op /\ proc'[p].todo = Tail(proc[p].todo) /\ proc'[p].id = proc[p].id
    BY <1>1, DoneTypes DEF OthersWork
  <1> QED
    BY <1>1, <1>2, <1>5, <1>8, <1>9, <1>10, <1>11 DEF WriteWork

LEMMA UpdateStep ==
  ASSUME CoreInv, NEW p \in Procs, Update(p)
  PROVE  CoreInv' /\ KVStep /\ WriteWork(p)
  <1> DEFINE s == Head(proc[p].todo)
             new == {IF r.key = s.key THEN [r EXCEPT !.val = s.val] ELSE r : r \in rows}
  <1>1. /\ proc[p].pc = "write" /\ proc[p].form = "update" /\ Done(p, new)
        /\ entries' = IF s.key \in LogKeys THEN entries \cup {s.val[2]} ELSE entries
        /\ past' = past \cup Replaced(s.key, s.val)
        /\ UNCHANGED <<ops, crashes, handed, reused, overlap, scan>>
    BY DEF Update, Head1
  <1>2. /\ proc[p].todo # <<>> /\ s.kind = "put" /\ s.key \in Keys /\ Fits(s.key, s.val)
        /\ Table[s.key] # Absent \/ (proc[p].beaten /\ s.key \in Deletable)
        /\ s.key \in LogKeys => s.val[2] \in 1 .. MaxOps
        /\ Replaced(s.key, s.val) \subseteq OutKeys \X Versions
        /\ Replaced(s.key, s.val) \subseteq {<<s.key, Table[s.key]>>}
        /\ Replaced(s.key, s.val) # {} => s.key \in OutKeys /\ Table[s.key] \notin {s.val, Absent}
    BY <1>1, Writes
  <1>3. RowsOK(rows)
    BY DEF CoreInv
  <1> HIDE DEF s
  <1>0. \A x : x \in new <=> \E r \in rows : x = IF r.key = s.key THEN [r EXCEPT !.val = s.val] ELSE r
    OBVIOUS
  <1> HIDE DEF new
  <1>4. /\ RowsOK(new)
        /\ Table[s.key] # Absent => TableOf(new) = [Table EXCEPT ![s.key] = s.val]
        /\ Table[s.key] = Absent => TableOf(new) = Table
    BY <1>0, <1>2, <1>3, TableUpdate DEF Table
  <1>5. s = Head(proc[p].todo) /\ s.val # Absent /\ Table \in [Keys -> Values \cup {Absent}]
    BY <1>2, <1>3, AbsentIsNone, TableTypes DEF s, Fits, Table
  <1>6. /\ \A k \in Keys : k # s.key => TableOf(new)[k] = Table[k]
        /\ \A k \in Keys : Table[k] # Absent => TableOf(new)[k] # Absent
    BY <1>2, <1>4, <1>5
  <1>7. HistTypes'
    BY <1>1, <1>2, TypeParts DEF CoreInv, HistTypes
  <1>8. CoreInv'
    BY <1>1, <1>4, <1>5, <1>6, <1>7, DoneCore
  <1>9. \/ TableOf(new) = [Table EXCEPT ![s.key] = IF s.kind = "put" THEN s.val ELSE Absent]
        \/ proc[p].form = "update" /\ proc[p].beaten /\ TableOf(new) = Table
    BY <1>1, <1>2, <1>4
  <1>10. KVStep
    BY <1>1, <1>5, <1>9, DoneRef
  <1>11. \/ Table' = [Table EXCEPT ![s.key] = s.val]
         \/ s.key \in Deletable /\ Table[s.key] = Absent /\ Table' = Table
    BY <1>1, <1>2, <1>4 DEF Done, Table
  <1>12. /\ OthersWork(p)
         /\ proc'[p].op = proc[p].op /\ proc'[p].todo = Tail(proc[p].todo) /\ proc'[p].id = proc[p].id
    BY <1>1, DoneTypes DEF OthersWork
  <1>13. /\ past' \subseteq past \cup {<<s.key, Table[s.key]>>}
         /\ past' # past => s.key \in OutKeys /\ Table[s.key] # Absent /\ Table[s.key] # s.val
    BY <1>1, <1>2
  <1> QED
    BY <1>1, <1>2, <1>5, <1>8, <1>10, <1>11, <1>12, <1>13 DEF WriteWork

LEMMA DeleteStep ==
  ASSUME CoreInv, NEW p \in Procs, Delete(p)
  PROVE  CoreInv' /\ KVStep /\ WriteWork(p)
  <1> DEFINE s == Head(proc[p].todo)
             new == {r \in rows : r.key # s.key}
  <1>1. /\ proc[p].pc = "write" /\ proc[p].form = "delete" /\ Done(p, new)
        /\ past' = past \cup Replaced(s.key, Absent)
        /\ UNCHANGED <<ops, crashes, handed, reused, entries, overlap, scan>>
    BY DEF Delete, Head1
  <1>2. /\ proc[p].todo # <<>> /\ s.kind = "delete" /\ s.key \in Keys /\ s.key \in Deletable /\ s.key \notin LogKeys
        /\ Replaced(s.key, Absent) \subseteq OutKeys \X Versions
        /\ Replaced(s.key, Absent) \subseteq {<<s.key, Table[s.key]>>}
        /\ Replaced(s.key, Absent) # {} => s.key \in OutKeys /\ Table[s.key] # Absent
    BY <1>1, Writes
  <1>3. RowsOK(rows)
    BY DEF CoreInv
  <1>4. RowsOK(new) /\ TableOf(new) = [Table EXCEPT ![s.key] = Absent]
    BY <1>2, <1>3, TableDelete DEF Table
  <1> HIDE DEF new, s
  <1>5. s = Head(proc[p].todo) /\ Table \in [Keys -> Values \cup {Absent}]
    BY <1>3, TableTypes DEF s, Table
  <1>6. \A k \in Keys : k # s.key => TableOf(new)[k] = Table[k]
    BY <1>4, <1>5
  <1>7. HistTypes'
    BY <1>1, <1>2, TypeParts DEF CoreInv, HistTypes
  <1>8. CoreInv'
    BY <1>1, <1>4, <1>5, <1>6, <1>7, DoneCore
  <1>9. KVStep
    BY <1>1, <1>2, <1>4, <1>5, DoneRef
  <1>10. Table' = [Table EXCEPT ![s.key] = Absent]
    BY <1>1, <1>4 DEF Done, Table
  <1>11. /\ OthersWork(p)
         /\ proc'[p].op = proc[p].op /\ proc'[p].todo = Tail(proc[p].todo) /\ proc'[p].id = proc[p].id
    BY <1>1, DoneTypes DEF OthersWork
  <1>12. /\ past' \subseteq past \cup {<<s.key, Table[s.key]>>}
         /\ past' # past => s.key \in OutKeys /\ Table[s.key] # Absent
    BY <1>1, <1>2
  <1> QED
    BY <1>1, <1>2, <1>5, <1>8, <1>9, <1>10, <1>11, <1>12 DEF WriteWork

-----------------------------------------------------------------------------
(* The steps of an operation. *)

LEMMA StmtIs ==
  /\ \A k \in Keys, v \in Values : put(k, v) \in Stmts /\ put(k, v).kind = "put" /\ put(k, v).key = k /\ put(k, v).val = v
  /\ \A k \in Keys : del(k) \in Stmts /\ del(k).kind = "delete" /\ del(k).key = k
  /\ \A k \in OutKeys, v \in Versions : /\ hist(k, v) \in Stmts /\ hist(k, v).kind = "hist"
                                        /\ hist(k, v).key = k /\ hist(k, v).val = v
  BY AbsentIsNone DEF Stmts, put, del, hist

\* An operation that is begun (or a process that is opened), and one that ends: nothing happens to the map.
LEMMA WorkFrame ==
  ASSUME CoreInv, NEW p \in Procs, NEW r \in ProcRecs, Set(p, r), UNCHANGED <<rows, writer>>, HistTypes',
         proc[p].pc = "next", r.pc = "next", r.res = proc[p].res,
         r.op \in {"idle", "down"} => r.todo = <<>>,
         \A i \in 1 .. Len(r.todo) : StmtOK(r.op, r.todo[i])
  PROVE  CoreInv' /\ KVStep /\ OthersWork(p) /\ proc'[p] = r /\ Table' = Table
  <1> TypeOK
    BY DEF CoreInv
  <1>1. ProcOK(r, Table)
    BY DEF ProcOK
  <1>2. writer # p
    BY DEF CoreInv
  <1>3. CoreInv'
    BY <1>1, <1>2, CoreFrame, TypeParts
  <1>4. CallOf(r) = CallOf(proc[p])
    BY DEF CallOf
  <1>5. KVStep
    BY <1>4, RefFrame
  <1> QED
    BY <1>3, <1>5, SetIs DEF OthersWork, Table

\* What beginning an operation does.
StartWork(p, group, prog, n) ==
    /\ OthersWork(p)
    /\ proc'[p].op = group /\ proc'[p].todo = prog /\ proc'[p].id = n /\ proc[p].op = "idle"
    /\ Table' = Table
    /\ UNCHANGED <<handed, reused, entries, past>>
BeginWork(p, group, prog, n) ==
    /\ StartWork(p, group, prog, n)
    /\ overlap' = IF group # "plain" /\ \E q \in Procs : proc[q].op = group THEN overlap \cup {group} ELSE overlap
    /\ scan' = scan

LEMMA StartStep ==
  ASSUME CoreInv, NEW p \in Procs, NEW group \in Groups, NEW prog \in Seq(Stmts), NEW n \in 0 .. MaxIds,
         Start(p, group, prog, n), \A i \in 1 .. Len(prog) : StmtOK(group, prog[i]),
         overlap' \subseteq Groups, scan' \in [Procs -> 0 .. MaxIds]
  PROVE  CoreInv' /\ KVStep /\ StartWork(p, group, prog, n)
  <1> TypeOK
    BY DEF CoreInv
  <1> DEFINE r == [Idle EXCEPT !.op = group, !.todo = prog, !.id = n, !.res = proc[p].res]
  <1>1. /\ proc[p].op = "idle" /\ ops < MaxOps /\ ops' = ops + 1 /\ Set(p, r)
        /\ UNCHANGED <<rows, writer, crashes, handed, reused, entries, past>>
    BY DEF Start
  <1>2. /\ r \in ProcRecs /\ r.op = group /\ r.todo = prog /\ r.id = n /\ r.pc = "next" /\ r.res = proc[p].res
    <2>1. proc[p].res \in {"none", "ok", "failed"}
      BY TypeParts
    <2> QED
      BY <2>1, IdleTypes DEF ProcRecs
  <1> HIDE DEF r
  <1>3. HistTypes'
    <2>1. HistTypes
      BY TypeParts
    <2>2. ops' \in 0 .. MaxOps
      BY <1>1, <2>1, StoreAssumption DEF HistTypes
    <2>3. UNCHANGED <<crashes, handed, reused, entries, past>>
      BY <1>1
    <2> QED
      BY <2>1, <2>2, <2>3 DEF HistTypes
  <1>4. proc[p].pc = "next" /\ group \notin {"idle", "down"}
    BY <1>1 DEF CoreInv, ProcOK, Groups
  <1>5. CoreInv' /\ KVStep /\ OthersWork(p) /\ proc'[p] = r /\ Table' = Table
    BY <1>1, <1>2, <1>3, <1>4, WorkFrame
  <1> QED
    BY <1>1, <1>2, <1>5 DEF StartWork

LEMMA BeginStep ==
  ASSUME CoreInv, NEW p \in Procs, NEW group \in Groups, NEW prog \in Seq(Stmts), NEW n \in 0 .. MaxIds,
         Begin(p, group, prog, n), \A i \in 1 .. Len(prog) : StmtOK(group, prog[i])
  PROVE  CoreInv' /\ KVStep /\ BeginWork(p, group, prog, n)
  <1>1. /\ Start(p, group, prog, n) /\ scan' = scan
        /\ overlap' = IF group # "plain" /\ \E q \in Procs : proc[q].op = group
                      THEN overlap \cup {group} ELSE overlap
    BY DEF Begin, Meet
  <1>2. overlap' \subseteq Groups /\ scan' \in [Procs -> 0 .. MaxIds]
    BY <1>1, TypeParts DEF CoreInv, HistTypes
  <1>3. CoreInv' /\ KVStep /\ StartWork(p, group, prog, n)
    BY <1>1, <1>2, StartStep
  <1> QED
    BY <1>1, <1>3 DEF BeginWork

LEMMA OpenStep ==
  ASSUME CoreInv, NEW p \in Procs, Open(p)
  PROVE  /\ CoreInv' /\ KVStep /\ OthersWork(p) /\ proc'[p].op = "open" /\ proc[p].op = "down"
         /\ Table' = Table /\ UNCHANGED histVars
  <1> TypeOK
    BY DEF CoreInv
  <1> DEFINE t == <<put(Plain, <<"data", 0>>)>>
             r == [Idle EXCEPT !.op = "open", !.todo = t, !.res = proc[p].res]
  <1>1. proc[p].op = "down" /\ Set(p, r) /\ UNCHANGED <<rows, writer, histVars>>
    BY DEF Open
  <1>2. put(Plain, <<"data", 0>>) \in Stmts /\ put(Plain, <<"data", 0>>).key = Plain
        /\ put(Plain, <<"data", 0>>).val = <<"data", 0>> /\ put(Plain, <<"data", 0>>).kind = "put"
    BY StmtIs, KeyTypes, AbsentIsNone
  <1>3. StmtOK("open", put(Plain, <<"data", 0>>))
    BY <1>2, KeysApart, AbsentIsNone DEF StmtOK, KeysOf, Fits
  <1>4. t \in Seq(Stmts) /\ \A i \in 1 .. Len(t) : StmtOK("open", t[i])
    BY <1>2, <1>3
  <1> HIDE DEF t
  <1>5. /\ r \in ProcRecs /\ r.op = "open" /\ r.todo = t /\ r.pc = "next" /\ r.res = proc[p].res
    <2>1. proc[p].res \in {"none", "ok", "failed"} /\ "open" \in Groups
      BY TypeParts DEF Groups
    <2> QED
      BY <1>4, <2>1, IdleTypes DEF ProcRecs
  <1> HIDE DEF r
  <1>6. HistTypes'
    BY <1>1, TypeParts DEF histVars, HistTypes
  <1>7. proc[p].pc = "next"
    BY <1>1 DEF CoreInv, ProcOK
  <1>8. CoreInv' /\ KVStep /\ OthersWork(p) /\ proc'[p] = r /\ Table' = Table
    BY <1>1, <1>4, <1>5, <1>6, <1>7, WorkFrame
  <1> QED
    BY <1>1, <1>5, <1>8

LEMMA ReturnStep ==
  ASSUME CoreInv, NEW p \in Procs, Return(p)
  PROVE  /\ CoreInv' /\ KVStep /\ OthersWork(p) /\ proc'[p].op = "idle" /\ proc[p].todo = <<>>
         /\ handed' = IF proc[p].op = "child" THEN handed \cup {proc[p].id} ELSE handed
         /\ reused' = (reused \/ (proc[p].op = "child" /\ proc[p].id \in handed))
         /\ Table' = Table /\ UNCHANGED <<entries, past, overlap, scan>>
  <1> TypeOK
    BY DEF CoreInv
  <1> DEFINE r == [Idle EXCEPT !.res = proc[p].res]
  <1>1. /\ proc[p].todo = <<>> /\ Set(p, r)
        /\ handed' = IF proc[p].op = "child" THEN handed \cup {proc[p].id} ELSE handed
        /\ reused' = (reused \/ (proc[p].op = "child" /\ proc[p].id \in handed))
        /\ UNCHANGED <<rows, writer, ops, crashes, entries, past, overlap, scan>>
    BY DEF Return
  <1>2. r \in ProcRecs /\ r.op = "idle" /\ r.todo = <<>> /\ r.pc = "next" /\ r.res = proc[p].res
    <2>1. proc[p].res \in {"none", "ok", "failed"}
      BY TypeParts
    <2> QED
      BY <2>1, IdleTypes DEF ProcRecs
  <1> HIDE DEF r
  <1>3. HistTypes'
    <2>1. proc[p].id \in 0 .. MaxIds /\ HistTypes
      BY TypeParts
    <2> QED
      BY <1>1, <2>1 DEF HistTypes
  <1>4. proc[p].pc = "next"
    BY <1>1 DEF CoreInv, ProcOK
  <1>5. CoreInv' /\ KVStep /\ OthersWork(p) /\ proc'[p] = r /\ Table' = Table
    BY <1>1, <1>2, <1>3, <1>4, WorkFrame
  <1> QED
    BY <1>1, <1>2, <1>5

\* A scan that was about to save ends.
ScanLeft(p) == scan' = [scan EXCEPT ![p] = NoScan]

LEMMA ScanLeftTypes ==
  ASSUME HistTypes, NEW p \in Procs, ScanLeft(p)
  PROVE  /\ scan' \in [Procs -> 0 .. MaxIds] /\ scan'[p] = NoScan
         /\ \A q \in Procs : q # p => scan'[q] = scan[q]
  <1>1. NoScan \in 0 .. MaxIds
    BY StoreAssumption DEF NoScan
  <1> QED
    BY <1>1 DEF ScanLeft, HistTypes

LEMMA CrashStep ==
  ASSUME CoreInv, NEW p \in Procs, Crash(p)
  PROVE  /\ CoreInv' /\ KVStep /\ OthersWork(p) /\ proc'[p].op = "down"
         /\ Table' = Table /\ UNCHANGED <<handed, reused, entries, past, overlap>> /\ ScanLeft(p)
  <1> TypeOK
    BY DEF CoreInv
  <1> DEFINE z == IF Writing(p) THEN "failed" ELSE proc[p].res
             r == [Down EXCEPT !.res = z]
  <1>1. /\ crashes < MaxCrashes /\ crashes' = crashes + 1 /\ Set(p, r)
        /\ writer' = IF writer = p THEN Nobody ELSE writer
        /\ ScanLeft(p) /\ UNCHANGED <<rows, ops, handed, reused, entries, past, overlap>>
    BY DEF Crash, ScanLeft
  <1>2. z \in {"none", "ok", "failed"} /\ (Writing(p) => z = "failed") /\ (~Writing(p) => z = proc[p].res)
    BY TypeParts
  <1> HIDE DEF z
  <1>3. r \in ProcRecs /\ r.op = "down" /\ r.todo = <<>> /\ r.pc = "next" /\ r.res = z
    BY <1>2, IdleTypes DEF ProcRecs
  <1> HIDE DEF r
  <1>4. HistTypes'
    <2>1. scan' \in [Procs -> 0 .. MaxIds]
      BY <1>1, ScanLeftTypes, TypeParts
    <2> QED
      BY <1>1, <2>1, TypeParts, StoreAssumption DEF HistTypes
  <1>5. ProcOK(r, Table)
    BY <1>3 DEF ProcOK
  <1>6. CoreInv'
    BY <1>1, <1>3, <1>4, <1>5, CoreFrame, TypeParts, StoreAssumption
  <1>7. CallOf(r) = KV!NoCall
    BY <1>3, Mapping DEF CallOf
  <1>8. ~Writing(p) => CallOf(r) = CallOf(proc[p])
    BY <1>3 DEF CallOf, Writing
  <1>9. KVStep
    BY <1>1, <1>2, <1>3, <1>7, <1>8, RefFrame
  <1>10. OthersWork(p) /\ proc'[p] = r
    BY <1>1, <1>3, SetIs DEF OthersWork
  <1> QED
    BY <1>1, <1>3, <1>6, <1>9, <1>10 DEF Table

LEMMA Counts ==
  ASSUME CoreInv, NEW c \in Counters
  PROVE  /\ number(c) = Count(Table, c) /\ Count(Table, c) \in 0 .. MaxIds
         /\ Count(Table, c) < MaxIds => num(Count(Table, c) + 1) \in {"num"} \X (0 .. MaxIds)
  <1>1. RowsOK(rows) /\ c \in Keys
    BY DEF CoreInv, Keys
  <1>2. number(c) = Count(Table, c)
    BY <1>1, Reads DEF Count
  <1>3. Table[c] # Absent => Table[c] \in {"num"} \X (0 .. MaxIds)
    BY <1>1, TableTypes DEF Table, Fits
  <1>4. Count(Table, c) \in 0 .. MaxIds
    BY <1>3, StoreAssumption DEF Count
  <1>5. Count(Table, c) < MaxIds => Count(Table, c) + 1 \in 0 .. MaxIds
    BY <1>4, StoreAssumption
  <1> QED
    BY <1>2, <1>4, <1>5 DEF num

\* The statements of the operations are of their groups.
LEMMA CounterStmt ==
  ASSUME NEW g, NEW c \in Counters, c \in KeysOf(g), NEW n \in {"num"} \X (0 .. MaxIds)
  PROVE  StmtOK(g, put(c, n)) /\ put(c, n) \in Stmts /\ put(c, n).key = c /\ put(c, n).val = n /\ put(c, n).kind = "put"
  <1>1. n \in Values /\ c \in Keys
    BY StoreAssumption DEF Values, Keys
  <1> QED
    BY <1>1, StmtIs, KeysApart DEF StmtOK, Fits

LEMMA OutStmts ==
  ASSUME NEW k \in OutKeys, NEW v \in Versions
  PROVE  /\ StmtOK("out", put(k, v)) /\ StmtOK("out", hist(k, v)) /\ StmtOK("out", del(k))
         /\ put(k, v) \in Stmts /\ hist(k, v) \in Stmts /\ del(k) \in Stmts
         /\ put(k, v).key = k /\ put(k, v).val = v /\ put(k, v).kind = "put"
         /\ hist(k, v).key = k /\ hist(k, v).val = v /\ hist(k, v).kind = "hist"
         /\ del(k).key = k /\ del(k).kind = "delete"
  <1>1. k \in Keys /\ v \in Values
    BY KeyTypes, AbsentIsNone
  <1> QED
    BY <1>1, StmtIs, KeysApart DEF StmtOK, Fits, KeysOf, Deletable

LEMMA HistStmt ==
  ASSUME NEW n \in 0 .. MaxIds, NEW v \in Versions
  PROVE  /\ StmtOK("out", put(<<"hist", n>>, v)) /\ put(<<"hist", n>>, v) \in Stmts
         /\ put(<<"hist", n>>, v).key = <<"hist", n>> /\ put(<<"hist", n>>, v).val = v
         /\ put(<<"hist", n>>, v).kind = "put"
  <1>1. <<"hist", n>> \in Keys /\ <<"hist", n>> \in HistKeys /\ v \in Values
    BY KeyTypes, AbsentIsNone
  <1> QED
    BY <1>1, StmtIs, KeysApart DEF StmtOK, Fits, KeysOf

LEMMA LogStmt ==
  ASSUME NEW n \in 0 .. MaxIds, NEW v \in {"tx"} \X (1 .. MaxOps)
  PROVE  /\ StmtOK("log", put(<<"log", n>>, v)) /\ put(<<"log", n>>, v) \in Stmts
         /\ put(<<"log", n>>, v).key = <<"log", n>> /\ put(<<"log", n>>, v).val = v
         /\ put(<<"log", n>>, v).kind = "put"
  <1>1. <<"log", n>> \in Keys /\ <<"log", n>> \in LogKeys /\ v \in Values
    BY KeyTypes DEF Values
  <1> QED
    BY <1>1, StmtIs, KeysApart DEF StmtOK, Fits, KeysOf

LEMMA PlainStmts ==
  /\ StmtOK("plain", put(Plain, <<"data", 0>>)) /\ put(Plain, <<"data", 0>>) \in Stmts
  /\ StmtOK("plain", del(Plain)) /\ del(Plain) \in Stmts
  BY StmtIs, KeyTypes, KeysApart, AbsentIsNone DEF StmtOK, Fits, KeysOf, Deletable

\* What next_child, save_child_index and the rest of a scan do.
ChildWork(p) == \E n \in 0 .. MaxIds :
    /\ n = Count(Table, Child) /\ StartWork(p, "child", <<put(Child, num(n + 1))>>, n)
    /\ Meet("child", Counting) /\ scan' = scan
SaveIndexWork(p) == \E n \in 0 .. MaxIds :
    /\ scan[p] = n /\ n # NoScan /\ StartWork(p, "child", <<put(Child, num(n + 1))>>, n)
    /\ Meet("child", \E q \in Procs : proc[q].op = "child") /\ ScanLeft(p)
CompareWork(p) == \E m \in Indices :
    Count(Table, Child) <= m /\ scan' = [scan EXCEPT ![p] = m] /\ Meet("child", Counting)
ScanWork(p) ==
    /\ SameWork /\ Table' = Table /\ UNCHANGED <<handed, reused, entries, past>>
    /\ CompareWork(p) \/ (ScanLeft(p) /\ overlap' = overlap)

LEMMA MeetTypes ==
  ASSUME HistTypes, NEW met \in BOOLEAN, Meet("child", met)
  PROVE  overlap' \subseteq Groups /\ overlap \subseteq overlap'
         /\ \A g : g # "child" => (g \in overlap' <=> g \in overlap)
  BY DEF Meet, HistTypes, Groups

LEMMA ChildProg ==
  ASSUME NEW n \in 0 .. MaxIds, n < MaxIds
  PROVE  LET t == <<put(Child, num(n + 1))>>
         IN  t \in Seq(Stmts) /\ (\A i \in 1 .. Len(t) : StmtOK("child", t[i])) /\ "child" \in Groups
  <1> DEFINE s == put(Child, num(n + 1))
  <1>1. Child \in Counters /\ Child \in KeysOf("child")
    BY KeyTypes DEF KeysOf
  <1>2. n + 1 \in 0 .. MaxIds
    BY StoreAssumption
  <1>3. num(n + 1) \in {"num"} \X (0 .. MaxIds)
    BY <1>2 DEF num
  <1>4. StmtOK("child", s) /\ s \in Stmts
    BY <1>1, <1>3, CounterStmt
  <1> HIDE DEF s
  <1>5. <<s>> \in Seq(Stmts) /\ (\A i \in 1 .. Len(<<s>>) : StmtOK("child", <<s>>[i]))
    BY <1>4
  <1> QED
    BY <1>5 DEF s, Groups

LEMMA NextChildStep ==
  ASSUME CoreInv, NEW p \in Procs, NextChild(p)
  PROVE  CoreInv' /\ KVStep /\ ChildWork(p)
  <1> DEFINE n == Count(Table, Child)
             t == <<put(Child, num(n + 1))>>
  <1>1. Child \in Counters
    BY KeyTypes
  <1>2. n = number(Child) /\ n \in 0 .. MaxIds
    BY <1>1, Counts
  <1>3. n < MaxIds /\ Start(p, "child", t, n) /\ Meet("child", Counting) /\ scan' = scan
    BY <1>2 DEF NextChild, Child
  <1> HIDE DEF n
  <1>4. t \in Seq(Stmts) /\ (\A i \in 1 .. Len(t) : StmtOK("child", t[i])) /\ "child" \in Groups
    BY <1>2, <1>3, ChildProg
  <1> HIDE DEF t
  <1>5. overlap' \subseteq Groups /\ scan' \in [Procs -> 0 .. MaxIds]
    <2>1. HistTypes
      BY TypeParts DEF CoreInv
    <2>2. Counting \in BOOLEAN
      BY DEF Counting
    <2> QED
      BY <1>3, <2>1, <2>2, MeetTypes DEF HistTypes
  <1>6. CoreInv' /\ KVStep /\ StartWork(p, "child", t, n)
    BY <1>2, <1>3, <1>4, <1>5, StartStep
  <1> QED
    BY <1>2, <1>3, <1>6 DEF ChildWork, t, n

LEMMA SaveChildIndexStep ==
  ASSUME CoreInv, NEW p \in Procs, SaveChildIndex(p)
  PROVE  CoreInv' /\ KVStep /\ SaveIndexWork(p)
  <1> DEFINE n == scan[p]
             t == <<put(Child, num(n + 1))>>
             met == \E q \in Procs : proc[q].op = "child"
  <1>1. n # NoScan /\ Start(p, "child", t, n) /\ Meet("child", met) /\ ScanLeft(p)
    BY DEF SaveChildIndex, ScanLeft, Child
  <1>2. HistTypes /\ met \in BOOLEAN
    BY TypeParts DEF CoreInv
  <1>3. n \in 0 .. MaxIds
    BY <1>2 DEF HistTypes
  <1> HIDE DEF n, met
  <1>4. n < MaxIds
    BY <1>1, <1>3, StoreAssumption DEF NoScan
  <1>5. t \in Seq(Stmts) /\ (\A i \in 1 .. Len(t) : StmtOK("child", t[i])) /\ "child" \in Groups
    BY <1>3, <1>4, ChildProg
  <1> HIDE DEF t
  <1>6. overlap' \subseteq Groups /\ scan' \in [Procs -> 0 .. MaxIds]
    BY <1>1, <1>2, MeetTypes, ScanLeftTypes
  <1>7. CoreInv' /\ KVStep /\ StartWork(p, "child", t, n)
    BY <1>1, <1>3, <1>5, <1>6, StartStep
  <1> QED
    BY <1>1, <1>3, <1>7 DEF SaveIndexWork, t, n, met

\* A scan that compares, or that ends before it saves, leaves the processes and the table alone.
LEMMA ScanStep ==
  ASSUME CoreInv, NEW p \in Procs, (\E m \in Indices : ScanReadChildIndex(p, m)) \/ ScanFails(p)
  PROVE  CoreInv' /\ KVStep /\ ScanWork(p)
  <1>1. UNCHANGED <<rows, writer, proc>> /\ UNCHANGED <<crashes, handed, reused, entries, past>>
    BY DEF ScanReadChildIndex, ScanFails
  <1>2. HistTypes
    BY TypeParts DEF CoreInv
  <1>3. /\ ops' \in 0 .. MaxOps /\ overlap' \subseteq Groups /\ scan' \in [Procs -> 0 .. MaxIds]
        /\ CompareWork(p) \/ (ScanLeft(p) /\ overlap' = overlap)
    <2>1. CASE ScanFails(p)
      BY <1>2, <2>1, ScanLeftTypes DEF ScanFails, ScanLeft, HistTypes
    <2>2. CASE \E m \in Indices : ScanReadChildIndex(p, m)
      <3>1. PICK m \in Indices : ScanReadChildIndex(p, m)
        BY <2>2
      <3>2. number(Child) = Count(Table, Child) /\ Count(Table, Child) \in 0 .. MaxIds
        BY Counts, KeyTypes
      <3>3. m \in 0 .. MaxIds /\ m >= Count(Table, Child)
        BY <3>1, <3>2, StoreAssumption DEF ScanReadChildIndex, Indices, Child
      <3>4. Count(Table, Child) <= m
        BY <3>2, <3>3
      <3>5. scan' = [scan EXCEPT ![p] = m] /\ Meet("child", Counting) /\ ops' = ops + 1 /\ ops < MaxOps
        BY <3>1 DEF ScanReadChildIndex
      <3>6. overlap' \subseteq Groups
        <4>1. Counting \in BOOLEAN
          BY DEF Counting
        <4> QED
          BY <1>2, <3>5, <4>1, MeetTypes
      <3>7. scan' \in [Procs -> 0 .. MaxIds]
        BY <1>2, <3>3, <3>5 DEF HistTypes
      <3>8. ops' \in 0 .. MaxOps
        BY <1>2, <3>5, StoreAssumption DEF HistTypes
      <3> QED
        BY <3>4, <3>5, <3>6, <3>7, <3>8 DEF CompareWork
    <2> QED
      BY <2>1, <2>2
  <1>4. Table' = Table
    BY <1>1 DEF Table
  <1>5. HistTypes'
    BY <1>1, <1>2, <1>3 DEF HistTypes
  <1>6. TypeOK'
    BY <1>1, <1>5, TypeParts DEF CoreInv, TypeOK, HistTypes
  <1>7. CoreInv'
    BY <1>1, <1>4, <1>6 DEF CoreInv
  <1>8. KVStep
    BY <1>1, <1>4, Mapping DEF KVStep, KV!kvVars
  <1>9. SameWork /\ UNCHANGED <<handed, reused, entries, past>>
    BY <1>1 DEF SameWork
  <1> QED
    BY <1>3, <1>4, <1>7, <1>8, <1>9 DEF ScanWork

LEMMA NewLogEntryStep ==
  ASSUME CoreInv, NEW p \in Procs, NewLogEntry(p)
  PROVE  CoreInv' /\ KVStep /\ \E n \in 0 .. MaxIds, v \in {"tx"} \X (1 .. MaxOps) :
            n = Count(Table, LogId) /\ BeginWork(p, "log", <<put(LogId, num(n + 1)), put(<<"log", n>>, v)>>, 0)
  <1> DEFINE n == Count(Table, LogId)
             v == <<"tx", ops + 1>>
             s == put(LogId, num(n + 1))
             u == put(<<"log", n>>, v)
  <1>1. LogId \in Counters /\ LogId \in KeysOf("log")
    BY KeyTypes DEF KeysOf
  <1>2. n = number(LogId) /\ n \in 0 .. MaxIds /\ 0 \in 0 .. MaxIds
    BY <1>1, Counts, StoreAssumption
  <1>3. n < MaxIds /\ Begin(p, "log", <<s, u>>, 0)
    BY <1>2 DEF NewLogEntry, LogId
  <1>4. num(n + 1) \in {"num"} \X (0 .. MaxIds)
    BY <1>1, <1>3, Counts
  <1>5. v \in {"tx"} \X (1 .. MaxOps)
    <2>1. ops \in 0 .. MaxOps /\ ops < MaxOps
      BY <1>3 DEF Begin, Start, CoreInv, TypeOK
    <2> QED
      BY <2>1, StoreAssumption
  <1> HIDE DEF v
  <1>6. StmtOK("log", s) /\ s \in Stmts /\ StmtOK("log", u) /\ u \in Stmts
    BY <1>1, <1>2, <1>4, <1>5, CounterStmt, LogStmt
  <1> HIDE DEF s, u, n
  <1>7. <<s, u>> \in Seq(Stmts) /\ (\A i \in 1 .. Len(<<s, u>>) : StmtOK("log", <<s, u>>[i])) /\ "log" \in Groups
    BY <1>6 DEF Groups
  <1>8. CoreInv' /\ KVStep /\ BeginWork(p, "log", <<s, u>>, 0)
    BY <1>2, <1>3, <1>7, BeginStep
  <1> QED
    BY <1>2, <1>5, <1>8 DEF s, u, n

LEMMA PlainStep ==
  ASSUME CoreInv, NEW p \in Procs, SavePlain(p) \/ DeletePrivateContext(p)
  PROVE  CoreInv' /\ KVStep /\ \E prog : BeginWork(p, "plain", prog, 0)
  <1> DEFINE s == put(Plain, <<"data", 0>>)
             d == del(Plain)
  <1>1. StmtOK("plain", s) /\ s \in Stmts /\ StmtOK("plain", d) /\ d \in Stmts
    BY PlainStmts
  <1>2. Begin(p, "plain", <<s>>, 0) \/ Begin(p, "plain", <<d>>, 0)
    BY DEF SavePlain, DeletePrivateContext
  <1> HIDE DEF s, d
  <1>3. /\ <<s>> \in Seq(Stmts) /\ (\A i \in 1 .. Len(<<s>>) : StmtOK("plain", <<s>>[i])) /\ "plain" \in Groups
        /\ <<d>> \in Seq(Stmts) /\ (\A i \in 1 .. Len(<<d>>) : StmtOK("plain", <<d>>[i])) /\ 0 \in 0 .. MaxIds
    BY <1>1, StoreAssumption DEF Groups
  <1> QED
    BY <1>2, <1>3, BeginStep

\* Two statements after each other.
LEMMA Appended ==
  ASSUME NEW S, NEW a \in Seq(S), NEW b \in Seq(S)
  PROVE  /\ a \o b \in Seq(S) /\ Len(a \o b) = Len(a) + Len(b)
         /\ \A i \in 1 .. Len(a) : (a \o b)[i] = a[i]
         /\ \A i \in 1 .. Len(b) : (a \o b)[i + Len(a)] = b[i]
  OBVIOUS

\* The program of save and of delete, behind its reads.
OutProg(t) ==
    /\ t \in Seq(Stmts) /\ \A i \in 1 .. Len(t) : StmtOK("out", t[i])
    /\ OutTodo(t, Table)

LEMMA OneLeft ==
  ASSUME NEW t, NEW T, Len(t) = 1, t[1].key \in OutKeys, t[1].kind \in {"put", "delete"},
         T[t[1].key] = Absent \/ (t[1].kind = "put" /\ T[t[1].key] = t[1].val)
  PROVE  OutTodo(t, T)
  <1>1. t[1].key # HistId /\ t[1].key \notin HistKeys
    BY KeysApart, KeyTypes
  <1> QED
    BY <1>1 DEF OutTodo, Covered

LEMMA SaveStep ==
  ASSUME CoreInv, NEW p \in Procs, NEW o \in Outs, NEW st \in Statuses, Save(p, o, st)
  PROVE  CoreInv' /\ KVStep /\ \E t : OutProg(t) /\ BeginWork(p, "out", t, 0)
  <1> DEFINE k == <<"out", o>>
             v == <<st, o>>
             w == get(k)
             h == hist(k, w)
             s == put(k, v)
             a == IF w \notin {v, Absent} THEN <<h>> ELSE <<>>
             t == a \o <<s>>
  <1>1. Begin(p, "out", t, 0)
    BY DEF Save
  <1>2. k \in OutKeys /\ v \in Versions /\ k \in Keys
    BY KeyTypes DEF Versions
  <1> HIDE DEF k, v
  <1>3. w = Table[k] /\ (w # Absent => w \in Versions)
    <2>1. RowsOK(rows)
      BY DEF CoreInv
    <2>2. get(k) = Table[k] /\ (exists(k) <=> Table[k] # Absent)
      BY <1>2, <2>1, Reads
    <2>3. Table[k] # Absent => Table[k] \in Versions
      BY <1>2, <2>1, TableTypes DEF Table, Fits
    <2> QED
      BY <2>2, <2>3
  <1> HIDE DEF w
  <1>4. s \in Stmts /\ s.key = k /\ s.val = v /\ s.kind = "put" /\ StmtOK("out", s)
    BY <1>2, OutStmts
  <1>5. w # Absent => h \in Stmts /\ h.key = k /\ h.val = w /\ h.kind = "hist" /\ StmtOK("out", h)
    BY <1>2, <1>3, OutStmts
  <1> HIDE DEF s, h
  <1>6. k # HistId /\ k \notin HistKeys
    BY <1>2, KeysApart, KeyTypes
  <1>7. OutProg(t)
    <2>1. CASE w \notin {v, Absent}
      <3>1. a = <<h>> /\ <<h>> \in Seq(Stmts) /\ <<s>> \in Seq(Stmts)
        BY <1>4, <1>5, <2>1
      <3>2. t \in Seq(Stmts) /\ Len(t) = 2 /\ t[1] = h /\ t[2] = s
        BY <3>1, Appended
      <3> HIDE DEF t
      <3>3. OutTodo(t, Table)
        BY <1>2, <1>3, <1>4, <1>5, <1>6, <2>1, <3>2 DEF OutTodo, Covered
      <3> QED
        BY <1>4, <1>5, <2>1, <3>2, <3>3 DEF OutProg
    <2>2. CASE w \in {v, Absent}
      <3>1. a = <<>> /\ <<>> \in Seq(Stmts) /\ <<s>> \in Seq(Stmts)
        BY <1>4, <2>2
      <3>2. t \in Seq(Stmts) /\ Len(t) = 1 /\ t[1] = s
        BY <3>1, Appended
      <3> HIDE DEF t
      <3>3. OutTodo(t, Table)
        BY <1>2, <1>3, <1>4, <1>6, <2>2, <3>2 DEF OutTodo, Covered
      <3> QED
        BY <1>4, <3>2, <3>3 DEF OutProg
    <2> QED
      BY <2>1, <2>2
  <1> HIDE DEF t
  <1>8. 0 \in 0 .. MaxIds /\ "out" \in Groups
    BY StoreAssumption DEF Groups
  <1> QED
    BY <1>1, <1>7, <1>8, BeginStep DEF OutProg

LEMMA DeleteOutputStep ==
  ASSUME CoreInv, NEW p \in Procs, NEW o \in Outs, DeleteOutput(p, o)
  PROVE  CoreInv' /\ KVStep /\ \E t : OutProg(t) /\ BeginWork(p, "out", t, 0)
  <1> DEFINE k == <<"out", o>>
             x == <<"Deleted", o>>
             w == get(k)
             h == hist(k, w)
             g == hist(k, x)
             d == del(k)
             a == IF w # Absent THEN <<h, g>> ELSE <<>>
             t == a \o <<d>>
  <1>0. k \in Keys /\ (exists(k) <=> w # Absent)
    <2>1. k \in Keys /\ RowsOK(rows)
      BY KeyTypes DEF CoreInv
    <2> QED
      BY <2>1, Reads
  <1>1. Begin(p, "out", t, 0)
    BY <1>0 DEF DeleteOutput
  <1>2. k \in OutKeys /\ x \in Versions /\ k \in Keys
    BY KeyTypes DEF Versions
  <1> HIDE DEF k, x
  <1>3. w = Table[k] /\ (w # Absent => w \in Versions)
    <2>1. RowsOK(rows)
      BY DEF CoreInv
    <2>2. get(k) = Table[k] /\ (exists(k) <=> Table[k] # Absent)
      BY <1>2, <2>1, Reads
    <2>3. Table[k] # Absent => Table[k] \in Versions
      BY <1>2, <2>1, TableTypes DEF Table, Fits
    <2> QED
      BY <2>2, <2>3
  <1> HIDE DEF w
  <1>4. d \in Stmts /\ d.key = k /\ d.kind = "delete" /\ StmtOK("out", d)
    BY <1>2, OutStmts
  <1>5. g \in Stmts /\ g.key = k /\ g.kind = "hist" /\ StmtOK("out", g)
    BY <1>2, OutStmts
  <1>6. w # Absent => h \in Stmts /\ h.key = k /\ h.val = w /\ h.kind = "hist" /\ StmtOK("out", h)
    BY <1>2, <1>3, OutStmts
  <1> HIDE DEF d, g, h
  <1>7. k # HistId /\ k \notin HistKeys
    BY <1>2, KeysApart, KeyTypes
  <1>8. OutProg(t)
    <2>1. CASE w # Absent
      <3>1. a = <<h, g>> /\ <<h, g>> \in Seq(Stmts) /\ <<d>> \in Seq(Stmts)
        BY <1>3, <1>4, <1>5, <1>6, <2>1
      <3> HIDE DEF a
      <3>2. t \in Seq(Stmts) /\ Len(t) = 3 /\ t[1] = h /\ t[2] = g /\ t[3] = d
        <4>1. Len(a) = 2 /\ Len(<<d>>) = 1 /\ a[1] = h /\ a[2] = g /\ <<d>>[1] = d /\ a \in Seq(Stmts)
          BY <3>1
        <4>2. /\ t \in Seq(Stmts) /\ Len(t) = Len(a) + Len(<<d>>)
              /\ \A i \in 1 .. Len(a) : t[i] = a[i]
              /\ \A i \in 1 .. Len(<<d>>) : t[i + Len(a)] = <<d>>[i]
          BY <3>1, <4>1, Appended
        <4> QED
          BY <4>1, <4>2
      <3> HIDE DEF t
      <3>3. OutTodo(t, Table)
        BY <1>2, <1>3, <1>4, <1>5, <1>6, <1>7, <2>1, <3>2 DEF OutTodo, Covered
      <3>4. \A i \in 1 .. Len(t) : StmtOK("out", t[i])
        BY <1>4, <1>5, <1>6, <2>1, <3>2
      <3> QED
        BY <3>2, <3>3, <3>4 DEF OutProg
    <2>2. CASE w = Absent
      <3>1. a = <<>> /\ <<>> \in Seq(Stmts) /\ <<d>> \in Seq(Stmts)
        BY <1>3, <1>4, <2>2
      <3> HIDE DEF a
      <3>2. t \in Seq(Stmts) /\ Len(t) = 1 /\ t[1] = d
        BY <3>1, Appended
      <3> HIDE DEF t
      <3>3. OutTodo(t, Table)
        BY <1>2, <1>3, <1>4, <2>2, <3>2, OneLeft
      <3> QED
        BY <1>4, <3>2, <3>3 DEF OutProg
    <2> QED
      BY <2>1, <2>2
  <1> HIDE DEF t
  <1>9. 0 \in 0 .. MaxIds /\ "out" \in Groups
    BY StoreAssumption DEF Groups
  <1> QED
    BY <1>1, <1>8, <1>9, BeginStep DEF OutProg

\* save_output_history: nothing is to do, or a new id and a row.
HistWork(p) ==
    LET n == Count(Table, HistId)
        s == Head(proc[p].todo)
    IN  /\ OthersWork(p) /\ proc[p].todo # <<>> /\ proc[p].op = "out"
        /\ proc'[p].op = proc[p].op /\ proc'[p].id = proc[p].id /\ s.kind = "hist" /\ s.val \in Versions
        /\ \/ InHist(Table, s.val) /\ proc'[p].todo = Tail(proc[p].todo)
           \/ /\ n < MaxIds
              /\ proc'[p].todo = <<put(HistId, num(n + 1)), put(<<"hist", n>>, s.val)>> \o Tail(proc[p].todo)
        /\ Table' = Table /\ UNCHANGED histVars

LEMMA SaveOutputHistoryStep ==
  ASSUME CoreInv, NEW p \in Procs, SaveOutputHistory(p)
  PROVE  CoreInv' /\ KVStep /\ HistWork(p)
  <1> TypeOK
    BY DEF CoreInv
  <1> DEFINE n == Count(Table, HistId)
             s == Head(proc[p].todo)
             u == put(HistId, num(n + 1))
             w == put(<<"hist", n>>, s.val)
             a == IF s.val \in iter("hist") THEN <<>> ELSE <<u, w>>
             t == a \o Tail(proc[p].todo)
             r == [proc[p] EXCEPT !.todo = t]
  <1>1. HistId \in Counters /\ HistId \in KeysOf("out")
    BY KeyTypes DEF KeysOf
  <1>2. number(HistId) = n /\ n \in 0 .. MaxIds /\ (n < MaxIds => num(n + 1) \in {"num"} \X (0 .. MaxIds))
    BY <1>1, Counts
  <1>3. /\ proc[p].todo # <<>> /\ s.kind = "hist" /\ (s.val \in iter("hist") \/ n < MaxIds)
        /\ Set(p, r) /\ UNCHANGED <<rows, writer, histVars>>
    BY <1>2 DEF SaveOutputHistory, Head1, HistId
  <1>4. proc[p] \in ProcRecs /\ ProcOK(proc[p], Table) /\ RowsOK(rows)
    BY TypeParts DEF CoreInv
  <1>5. /\ s \in Stmts /\ StmtOK(proc[p].op, s) /\ Tail(proc[p].todo) \in Seq(Stmts)
        /\ \A i \in 1 .. Len(Tail(proc[p].todo)) : StmtOK(proc[p].op, Tail(proc[p].todo)[i])
    BY <1>3, <1>4, HeadOK
  <1>6. s.key \in OutKeys /\ s.val \in Versions
    BY <1>3, <1>5, StmtTypes
  <1>7. proc[p].pc = "next" /\ proc[p].op = "out"
    <2>1. proc[p].pc = "next"
      BY <1>3, <1>4 DEF ProcOK
    <2>2. s.key \in KeysOf(proc[p].op)
      BY <1>5 DEF StmtOK
    <2>3. s.key \notin {Child} /\ s.key \notin {LogId} \cup LogKeys /\ s.key \notin {Plain}
      BY <1>6, KeysApart, KeyTypes
    <2> QED
      BY <2>1, <2>2, <2>3 DEF KeysOf
  <1>8. n < MaxIds => StmtOK("out", u) /\ u \in Stmts
    BY <1>1, <1>2, CounterStmt
  <1>9. StmtOK("out", w) /\ w \in Stmts
    BY <1>2, <1>6, HistStmt
  <1> HIDE DEF u, w, n, s
  <1>10. \/ s.val \in iter("hist") /\ a = <<>>
         \/ s.val \notin iter("hist") /\ a = <<u, w>> /\ n < MaxIds
    BY <1>3
  <1>11. a \in Seq(Stmts) /\ \A i \in 1 .. Len(a) : StmtOK("out", a[i])
    <2>1. CASE a = <<>>
      BY <2>1
    <2>2. CASE a = <<u, w>> /\ n < MaxIds
      BY <1>8, <1>9, <2>2
    <2> QED
      BY <1>10, <2>1, <2>2
  <1> HIDE DEF a
  <1>12. t \in Seq(Stmts) /\ \A i \in 1 .. Len(t) : StmtOK("out", t[i])
    <2> DEFINE b == Tail(proc[p].todo)
    <2>1. b \in Seq(Stmts) /\ \A i \in 1 .. Len(b) : StmtOK("out", b[i])
      BY <1>5, <1>7
    <2> HIDE DEF b
    <2>2. /\ a \o b \in Seq(Stmts) /\ Len(a \o b) = Len(a) + Len(b)
          /\ \A i \in 1 .. Len(a) : (a \o b)[i] = a[i]
          /\ \A i \in 1 .. Len(b) : (a \o b)[i + Len(a)] = b[i]
      BY <1>11, <2>1, Appended
    <2>3. Len(a) \in Nat /\ Len(b) \in Nat
      BY <1>11, <2>1
    <2>4. ASSUME NEW i \in 1 .. Len(a \o b) PROVE StmtOK("out", (a \o b)[i])
      <3>1. CASE i \in 1 .. Len(a)
        BY <1>11, <2>2, <3>1
      <3>2. CASE i - Len(a) \in 1 .. Len(b)
        <4>1. (i - Len(a)) + Len(a) = i
          BY <2>2, <2>3
        <4>2. (a \o b)[i] = b[i - Len(a)]
          BY <2>2, <3>2, <4>1
        <4> QED
          BY <2>1, <3>2, <4>2
      <3> QED
        BY <2>2, <2>3, <3>1, <3>2
    <2> QED
      BY <2>2, <2>4 DEF b
  <1>13. t = IF a = <<>> THEN Tail(proc[p].todo) ELSE a \o Tail(proc[p].todo)
    BY <1>5
  <1> HIDE DEF t
  <1>14. r \in ProcRecs /\ r.op = proc[p].op /\ r.todo = t /\ r.id = proc[p].id /\ r.pc = proc[p].pc
         /\ r.res = proc[p].res
    BY <1>4, <1>12 DEF ProcRecs
  <1> HIDE DEF r
  <1>15. HistTypes'
    BY <1>3, TypeParts DEF histVars, HistTypes
  <1>16. CoreInv' /\ KVStep /\ OthersWork(p) /\ proc'[p] = r /\ Table' = Table
    BY <1>3, <1>7, <1>12, <1>14, <1>15, WorkFrame
  <1>17. \/ InHist(Table, s.val) /\ t = Tail(proc[p].todo)
         \/ n < MaxIds /\ t = <<u, w>> \o Tail(proc[p].todo)
    <2>1. CASE s.val \in iter("hist") /\ a = <<>>
      <3>1. InHist(Table, s.val)
        BY <1>4, <2>1, Reads DEF InHist
      <3> QED
        BY <1>13, <2>1, <3>1
    <2>2. CASE a = <<u, w>> /\ n < MaxIds
      BY <1>13, <2>2
    <2> QED
      BY <1>10, <2>1, <2>2
  <1> QED
    BY <1>3, <1>6, <1>7, <1>14, <1>16, <1>17 DEF HistWork, u, w, n, s

-----------------------------------------------------------------------------
(* The table is an atomic map. *)

others == <<handed, reused, entries, past, overlap, scan>>

\* What a step of p is to the work of the processes, to the table and to the histories.
ReturnWork(p) ==
    /\ OthersWork(p) /\ proc'[p].op = "idle" /\ proc[p].todo = <<>>
    /\ handed' = IF proc[p].op = "child" THEN handed \cup {proc[p].id} ELSE handed
    /\ reused' = (reused \/ (proc[p].op = "child" /\ proc[p].id \in handed))
    /\ Table' = Table /\ UNCHANGED <<entries, past, overlap, scan>>
LeaveWork(p) ==
    /\ OthersWork(p) /\ proc'[p].op \in {"down", "open"}
    /\ Table' = Table /\ UNCHANGED <<handed, reused, entries, past, overlap>>
    /\ scan' = scan \/ ScanLeft(p)
LogWork(p) == \E n \in 0 .. MaxIds, v \in {"tx"} \X (1 .. MaxOps) :
    n = Count(Table, LogId) /\ BeginWork(p, "log", <<put(LogId, num(n + 1)), put(<<"log", n>>, v)>>, 0)
OutWork(p) == \E t : OutProg(t) /\ BeginWork(p, "out", t, 0)
PlainWork(p) == \E t : BeginWork(p, "plain", t, 0)
Work(p) ==
    \/ SameWork /\ Table' = Table /\ UNCHANGED others
    \/ FailsWork(p) /\ Table' = Table /\ UNCHANGED others
    \/ WriteWork(p) \/ HistWork(p) \/ ReturnWork(p) \/ LeaveWork(p)
    \/ ChildWork(p) \/ SaveIndexWork(p) \/ ScanWork(p)
    \/ LogWork(p) \/ OutWork(p) \/ PlainWork(p)

LEMMA CoreInit == Init => CoreInv /\ KV!KVInit
  <1> SUFFICES ASSUME Init PROVE CoreInv /\ KV!KVInit
    OBVIOUS
  <1> DEFINE r == [key |-> Plain, val |-> <<"data", 0>>]
  <1>1. r \in [key : Keys, val : Values] /\ r.key = Plain /\ r.val = <<"data", 0>>
    BY KeyTypes, AbsentIsNone
  <1> HIDE DEF r
  <1>2. rows = {r}
    BY DEF Init, r
  <1>3. Fits(Plain, <<"data", 0>>)
    BY KeysApart, AbsentIsNone DEF Fits
  <1>4. RowsOK(rows)
    BY <1>1, <1>2, <1>3 DEF RowsOK
  <1>5. proc \in [Procs -> ProcRecs] /\ \A p \in Procs : proc[p] = Idle
    BY IdleTypes DEF Init
  <1>6. HistTypes
    <2>1. 0 \in 0 .. MaxOps /\ 0 \in 0 .. MaxCrashes /\ NoScan \in 0 .. MaxIds
      BY StoreAssumption DEF NoScan
    <2> QED
      BY <2>1 DEF Init, HistTypes
  <1>7. TypeOK
    <2>1. rows \subseteq [key : Keys, val : Values] /\ writer \in Procs \cup {Nobody}
      BY <1>1, <1>2 DEF Init
    <2> QED
      BY <1>5, <1>6, <2>1, TypeParts
  <1>8. ProcOK(Idle, Table)
    BY IdleTypes DEF ProcOK
  <1>9. \A p \in Procs : writer = p <=> proc[p].pc = "write"
    BY <1>5, IdleTypes, StoreAssumption DEF Init
  <1>10. CoreInv
    BY <1>4, <1>5, <1>7, <1>8, <1>9 DEF CoreInv
  <1>11. CallsOf(proc) = [p \in Procs |-> KV!NoCall] /\ ResOf(proc) = [p \in Procs |-> "none"]
    BY <1>5, IdleTypes, Mapping DEF CallsOf, CallOf, ResOf
  <1>12. Table \in [Keys -> Values \cup {Absent}]
    BY <1>4, TableTypes DEF Table
  <1>13. KV!KVInit
    BY <1>11, <1>12, Mapping DEF KV!KVInit
  <1> QED
    BY <1>10, <1>13

LEMMA CoreStep ==
  ASSUME CoreInv, NEW p \in Procs,
         \/ Step(p) \/ Open(p) \/ NextChild(p) \/ NewLogEntry(p)
         \/ \E m \in Indices : ScanReadChildIndex(p, m)
         \/ SaveChildIndex(p) \/ ScanFails(p)
         \/ \E o \in Outs, s \in Statuses : Save(p, o, s)
         \/ \E o \in Outs : DeleteOutput(p, o)
         \/ SavePlain(p) \/ DeletePrivateContext(p) \/ Crash(p)
  PROVE  CoreInv' /\ KVStep /\ Work(p)
  <1>0. UNCHANGED histVars => UNCHANGED others
    BY DEF histVars, others
  <1>1. CASE Prepare(p) \/ Execute(p)
    BY <1>0, <1>1, PrepareStep, ExecuteStep DEF Work
  <1>2. CASE Busy(p) \/ InsertFails(p)
    BY <1>0, <1>2, BusyStep, InsertFailsStep DEF Work
  <1>3. CASE Insert(p) \/ Update(p) \/ Delete(p)
    BY <1>3, InsertStep, UpdateStep, DeleteStep DEF Work
  <1>4. CASE SaveOutputHistory(p)
    BY <1>4, SaveOutputHistoryStep DEF Work
  <1>5. CASE Return(p)
    BY <1>5, ReturnStep DEF Work, ReturnWork
  <1>6. CASE Open(p)
    BY <1>0, <1>6, OpenStep DEF Work, LeaveWork, others
  <1>7. CASE NextChild(p) \/ SaveChildIndex(p)
    BY <1>7, NextChildStep, SaveChildIndexStep DEF Work
  <1>8. CASE NewLogEntry(p)
    BY <1>8, NewLogEntryStep DEF Work, LogWork
  <1>9. CASE \E o \in Outs, s \in Statuses : Save(p, o, s)
    BY <1>9, SaveStep DEF Work, OutWork
  <1>10. CASE \E o \in Outs : DeleteOutput(p, o)
    BY <1>10, DeleteOutputStep DEF Work, OutWork
  <1>11. CASE SavePlain(p) \/ DeletePrivateContext(p)
    BY <1>11, PlainStep DEF Work, PlainWork
  <1>12. CASE Crash(p)
    BY <1>12, CrashStep DEF Work, LeaveWork
  <1>13. CASE (\E m \in Indices : ScanReadChildIndex(p, m)) \/ ScanFails(p)
    BY <1>13, ScanStep DEF Work
  <1> QED
    BY <1>1, <1>2, <1>3, <1>4, <1>5, <1>6, <1>7, <1>8, <1>9, <1>10, <1>11, <1>12, <1>13 DEF Step

LEMMA CoreNext == CoreInv /\ [Next]_vars => CoreInv' /\ KVStep /\ ((\E p \in Procs : Work(p)) \/ UNCHANGED vars)
  <1> SUFFICES ASSUME CoreInv, [Next]_vars
               PROVE  CoreInv' /\ KVStep /\ ((\E p \in Procs : Work(p)) \/ UNCHANGED vars)
    OBVIOUS
  <1>1. CASE Next
    BY <1>1, CoreStep DEF Next
  <1>2. CASE UNCHANGED vars
    <2>1. UNCHANGED <<rows, writer, proc>>
      BY <1>2 DEF vars
    <2>2. HistTypes' /\ TypeOK'
      BY <1>2, TypeParts DEF vars, CoreInv, TypeOK, HistTypes
    <2>3. Table' = Table
      BY <2>1 DEF Table
    <2>4. CoreInv'
      BY <2>1, <2>2, <2>3 DEF CoreInv
    <2>5. KVStep
      BY <2>1, <2>3, Mapping DEF KVStep, KV!kvVars
    <2> QED
      BY <1>2, <2>4, <2>5
  <1> QED
    BY <1>1, <1>2

LEMMA CoreAlways == Spec => []CoreInv
  BY CoreInit, CoreNext, PTL DEF Spec

\* The statements, the counters and the histories keep their types.
THEOREM StoreTypes == Spec => []TypeOK
  <1>1. CoreInv => TypeOK
    BY DEF CoreInv
  <1> QED
    BY <1>1, CoreAlways, PTL

\* put and delete of impls/src/backends/db.rs implement an atomic map, for any number of processes,
\* operations, crashes and retries: a write takes effect at once and as a whole, or not at all, or was
\* overtaken by a delete of its key.
THEOREM StoreIsAtomic == Spec => AtomicWrites
  BY CoreInit, CoreNext, CoreAlways, PTL DEF Spec, AtomicWrites, KV!KVSpec, KVStep

-----------------------------------------------------------------------------
(* next_child and save_child_index. *)

\* A step that leaves the group alone.
LEMMA ChildFrame ==
  ASSUME ChildInv, NEW p \in Procs, OthersWork(p), proc'[p].op # "child", Table'[Child] = Table[Child],
         UNCHANGED <<handed, reused>>, overlap \subseteq overlap',
         \A q \in Procs : scan'[q] = scan[q] \/ scan'[q] = NoScan
  PROVE  ChildInv'
  <1> SUFFICES ASSUME "child" \notin overlap', "child" \notin overlap PROVE ChildInv'
    BY DEF ChildInv
  <1>1. Alone("child")'
    BY DEF ChildInv, Alone, OthersWork
  <1>2. Count(Table', Child) = Count(Table, Child)
    BY DEF Count
  <1>3. ASSUME NEW q \in Procs, proc'[q].op = "child"
        PROVE  ChildTodo(proc[q], Table, handed) /\ proc'[q].todo = proc[q].todo /\ proc'[q].id = proc[q].id
    BY <1>3 DEF ChildInv, OthersWork
  <1>4. \A q \in Procs : proc'[q].op = "child" => ChildTodo(proc'[q], Table', handed')
    BY <1>2, <1>3 DEF ChildTodo
  <1>5. ScanInv'
    <2> SUFFICES ASSUME NEW q \in Procs, scan'[q] # NoScan
                 PROVE  /\ Count(Table', Child) <= scan'[q]
                        /\ \A x \in Procs : proc'[x].op # "child" /\ (scan'[x] # NoScan => x = q)
      BY DEF ScanInv
    <2>1. /\ scan'[q] = scan[q] /\ Count(Table, Child) <= scan[q]
          /\ \A x \in Procs : proc[x].op # "child" /\ (scan[x] # NoScan => x = q)
      BY DEF ChildInv, ScanInv
    <2>2. \A x \in Procs : proc'[x].op # "child"
      BY <2>1 DEF OthersWork
    <2>3. \A x \in Procs : scan'[x] # NoScan => x = q
      BY <2>1
    <2> QED
      BY <1>2, <2>1, <2>2, <2>3
  <1> QED
    BY <1>1, <1>2, <1>4, <1>5 DEF ChildInv

\* The rows of a group are written by its operations only.
LEMMA WritesOwn ==
  ASSUME CoreInv, NEW p \in Procs, WriteWork(p)
  PROVE  /\ \A k \in Keys : k \notin KeysOf(proc[p].op) => Table'[k] = Table[k]
         /\ StmtOK(proc[p].op, Head(proc[p].todo)) /\ Head(proc[p].todo).key \in Keys
         /\ Table \in [Keys -> Values \cup {Absent}]
  <1>1. proc[p] \in ProcRecs /\ ProcOK(proc[p], Table) /\ RowsOK(rows) /\ proc[p].todo # <<>>
    BY TypeParts DEF CoreInv, WriteWork
  <1>2. Head(proc[p].todo) \in Stmts /\ StmtOK(proc[p].op, Head(proc[p].todo))
    BY <1>1, HeadOK
  <1>3. Table \in [Keys -> Values \cup {Absent}]
    BY <1>1, TableTypes DEF Table
  <1>4. Head(proc[p].todo).key \in KeysOf(proc[p].op) /\ Head(proc[p].todo).key \in Keys
    BY <1>2, StmtTypes DEF StmtOK
  <1>5. \A k \in Keys : k # Head(proc[p].todo).key => Table'[k] = Table[k]
    BY <1>3, <1>4 DEF WriteWork
  <1> QED
    BY <1>2, <1>3, <1>4, <1>5

\* Which group a key is of.
LEMMA Groupings ==
  /\ \A g : Child \in KeysOf(g) => g = "child"
  /\ \A g : \A k \in {LogId} \cup LogKeys : k \in KeysOf(g) => g = "log"
  /\ \A g : \A k \in {HistId} \cup HistKeys \cup OutKeys : k \in KeysOf(g) => g = "out"
  BY KeysApart, KeyTypes DEF KeysOf

\* A failed statement, seen from a group: it is over, or it was the deletion of an output.
LEMMA FailsOwn ==
  ASSUME CoreInv, NEW p \in Procs, FailsWork(p), proc'[p].op # "idle"
  PROVE  /\ proc[p].op = "out" /\ proc'[p].op = "out" /\ proc'[p].todo = Tail(proc[p].todo)
         /\ proc[p].todo # <<>> /\ Head(proc[p].todo).kind = "delete" /\ Head(proc[p].todo).key \in OutKeys
  <1>1. proc[p] \in ProcRecs /\ ProcOK(proc[p], Table)
    BY TypeParts DEF CoreInv
  <1>2. /\ proc'[p].todo = Tail(proc[p].todo) /\ proc'[p].op = proc[p].op /\ proc[p].todo # <<>>
        /\ Head(proc[p].todo).kind = "delete" /\ Head(proc[p].todo).key \in OutKeys
    BY DEF FailsWork
  <1>3. Head(proc[p].todo).key \in KeysOf(proc[p].op)
    BY <1>1, <1>2, HeadOK DEF StmtOK
  <1> QED
    BY <1>2, <1>3, Groupings

LEMMA ChildWrites ==
  ASSUME CoreInv, ChildInv, NEW p \in Procs, WriteWork(p), proc[p].op = "child"
  PROVE  ChildInv'
  <1> SUFFICES ASSUME "child" \notin overlap', "child" \notin overlap PROVE ChildInv'
    BY DEF ChildInv, WriteWork
  <1> DEFINE n == proc[p].id
             s == put(Child, num(n + 1))
  <1>1. proc[p].todo = <<s>> /\ Count(Table, Child) <= n
    BY DEF ChildInv, ChildTodo, WriteWork
  <1>2. Head(proc[p].todo) = s /\ Tail(proc[p].todo) = <<>>
    BY <1>1
  <1>3. s.key = Child /\ s.val = num(n + 1) /\ s.kind = "put" /\ Child \notin Deletable /\ Child \in Keys
    BY KeysApart, KeyTypes DEF put, Deletable
  <1> HIDE DEF s
  <1>4. Table' = [Table EXCEPT ![Child] = num(n + 1)] /\ Table \in [Keys -> Values \cup {Absent}]
    BY <1>2, <1>3, WritesOwn DEF WriteWork
  <1>5. Table'[Child] = <<"num", n + 1>> /\ <<"num", n + 1>> # Absent
    BY <1>3, <1>4 DEF num, Absent
  <1>6. Count(Table', Child) = n + 1
    BY <1>5 DEF Count
  <1>7. n \in Nat /\ handed \subseteq Nat
    <2>1. n \in 0 .. MaxIds /\ handed \subseteq 0 .. MaxIds
      BY TypeParts DEF CoreInv, HistTypes
    <2> QED
      BY <2>1
  <1>8. /\ OthersWork(p) /\ proc'[p].op = "child" /\ proc'[p].todo = <<>> /\ proc'[p].id = n
        /\ UNCHANGED <<handed, reused>>
    BY <1>2 DEF WriteWork
  <1>9. ASSUME NEW i \in handed PROVE i < n
    <2>1. i < Count(Table, Child) /\ i \in Nat
      BY <1>7 DEF ChildInv
    <2>2. Count(Table, Child) \in 0 .. MaxIds
      BY Counts, KeyTypes
    <2> HIDE DEF n
    <2> QED
      BY <1>1, <1>7, <2>1, <2>2
  <1>10. ASSUME NEW q \in Procs, proc'[q].op = "child" PROVE q = p
    BY <1>8, <1>10 DEF ChildInv, Alone, OthersWork
  <1>11. Alone("child")'
    BY <1>10 DEF Alone
  <1>12. ChildTodo(proc'[p], Table', handed')
    BY <1>6, <1>7, <1>8, <1>9 DEF ChildTodo
  <1>13. \A i \in handed' : i < Count(Table', Child)
    <2>1. handed' = handed
      BY <1>8
    <2>2. ASSUME NEW i \in handed PROVE i < n + 1
      <3>1. i \in Nat /\ i < n
        BY <1>7, <1>9
      <3> HIDE DEF n
      <3> QED
        BY <1>7, <3>1
    <2> QED
      BY <1>6, <2>1, <2>2
  <1>14. ScanInv'
    <2>1. \A q \in Procs : scan[q] = NoScan
      BY DEF ChildInv, ScanInv
    <2>2. scan' = scan
      BY DEF WriteWork
    <2> QED
      BY <2>1, <2>2 DEF ScanInv
  <1> QED
    BY <1>8, <1>10, <1>11, <1>12, <1>13, <1>14 DEF ChildInv

\* The counter is about to be written, by a process that is alone with it.
LEMMA ChildBegins ==
  ASSUME ChildInv, NEW p \in Procs, NEW n, StartWork(p, "child", <<put(Child, num(n + 1))>>, n),
         \A q \in Procs : proc[q].op # "child", Count(Table, Child) <= n,
         \A q \in Procs : scan'[q] = NoScan, overlap' = overlap
  PROVE  ChildInv'
  <1>1. \A q \in Procs : proc'[q].op = "child" => q = p
    BY DEF StartWork, OthersWork
  <1>2. UNCHANGED <<handed, reused>> /\ Table' = Table
    BY DEF StartWork
  <1>3. ChildTodo(proc'[p], Table', handed')
    BY <1>2 DEF StartWork, ChildTodo
  <1>4. ScanInv'
    BY DEF ScanInv
  <1> QED
    BY <1>1, <1>2, <1>3, <1>4 DEF ChildInv, Alone

LEMMA ChildStep ==
  ASSUME CoreInv, ChildInv, NEW p \in Procs, Work(p)
  PROVE  ChildInv'
  <1>0. Child \in Keys /\ HistTypes /\ Count(Table, Child) \in 0 .. MaxIds
    BY KeyTypes, TypeParts, Counts DEF CoreInv
  <1>1. CASE SameWork /\ Table' = Table /\ UNCHANGED others
    <2>1. \A q \in Procs : ChildTodo(proc[q], Table, handed) => ChildTodo(proc'[q], Table', handed')
      BY <1>1 DEF SameWork, ChildTodo, others
    <2>2. ScanInv => ScanInv'
      BY <1>1 DEF SameWork, ScanInv, others
    <2> QED
      BY <1>1, <2>1, <2>2 DEF SameWork, ChildInv, Alone, others
  <1>2. CASE FailsWork(p) /\ Table' = Table /\ UNCHANGED others
    <2>1. proc'[p].op # "child"
      BY <1>2, FailsOwn
    <2> QED
      BY <1>2, <2>1, ChildFrame DEF FailsWork, others
  <1>3. CASE WriteWork(p)
    <2>1. CASE proc[p].op = "child"
      BY <1>3, <2>1, ChildWrites
    <2>2. CASE proc[p].op # "child"
      <3>1. Table'[Child] = Table[Child]
        BY <1>0, <1>3, <2>2, WritesOwn, Groupings
      <3> QED
        BY <1>3, <2>2, <3>1, ChildFrame DEF WriteWork
    <2> QED
      BY <2>1, <2>2
  <1>4. CASE HistWork(p)
    BY <1>4, ChildFrame DEF HistWork, histVars
  <1>5. CASE ReturnWork(p)
    <2>1. CASE proc[p].op # "child"
      <3>1. reused' = reused
        <4>1. reused \in BOOLEAN
          BY DEF CoreInv, TypeOK
        <4> QED
          BY <1>5, <2>1, <4>1 DEF ReturnWork
      <3> QED
        BY <1>5, <2>1, <3>1, ChildFrame DEF ReturnWork
    <2>2. CASE proc[p].op = "child"
      <3> SUFFICES ASSUME "child" \notin overlap', "child" \notin overlap PROVE ChildInv'
        BY <1>5 DEF ChildInv, ReturnWork
      <3>1. ChildTodo(proc[p], Table, handed) /\ proc[p].todo = <<>>
        BY <1>5, <2>2 DEF ChildInv, ReturnWork
      <3>2. proc[p].id < Count(Table, Child) /\ proc[p].id \notin handed
        BY <3>1 DEF ChildTodo
      <3>3. ~reused'
        BY <1>5, <3>2 DEF ReturnWork, ChildInv
      <3>4. \A q \in Procs : proc'[q].op # "child"
        BY <1>5, <2>2 DEF ReturnWork, OthersWork, ChildInv, Alone
      <3>5. \A i \in handed' : i < Count(Table', Child)
        BY <1>5, <2>2, <3>2 DEF ReturnWork, ChildInv
      <3>6. ScanInv'
        BY <1>5, <2>2 DEF ReturnWork, ChildInv, ScanInv
      <3> QED
        BY <3>3, <3>4, <3>5, <3>6 DEF ChildInv, Alone
    <2> QED
      BY <2>1, <2>2
  <1>6. CASE LeaveWork(p)
    <2>1. \A q \in Procs : scan'[q] = scan[q] \/ scan'[q] = NoScan
      BY <1>0, <1>6, ScanLeftTypes DEF LeaveWork
    <2> QED
      BY <1>6, <2>1, ChildFrame DEF LeaveWork
  <1>7. CASE ChildWork(p)
    <2>1. PICK n \in 0 .. MaxIds :
            /\ n = Count(Table, Child) /\ StartWork(p, "child", <<put(Child, num(n + 1))>>, n)
            /\ Meet("child", Counting) /\ scan' = scan
      BY <1>7 DEF ChildWork
    <2>2. CASE Counting
      BY <2>1, <2>2 DEF Meet, ChildInv
    <2>3. CASE ~Counting
      <3>1. overlap' = overlap
        BY <2>1, <2>3 DEF Meet
      <3>2. \A q \in Procs : proc[q].op # "child" /\ scan'[q] = NoScan
        BY <2>1, <2>3 DEF Counting
      <3>3. Count(Table, Child) <= n
        BY <1>0, <2>1
      <3> QED
        BY <2>1, <3>1, <3>2, <3>3, ChildBegins
    <2> QED
      BY <2>2, <2>3
  <1>9. CASE SaveIndexWork(p)
    <2>1. PICK n \in 0 .. MaxIds :
            /\ scan[p] = n /\ n # NoScan /\ StartWork(p, "child", <<put(Child, num(n + 1))>>, n)
            /\ Meet("child", \E q \in Procs : proc[q].op = "child") /\ ScanLeft(p)
      BY <1>9 DEF SaveIndexWork
    <2>2. CASE "child" \in overlap \/ \E q \in Procs : proc[q].op = "child"
      BY <2>1, <2>2 DEF Meet, ChildInv
    <2>3. CASE "child" \notin overlap /\ \A q \in Procs : proc[q].op # "child"
      <3>1. overlap' = overlap
        BY <2>1, <2>3 DEF Meet
      <3>2. Count(Table, Child) <= n /\ \A q \in Procs : q # p => scan[q] = NoScan
        BY <2>1, <2>3 DEF ChildInv, ScanInv
      <3>3. \A q \in Procs : scan'[q] = NoScan
        BY <1>0, <2>1, <3>2, ScanLeftTypes
      <3> QED
        BY <2>1, <2>3, <3>1, <3>2, <3>3, ChildBegins
    <2> QED
      BY <2>2, <2>3
  <1>10. CASE ScanWork(p)
    <2>1. \A q \in Procs : ChildTodo(proc[q], Table, handed) => ChildTodo(proc'[q], Table', handed')
      BY <1>10 DEF ScanWork, SameWork, ChildTodo
    <2>2. SameWork /\ Table' = Table /\ UNCHANGED <<handed, reused>>
      BY <1>10 DEF ScanWork
    <2>3. CASE "child" \in overlap'
      BY <2>3 DEF ChildInv
    <2>4. CASE "child" \notin overlap'
      <3>1. "child" \notin overlap /\ ScanInv'
        <4>1. CASE ScanLeft(p) /\ overlap' = overlap
          <5>1. \A q \in Procs : scan'[q] = scan[q] \/ scan'[q] = NoScan
            BY <1>0, <4>1, ScanLeftTypes
          <5>2. ScanInv
            BY <2>4, <4>1 DEF ChildInv
          <5> QED
            BY <2>2, <2>4, <4>1, <5>1, <5>2 DEF ScanInv, SameWork
        <4>2. CASE CompareWork(p)
          <5>1. PICK m \in Indices :
                  Count(Table, Child) <= m /\ scan' = [scan EXCEPT ![p] = m] /\ Meet("child", Counting)
            BY <4>2 DEF CompareWork
          <5>2. ~Counting /\ "child" \notin overlap
            BY <2>4, <5>1 DEF Meet
          <5>3. \A q \in Procs : proc[q].op # "child" /\ scan[q] = NoScan
            BY <5>2 DEF Counting
          <5>4. scan'[p] = m /\ \A q \in Procs : q # p => scan'[q] = NoScan
            BY <1>0, <5>1, <5>3 DEF HistTypes
          <5>5. \A q \in Procs : proc'[q].op # "child"
            BY <2>2, <5>3 DEF SameWork
          <5> QED
            BY <2>2, <5>1, <5>2, <5>4, <5>5 DEF ScanInv
        <4> QED
          BY <1>10, <4>1, <4>2 DEF ScanWork
      <3> QED
        BY <2>1, <2>2, <3>1 DEF SameWork, ChildInv, Alone
    <2> QED
      BY <2>3, <2>4
  <1>8. CASE LogWork(p) \/ OutWork(p) \/ PlainWork(p)
    <2>1. PICK g \in {"log", "out", "plain"} : \E t : BeginWork(p, g, t, 0)
      BY <1>8 DEF LogWork, OutWork, PlainWork
    <2>2. PICK t : BeginWork(p, g, t, 0)
      BY <2>1
    <2> QED
      BY <2>1, <2>2, ChildFrame DEF BeginWork, StartWork
  <1> QED
    BY <1>1, <1>2, <1>3, <1>4, <1>5, <1>6, <1>7, <1>8, <1>9, <1>10 DEF Work

\* next_child hands out an index once, and none that a scan moved the counter past, whatever stops in
\* between, for any number of processes and scans of which only one is at the counter at a time: no two
\* calls of next_child, and none between a scan's comparison and its save_child_index, meet.
THEOREM ChildIndicesFresh == Spec => []ChildOnce
  <1>1. Init => ChildInv
    BY IdleTypes DEF Init, ChildInv, ScanInv, Alone
  <1>2. CoreInv /\ ChildInv /\ [Next]_vars => ChildInv'
    <2> SUFFICES ASSUME CoreInv, ChildInv, [Next]_vars PROVE ChildInv'
      OBVIOUS
    <2>1. CASE \E p \in Procs : Work(p)
      BY <2>1, ChildStep
    <2>2. CASE UNCHANGED vars
      <3>1. Table' = Table /\ UNCHANGED <<proc, overlap, handed, reused, scan>>
        BY <2>2 DEF vars, Table
      <3> QED
        BY <3>1 DEF ChildInv, ScanInv, Alone, ChildTodo
    <2> QED
      BY <2>1, <2>2, CoreNext
  <1>3. ChildInv => ChildOnce
    BY DEF ChildInv, ChildOnce
  <1> QED
    BY <1>1, <1>2, <1>3, CoreAlways, PTL DEF Spec

-----------------------------------------------------------------------------
(* next_tx_log_id and save_tx_log_entry. *)

\* To the other groups, the work on the child index is only that it may meet other such work.
LEMMA IndexWorkMeets ==
  ASSUME CoreInv, NEW p \in Procs, ChildWork(p) \/ SaveIndexWork(p) \/ ScanWork(p)
  PROVE  overlap \subseteq overlap' /\ \A g : g # "child" => (g \in overlap' <=> g \in overlap)
  <1>1. overlap' = overlap \/ overlap' = overlap \cup {"child"}
    BY DEF ChildWork, SaveIndexWork, ScanWork, CompareWork, Meet
  <1> QED
    BY <1>1

\* A step that leaves the group and its rows alone.
LEMMA LogFrame ==
  ASSUME LogInv, NEW p \in Procs, OthersWork(p), proc'[p].op # "log",
         \A k \in {LogId} \cup LogKeys : Table'[k] = Table[k],
         entries' = entries, overlap \subseteq overlap'
  PROVE  LogInv'
  <1> SUFFICES ASSUME "log" \notin overlap', "log" \notin overlap PROVE LogInv'
    BY DEF LogInv
  <1>1. Alone("log")'
    BY DEF LogInv, Alone, OthersWork
  <1>2. Count(Table', LogId) = Count(Table, LogId)
    BY DEF Count
  <1>3. ASSUME NEW n \in 0 .. MaxIds PROVE Table'[<<"log", n>>] = Table[<<"log", n>>]
    <2>1. <<"log", n>> \in LogKeys
      BY KeyTypes
    <2> QED
      BY <2>1
  <1>4. \A q \in Procs : proc'[q].op = "log" => LogTodo(proc'[q].todo, Table')
    <2>1. \A q \in Procs : proc'[q].op = "log" => LogTodo(proc[q].todo, Table) /\ proc'[q].todo = proc[q].todo
      BY DEF LogInv, OthersWork
    <2> QED
      BY <1>2, <1>3, <2>1 DEF LogTodo
  <1>5. \A n \in 0 .. MaxIds : Table'[<<"log", n>>] # Absent => n < Count(Table', LogId)
    BY <1>2, <1>3 DEF LogInv
  <1>6. \A t \in entries' : \E k \in LogKeys : Table'[k] = <<"tx", t>>
    BY DEF LogInv
  <1> QED
    BY <1>1, <1>4, <1>5, <1>6 DEF LogInv

\* The id is taken.
LEMMA LogIdWrites ==
  ASSUME CoreInv, LogInv, NEW p \in Procs, WriteWork(p), proc[p].op = "log",
         NEW n \in 0 .. MaxIds, NEW v \in {"tx"} \X (1 .. MaxOps), "log" \notin overlap,
         proc[p].todo = <<put(LogId, num(n + 1)), put(<<"log", n>>, v)>>, n = Count(Table, LogId)
  PROVE  LogInv'
  <1> DEFINE s == put(LogId, num(n + 1))
             w == put(<<"log", n>>, v)
  <1>1. s.key = LogId /\ s.val = num(n + 1) /\ s.kind = "put" /\ LogId \in Keys
    BY KeyTypes DEF put
  <1> HIDE DEF s, w
  <1>2. proc[p].todo = <<s, w>>
    BY DEF s, w
  <1>3. Head(proc[p].todo) = s /\ Tail(proc[p].todo) = <<w>>
    BY <1>2
  <1>4. LogId \notin Deletable /\ LogId \notin LogKeys /\ LogKeys \subseteq Keys
    BY KeysApart, KeyTypes DEF Deletable
  <1>5. Table' = [Table EXCEPT ![LogId] = num(n + 1)] /\ Table \in [Keys -> Values \cup {Absent}]
    BY <1>1, <1>3, <1>4, WritesOwn DEF WriteWork
  <1>6. Table'[LogId] = <<"num", n + 1>> /\ <<"num", n + 1>> # Absent
    BY <1>1, <1>5 DEF num, Absent
  <1>7. Count(Table', LogId) = n + 1
    BY <1>6 DEF Count
  <1>8. \A k \in LogKeys : Table'[k] = Table[k]
    BY <1>4, <1>5
  <1>9. entries' = entries /\ OthersWork(p) /\ proc'[p].op = "log" /\ proc'[p].todo = <<w>>
    BY <1>1, <1>3, <1>4 DEF WriteWork
  <1>10. \A q \in Procs : proc'[q].op = "log" => q = p
    BY <1>9 DEF LogInv, Alone, OthersWork
  <1>11. \A m \in 0 .. MaxIds : Table'[<<"log", m>>] # Absent => m < n
    BY <1>8, KeyTypes DEF LogInv
  <1>12. ASSUME NEW m \in 0 .. MaxIds, Table'[<<"log", m>>] # Absent PROVE m < Count(Table', LogId)
    BY <1>7, <1>11, <1>12
  <1>13. Table'[<<"log", n>>] = Absent /\ n < Count(Table', LogId)
    BY <1>7, <1>11
  <1>14. LogTodo(proc'[p].todo, Table')
    BY <1>9, <1>13 DEF LogTodo, w
  <1>15. \A t \in entries' : \E k \in LogKeys : Table'[k] = <<"tx", t>>
    BY <1>8, <1>9 DEF LogInv
  <1> QED
    BY <1>10, <1>12, <1>14, <1>15 DEF LogInv, Alone

\* The entry is saved, under an id no entry had.
LEMMA LogEntryWrites ==
  ASSUME CoreInv, LogInv, NEW p \in Procs, WriteWork(p), proc[p].op = "log",
         NEW n \in 0 .. MaxIds, NEW v \in {"tx"} \X (1 .. MaxOps), "log" \notin overlap,
         proc[p].todo = <<put(<<"log", n>>, v)>>, n < Count(Table, LogId), Table[<<"log", n>>] = Absent
  PROVE  LogInv'
  <1> DEFINE j == <<"log", n>>
             w == put(j, v)
  <1>1. w.key = j /\ w.val = v /\ w.kind = "put" /\ j \in Keys /\ j \in LogKeys
    BY KeyTypes DEF put
  <1> HIDE DEF w
  <1>2. Head(proc[p].todo) = w /\ Tail(proc[p].todo) = <<>>
    BY DEF w
  <1>3. LogId \notin LogKeys /\ j \notin Deletable /\ LogKeys \subseteq Keys /\ LogId \in Keys
    BY <1>1, KeysApart, KeyTypes DEF Deletable
  <1>4. Table[j] = Absent
    OBVIOUS
  <1>5. \A m \in 0 .. MaxIds : <<"log", m>> = j => m = n
    OBVIOUS
  <1> HIDE DEF j
  <1>6. Table' = [Table EXCEPT ![j] = v] /\ Table \in [Keys -> Values \cup {Absent}]
    BY <1>1, <1>2, <1>3, WritesOwn DEF WriteWork
  <1>7. Table'[j] = v /\ \A k \in Keys : k # j => Table'[k] = Table[k]
    BY <1>1, <1>6
  <1>8. Count(Table', LogId) = Count(Table, LogId)
    BY <1>1, <1>3, <1>7 DEF Count
  <1>9. /\ entries' = entries \cup {v[2]} /\ OthersWork(p) /\ proc'[p].op = "log" /\ proc'[p].todo = <<>>
    BY <1>1, <1>2 DEF WriteWork
  <1>10. \A q \in Procs : proc'[q].op = "log" => q = p
    BY <1>9 DEF LogInv, Alone, OthersWork
  <1>11. ASSUME NEW m \in 0 .. MaxIds, Table'[<<"log", m>>] # Absent PROVE m < Count(Table', LogId)
    <2>1. CASE <<"log", m>> = j
      BY <1>5, <1>8, <2>1
    <2>2. CASE <<"log", m>> # j
      BY <1>7, <1>8, <1>11, <2>2, KeyTypes DEF LogInv
    <2> QED
      BY <2>1, <2>2
  <1>12. ASSUME NEW t \in entries' PROVE \E k \in LogKeys : Table'[k] = <<"tx", t>>
    <2>1. CASE t = v[2]
      BY <1>1, <1>7, <2>1
    <2>2. CASE t \in entries
      <3>1. PICK k \in LogKeys : Table[k] = <<"tx", t>>
        BY <2>2 DEF LogInv
      <3>2. k # j
        BY <1>4, <3>1 DEF Absent
      <3> QED
        BY <1>3, <1>7, <3>1, <3>2
    <2> QED
      BY <1>9, <2>1, <2>2
  <1>13. LogTodo(proc'[p].todo, Table')
    BY <1>9 DEF LogTodo
  <1> QED
    BY <1>10, <1>11, <1>12, <1>13 DEF LogInv, Alone

LEMMA LogStep ==
  ASSUME CoreInv, LogInv, NEW p \in Procs, Work(p)
  PROVE  LogInv'
  <1>0. {LogId} \cup LogKeys \subseteq Keys
    BY KeyTypes
  <1>1. CASE SameWork /\ Table' = Table /\ UNCHANGED others
    BY <1>1 DEF SameWork, LogInv, Alone, others
  <1>2. CASE FailsWork(p) /\ Table' = Table /\ UNCHANGED others
    <2>1. proc'[p].op # "log"
      BY <1>2, FailsOwn
    <2> QED
      BY <1>2, <2>1, LogFrame DEF FailsWork, others
  <1>3. CASE WriteWork(p)
    <2>1. CASE proc[p].op = "log" /\ "log" \notin overlap
      <3>1. LogTodo(proc[p].todo, Table) /\ proc[p].todo # <<>>
        BY <1>3, <2>1 DEF LogInv, WriteWork
      <3>2. PICK n \in 0 .. MaxIds, v \in {"tx"} \X (1 .. MaxOps) :
              \/ proc[p].todo = <<put(<<"log", n>>, v)>> /\ n < Count(Table, LogId) /\ Table[<<"log", n>>] = Absent
              \/ proc[p].todo = <<put(LogId, num(n + 1)), put(<<"log", n>>, v)>> /\ n = Count(Table, LogId)
        BY <3>1 DEF LogTodo
      <3> QED
        BY <1>3, <2>1, <3>2, LogIdWrites, LogEntryWrites
    <2>2. CASE proc[p].op # "log"
      <3>1. Head(proc[p].todo).key \notin LogKeys
        BY <1>3, <2>2, WritesOwn, Groupings DEF StmtOK
      <3>2. \A k \in {LogId} \cup LogKeys : Table'[k] = Table[k]
        BY <1>0, <1>3, <2>2, WritesOwn, Groupings
      <3> QED
        BY <1>3, <2>2, <3>1, <3>2, LogFrame DEF WriteWork
    <2>3. CASE "log" \in overlap
      BY <1>3, <2>3 DEF WriteWork, LogInv
    <2> QED
      BY <2>1, <2>2, <2>3
  <1>4. CASE HistWork(p)
    BY <1>4, LogFrame DEF HistWork, histVars
  <1>5. CASE ReturnWork(p)
    BY <1>5, LogFrame DEF ReturnWork
  <1>6. CASE LeaveWork(p)
    BY <1>6, LogFrame DEF LeaveWork
  <1>7. CASE LogWork(p)
    <2>1. PICK n \in 0 .. MaxIds, v \in {"tx"} \X (1 .. MaxOps) :
            n = Count(Table, LogId) /\ BeginWork(p, "log", <<put(LogId, num(n + 1)), put(<<"log", n>>, v)>>, 0)
      BY <1>7 DEF LogWork
    <2>2. CASE \E q \in Procs : proc[q].op = "log"
      BY <2>1, <2>2 DEF BeginWork, LogInv
    <2>3. CASE \A q \in Procs : proc[q].op # "log"
      <3>1. \A q \in Procs : proc'[q].op = "log" => q = p
        BY <2>1, <2>3 DEF BeginWork, StartWork, OthersWork
      <3>2. LogTodo(proc'[p].todo, Table')
        BY <2>1 DEF BeginWork, StartWork, LogTodo
      <3>3. overlap' = overlap /\ entries' = entries /\ Table' = Table
        BY <2>1, <2>3 DEF BeginWork, StartWork
      <3> QED
        BY <3>1, <3>2, <3>3 DEF LogInv, Alone
    <2> QED
      BY <2>2, <2>3
  <1>8. CASE OutWork(p) \/ PlainWork(p)
    <2>1. PICK g \in {"out", "plain"} : \E t, n : BeginWork(p, g, t, n)
      BY <1>8 DEF OutWork, PlainWork
    <2>2. PICK t, n : BeginWork(p, g, t, n)
      BY <2>1
    <2> QED
      BY <2>1, <2>2, LogFrame DEF BeginWork, StartWork
  <1>9. CASE ChildWork(p) \/ SaveIndexWork(p)
    <2>1. overlap \subseteq overlap'
      BY <1>9, IndexWorkMeets
    <2>2. PICK t, n : StartWork(p, "child", t, n)
      BY <1>9 DEF ChildWork, SaveIndexWork
    <2> QED
      BY <2>1, <2>2, LogFrame DEF StartWork
  <1>10. CASE ScanWork(p)
    <2>1. "log" \in overlap' <=> "log" \in overlap
      BY <1>10, IndexWorkMeets
    <2> QED
      BY <1>10, <2>1 DEF ScanWork, SameWork, LogInv, Alone
  <1> QED
    BY <1>1, <1>2, <1>3, <1>4, <1>5, <1>6, <1>7, <1>8, <1>9, <1>10 DEF Work

\* Every transaction that save_tx_log_entry saved keeps its entry: next_tx_log_id gives an id once, also
\* to a process that stops between taking it and saving, as long as one process at a time does so.
THEOREM EntriesKept == Spec => []EntryKept
  <1>1. Init => LogInv
    <2> SUFFICES ASSUME Init PROVE LogInv
      OBVIOUS
    <2>1. \A n \in 0 .. MaxIds : <<"log", n>> # Plain
      BY DEF Plain
    <2>2. ASSUME NEW n \in 0 .. MaxIds PROVE Table[<<"log", n>>] = Absent
      <3>1. <<"log", n>> \in Keys
        BY KeyTypes
      <3>2. ~\E r \in rows : r.key = <<"log", n>>
        BY <2>1 DEF Init
      <3> QED
        BY <3>1, <3>2, TableNone DEF Table
    <2> QED
      BY <2>2, IdleTypes DEF Init, LogInv, Alone
  <1>2. CoreInv /\ LogInv /\ [Next]_vars => LogInv'
    <2> SUFFICES ASSUME CoreInv, LogInv, [Next]_vars PROVE LogInv'
      OBVIOUS
    <2>1. CASE \E p \in Procs : Work(p)
      BY <2>1, LogStep
    <2>2. CASE UNCHANGED vars
      <3>1. Table' = Table /\ UNCHANGED <<proc, overlap, entries>>
        BY <2>2 DEF vars, Table
      <3> QED
        BY <3>1 DEF LogInv, Alone
    <2> QED
      BY <2>1, <2>2, CoreNext
  <1>3. CoreInv /\ LogInv => EntryKept
    <2> SUFFICES ASSUME CoreInv, LogInv PROVE EntryKept
      OBVIOUS
    <2>1. ASSUME "log" \notin overlap, NEW t \in entries PROVE <<"tx", t>> \in iter("log")
      <3>1. PICK k \in LogKeys : Table[k] = <<"tx", t>>
        BY <2>1 DEF LogInv
      <3>2. Table[k] # Absent
        BY <3>1 DEF Absent
      <3> QED
        BY <3>1, <3>2, Reads DEF CoreInv
    <2> QED
      BY <2>1, Zenon DEF EntryKept
  <1> QED
    BY <1>1, <1>2, <1>3, CoreAlways, PTL DEF Spec

-----------------------------------------------------------------------------
(* save, delete and save_output_history. *)

OutRows == {HistId} \cup HistKeys \cup OutKeys

\* What is to do depends on the rows of the group only.
LEMMA OutTodoSame ==
  ASSUME NEW t, NEW T, NEW U, OutTodo(t, T), \A k \in OutRows : U[k] = T[k]
  PROVE  OutTodo(t, U)
  <1>1. Count(U, HistId) = Count(T, HistId)
    BY DEF Count, OutRows
  <1>2. \A v : InHist(U, v) <=> InHist(T, v)
    BY DEF InHist, OutRows
  <1>3. CASE t # <<>>
    <2>1. U[t[Len(t)].key] = T[t[Len(t)].key]
      BY <1>3 DEF OutTodo, OutRows
    <2>2. Covered(t, U, 1)
      BY <1>2, <1>3, <2>1 DEF OutTodo, Covered
    <2>3. t[1].key \in HistKeys => U[t[1].key] = T[t[1].key]
      BY DEF OutRows
    <2> QED
      BY <1>1, <1>3, <2>2, <2>3 DEF OutTodo
  <1> QED
    BY <1>3 DEF OutTodo

\* A step that leaves the group and its rows alone.
LEMMA HistFrame ==
  ASSUME HistInv, NEW p \in Procs, OthersWork(p), proc'[p].op # "out",
         \A k \in OutRows : Table'[k] = Table[k], past' = past, overlap \subseteq overlap'
  PROVE  HistInv'
  <1> SUFFICES ASSUME "out" \notin overlap', "out" \notin overlap PROVE HistInv'
    BY DEF HistInv
  <1>1. Alone("out")'
    BY DEF HistInv, Alone, OthersWork
  <1>2. Count(Table', HistId) = Count(Table, HistId)
    BY DEF Count, OutRows
  <1>3. \A v : InHist(Table', v) <=> InHist(Table, v)
    BY DEF InHist, OutRows
  <1>4. ASSUME NEW n \in 0 .. MaxIds, Table'[<<"hist", n>>] # Absent PROVE n < Count(Table', HistId)
    <2>1. <<"hist", n>> \in OutRows
      BY KeyTypes DEF OutRows
    <2>2. Table[<<"hist", n>>] # Absent
      BY <1>4, <2>1
    <2> QED
      BY <1>2, <2>2 DEF HistInv
  <1>5. \A v \in past' : InHist(Table', v[2])
    BY <1>3 DEF HistInv
  <1>6. ASSUME NEW q \in Procs, proc'[q].op = "out" PROVE OutTodo(proc'[q].todo, Table')
    <2>1. OutTodo(proc[q].todo, Table) /\ proc'[q].todo = proc[q].todo
      BY <1>6 DEF HistInv, OthersWork
    <2> QED
      BY <2>1, OutTodoSame
  <1> QED
    BY <1>1, <1>4, <1>5, <1>6 DEF HistInv

\* A step of the group that leaves it with the table U and p with the statements in t.
LEMMA HistFrom ==
  ASSUME HistInv, NEW p \in Procs, OthersWork(p), proc[p].op = "out", "out" \notin overlap,
         \A n \in 0 .. MaxIds : Table'[<<"hist", n>>] # Absent => n < Count(Table', HistId),
         \A v \in past' : InHist(Table', v[2]),
         OutTodo(proc'[p].todo, Table')
  PROVE  HistInv'
  <1>1. \A q \in Procs : proc'[q].op = "out" => q = p
    BY DEF HistInv, Alone, OthersWork
  <1> QED
    BY <1>1 DEF HistInv, Alone

\* The first statement is done, or there is nothing to do for it.
LEMMA OutTail ==
  ASSUME NEW t \in Seq(Stmts), NEW T, NEW U, OutTodo(t, T), Len(t) > 1, Covered(t, U, 2),
         \A i \in 2 .. Len(t) : t[i].key \in HistKeys =>
            i = 2 /\ U[t[2].key] = Absent /\ t[2].key[2] < Count(U, HistId)
  PROVE  OutTodo(Tail(t), U)
  <1> DEFINE u == Tail(t)
             m == Len(u)
  <1>1. Len(t) \in Nat /\ m = Len(t) - 1 /\ m \in Nat \ {0} /\ t # <<>>
    OBVIOUS
  <1>2. \A i \in 1 .. m : u[i] = t[i + 1] /\ i + 1 \in 2 .. Len(t)
    OBVIOUS
  <1>3. \A i \in 2 .. Len(t) : i - 1 \in 1 .. m /\ u[i - 1] = t[i]
    OBVIOUS
  <1>4. u[m] = t[Len(t)]
    BY <1>1, <1>2
  <1> HIDE DEF u
  <1>5. u[m].key \in OutKeys /\ u[m].kind \in {"put", "delete"}
    BY <1>1, <1>4 DEF OutTodo
  <1>6. ASSUME NEW i \in 1 .. m - 1 PROVE u[i].kind = "hist" \/ u[i].key \in HistKeys \cup {HistId}
    <2>1. i + 1 \in 1 .. Len(t) - 1 /\ u[i] = t[i + 1]
      BY <1>1, <1>2
    <2> QED
      BY <1>1, <2>1 DEF OutTodo
  <1>7. ASSUME NEW i \in 1 .. m PROVE u[i].key # HistId
    <2>1. i + 1 \in 2 .. Len(t) /\ u[i] = t[i + 1]
      BY <1>2
    <2> QED
      BY <1>1, <2>1 DEF OutTodo
  <1>8. ASSUME NEW i \in 1 .. m, u[i].key \in HistKeys
        PROVE  i = 1 /\ U[u[1].key] = Absent /\ u[1].key[2] < Count(U, HistId)
    <2>1. i + 1 \in 2 .. Len(t) /\ t[i + 1].key \in HistKeys
      BY <1>2, <1>8
    <2>2. i + 1 = 2 /\ U[t[2].key] = Absent /\ t[2].key[2] < Count(U, HistId)
      BY <2>1
    <2>3. u[1] = t[2]
      BY <1>1, <1>3
    <2> QED
      BY <2>2, <2>3
  <1>9. Covered(u, U, 1)
    <2>1. ASSUME NEW i \in 2 .. Len(t) - 1 PROVE i - 1 \in 1 .. m - 1 /\ u[i - 1] = t[i]
      BY <1>1, <1>3
    <2> QED
      BY <1>4, <2>1 DEF Covered
  <1>10. 1 \in 1 .. m
    BY <1>1
  <1> QED
    BY <1>1, <1>5, <1>6, <1>7, <1>8, <1>9, <1>10 DEF OutTodo, u

LEMMA LenFacts ==
  ASSUME NEW S, NEW t \in Seq(S), t # <<>>
  PROVE  /\ Len(t) = 1 => Tail(t) = <<>>
         /\ Len(t) # 1 => Len(t) > 1 /\ 1 \in 1 .. Len(t) - 1
  <1>1. Tail(t) \in Seq(S) /\ Len(Tail(t)) = Len(t) - 1 /\ Len(t) \in Nat
    OBVIOUS
  <1>2. Len(t) # 0
    OBVIOUS
  <1>3. Len(Tail(t)) = 0 => Tail(t) = <<>>
    BY <1>1, EmptySeq
  <1> QED
    BY <1>1, <1>2, <1>3

\* What p is about to write.
LEMMA OutHead ==
  ASSUME CoreInv, HistInv, NEW p \in Procs, proc[p].op = "out", "out" \notin overlap, proc[p].todo # <<>>
  PROVE  LET t == proc[p].todo
         IN  /\ t \in Seq(Stmts) /\ Len(t) \in Nat \ {0} /\ OutTodo(t, Table)
             /\ t[1] = Head(t) /\ t[1].key \in OutRows /\ t[1].key \in Keys
             /\ t[1].kind = "put" => Fits(t[1].key, t[1].val)
             /\ t[1].kind = "delete" => t[1].key \in OutKeys
             /\ t[1].kind = "hist" => t[1].key \in OutKeys
             /\ t[1].kind # "hist" /\ t[1].key \in OutKeys => Len(t) = 1 /\ Tail(t) = <<>>
             /\ t[1].kind = "hist" \/ t[1].key \notin OutKeys => Len(t) > 1
  <1> DEFINE t == proc[p].todo
  <1>1. proc[p] \in ProcRecs /\ ProcOK(proc[p], Table)
    BY TypeParts DEF CoreInv
  <1>2. t \in Seq(Stmts) /\ Len(t) \in Nat \ {0} /\ t[1] = Head(t) /\ t[1] \in Stmts /\ StmtOK("out", t[1])
    BY <1>1, HeadOK, TypeParts
  <1>3. OutTodo(t, Table)
    BY DEF HistInv
  <1> HIDE DEF t
  <1>4. t # <<>>
    BY DEF t
  <1>5. t[1].key \in OutRows
    BY <1>2 DEF StmtOK, KeysOf, OutRows
  <1>6. t[1].key \in Keys /\ (t[1].kind = "hist" => t[1].key \in OutKeys)
    BY <1>2, StmtTypes
  <1>7. t[1].kind = "delete" => t[1].key \in OutKeys
    BY <1>2, <1>5, KeysApart, KeyTypes DEF StmtOK, Deletable, OutRows
  <1>8. t[1].kind # "hist" /\ t[1].key \in OutKeys => Len(t) = 1
    <2>1. t[1].key \in OutKeys => t[1].key \notin HistKeys \cup {HistId}
      BY KeysApart, KeyTypes
    <2>2. \A i \in 1 .. Len(t) - 1 : t[i].kind = "hist" \/ t[i].key \in HistKeys \cup {HistId}
      BY <1>3, <1>4 DEF OutTodo
    <2>3. Len(t) # 1 => 1 \in 1 .. Len(t) - 1
      BY <1>2, LenFacts
    <2> QED
      BY <2>1, <2>2, <2>3
  <1>9. Len(t) = 1 => Tail(t) = <<>>
    BY <1>2, LenFacts
  <1>10. Len(t) = 1 => t[1].key \in OutKeys /\ t[1].kind # "hist"
    BY <1>2, <1>3, <1>4 DEF OutTodo
  <1>11. t[1].kind = "hist" \/ t[1].key \notin OutKeys => Len(t) > 1
    BY <1>2, <1>10, LenFacts
  <1>12. t[1].kind = "put" => Fits(t[1].key, t[1].val)
    BY <1>2 DEF StmtOK
  <1> QED
    BY <1>2, <1>3, <1>5, <1>6, <1>7, <1>8, <1>9, <1>11, <1>12 DEF t

\* The id of a version is taken.
LEMMA HistIdWrites ==
  ASSUME CoreInv, HistInv, NEW p \in Procs, WriteWork(p), proc[p].op = "out", "out" \notin overlap,
         Head(proc[p].todo).key = HistId
  PROVE  HistInv'
  <1> DEFINE t == proc[p].todo
             n == Count(Table, HistId)
             last == t[Len(t)]
  <1>1. /\ t # <<>> /\ OthersWork(p) /\ proc'[p].todo = Tail(t) /\ t[1].kind \in {"put", "delete"}
        /\ t \in Seq(Stmts) /\ Len(t) \in Nat \ {0} /\ OutTodo(t, Table) /\ t[1] = Head(t)
        /\ t[1].kind = "delete" => t[1].key \in OutKeys
    BY OutHead DEF WriteWork
  <1>2. HistId \notin OutKeys /\ HistId \notin HistKeys /\ HistId \in Keys /\ HistId # Plain /\ HistId \in Counters
    BY KeysApart, KeyTypes
  <1>3. t[1].key = HistId /\ t[1].kind = "put"
    BY <1>1, <1>2
  <1>4. n \in 0 .. MaxIds /\ Table \in [Keys -> Values \cup {Absent}]
    BY <1>2, Counts, WritesOwn
  <1>5. /\ Len(t) > 2 /\ t[2].key = <<"hist", n>> /\ t[1].val = num(n + 1)
        /\ last.key \in OutKeys
    BY <1>1, <1>3 DEF OutTodo
  <1>6. Table' = [Table EXCEPT ![HistId] = num(n + 1)] /\ past' = past
    BY <1>1, <1>2, <1>3, <1>5 DEF WriteWork, Deletable
  <1>7. \A k \in OutKeys \cup HistKeys : Table'[k] = Table[k]
    BY <1>2, <1>4, <1>6, KeyTypes
  <1>8. Count(Table', HistId) = n + 1
    <2>1. Table'[HistId] = <<"num", n + 1>> /\ <<"num", n + 1>> # Absent
      BY <1>2, <1>4, <1>6 DEF num, Absent
    <2> QED
      BY <2>1 DEF Count
  <1>9. \A v : InHist(Table', v) <=> InHist(Table, v)
    BY <1>7 DEF InHist
  <1>10. ASSUME NEW m \in 0 .. MaxIds, Table'[<<"hist", m>>] # Absent PROVE m < n /\ m < Count(Table', HistId)
    <2>1. Table[<<"hist", m>>] # Absent
      BY <1>7, <1>10, KeyTypes
    <2>2. m < n
      BY <2>1 DEF HistInv
    <2> HIDE DEF n
    <2> QED
      BY <1>4, <1>8, <2>2
  <1>11. Covered(t, Table', 2)
    <2>1. Table'[last.key] = Table[last.key]
      BY <1>5, <1>7
    <2>2. Covered(t, Table, 1)
      BY <1>1 DEF OutTodo
    <2>3. ASSUME NEW i \in 1 .. Len(t) - 1, t[i].kind = "hist" \/ t[i].key \in HistKeys PROVE i \in 2 .. Len(t) - 1
      BY <1>1, <1>2, <1>3, <2>3
    <2> QED
      BY <1>9, <2>1, <2>2, <2>3 DEF Covered
  <1>12. ASSUME NEW i \in 2 .. Len(t), t[i].key \in HistKeys
         PROVE  i = 2 /\ Table'[t[2].key] = Absent /\ t[2].key[2] < Count(Table', HistId)
    <2>1. i = 2
      BY <1>1, <1>12 DEF OutTodo
    <2>2. Table'[<<"hist", n>>] = Absent
      BY <1>4, <1>10
    <2>3. t[2].key[2] = n
      BY <1>5
    <2> HIDE DEF n
    <2> QED
      BY <1>4, <1>5, <1>8, <2>1, <2>2, <2>3
  <1> HIDE DEF t
  <1>13. OutTodo(Tail(t), Table')
    <2>1. Len(t) > 1
      BY <1>1, <1>5
    <2> QED
      BY <1>1, <1>11, <1>12, <2>1, OutTail
  <1>14. \A v \in past' : InHist(Table', v[2])
    BY <1>6, <1>9 DEF HistInv
  <1> QED
    BY <1>1, <1>10, <1>13, <1>14, HistFrom

\* The version is put into the history, under an id no version had.
LEMMA HistRowWrites ==
  ASSUME CoreInv, HistInv, NEW p \in Procs, WriteWork(p), proc[p].op = "out", "out" \notin overlap,
         Head(proc[p].todo).key \in HistKeys
  PROVE  HistInv'
  <1> DEFINE t == proc[p].todo
             k == t[1].key
             last == t[Len(t)]
  <1>1. /\ t # <<>> /\ OthersWork(p) /\ proc'[p].todo = Tail(t) /\ t[1].kind \in {"put", "delete"}
        /\ t \in Seq(Stmts) /\ Len(t) \in Nat \ {0} /\ OutTodo(t, Table) /\ t[1] = Head(t)
        /\ t[1].kind = "delete" => k \in OutKeys
        /\ k \in Keys /\ (t[1].kind = "hist" \/ k \notin OutKeys => Len(t) > 1)
    BY OutHead DEF WriteWork
  <1>2. k \in HistKeys /\ k \notin OutKeys /\ k # HistId /\ k # Plain
    BY <1>1, KeysApart, KeyTypes
  <1>3. t[1].kind = "put" /\ Len(t) > 1
    BY <1>1, <1>2
  <1>4. Table \in [Keys -> Values \cup {Absent}]
    BY WritesOwn
  <1>5. Table[k] = Absent /\ k[2] < Count(Table, HistId) /\ last.key \in OutKeys
    BY <1>1, <1>2, <1>3 DEF OutTodo
  <1>6. Table' = [Table EXCEPT ![k] = t[1].val] /\ past' = past
    BY <1>1, <1>2, <1>3 DEF WriteWork, Deletable
  <1>7. Table'[k] = t[1].val /\ \A j \in Keys : j # k => Table'[j] = Table[j]
    BY <1>1, <1>4, <1>6
  <1>8. Count(Table', HistId) = Count(Table, HistId)
    BY <1>2, <1>7, KeyTypes DEF Count
  <1>9. \A v : v # Absent /\ InHist(Table, v) => InHist(Table', v)
    BY <1>5, <1>7, KeyTypes DEF InHist
  <1>10. InHist(Table', t[1].val)
    BY <1>2, <1>7 DEF InHist
  <1>11. ASSUME NEW m \in 0 .. MaxIds, Table'[<<"hist", m>>] # Absent PROVE m < Count(Table', HistId)
    <2>1. CASE <<"hist", m>> = k
      <3>1. k[2] = m
        BY <2>1
      <3> QED
        BY <1>5, <1>8, <3>1
    <2>2. CASE <<"hist", m>> # k
      <3>1. <<"hist", m>> \in Keys
        BY KeyTypes
      <3>2. Table[<<"hist", m>>] # Absent
        BY <1>7, <1>11, <2>2, <3>1
      <3> QED
        BY <1>8, <3>2 DEF HistInv
    <2> QED
      BY <2>1, <2>2
  <1>12. Covered(t, Table', 2)
    <2>1. Table'[last.key] = Table[last.key]
      BY <1>2, <1>5, <1>7, KeyTypes
    <2>2. Covered(t, Table, 1)
      BY <1>1 DEF OutTodo
    <2>3. \A i \in 1 .. Len(t) - 1 : i = 1 \/ i \in 2 .. Len(t) - 1
      BY <1>1
    <2> QED
      BY <1>9, <1>10, <2>1, <2>2, <2>3 DEF Covered
  <1>13. \A i \in 2 .. Len(t) : t[i].key \notin HistKeys
    BY <1>1, <1>2 DEF OutTodo
  <1> HIDE DEF t
  <1>14. OutTodo(Tail(t), Table')
    BY <1>1, <1>3, <1>12, <1>13, OutTail
  <1>15. ASSUME NEW v \in past' PROVE InHist(Table', v[2])
    <2>1. v \in OutKeys \X Versions /\ v \in past
      BY <1>6 DEF CoreInv, TypeOK
    <2>2. v[2] # Absent
      BY <2>1, AbsentIsNone
    <2> QED
      BY <1>9, <2>1, <2>2 DEF HistInv
  <1> QED
    BY <1>1, <1>11, <1>14, <1>15, HistFrom

\* The output row is written or deleted, at the end of the operation.
LEMMA OutRowWrites ==
  ASSUME CoreInv, HistInv, NEW p \in Procs, WriteWork(p), proc[p].op = "out", "out" \notin overlap,
         Head(proc[p].todo).key \in OutKeys
  PROVE  HistInv'
  <1> DEFINE t == proc[p].todo
             k == t[1].key
  <1>1. /\ t # <<>> /\ OthersWork(p) /\ proc'[p].todo = Tail(t) /\ t[1].kind \in {"put", "delete"}
        /\ OutTodo(t, Table) /\ t[1] = Head(t) /\ k \in OutKeys /\ k \in Keys
        /\ t[1].kind # "hist" /\ k \in OutKeys => Len(t) = 1 /\ Tail(t) = <<>>
    BY OutHead DEF WriteWork
  <1>2. Len(t) = 1 /\ Tail(t) = <<>>
    BY <1>1
  <1>3. \A j \in Keys : j # k => Table'[j] = Table[j]
    <2>1. Table \in [Keys -> Values \cup {Absent}] /\ Head(t).key \in Keys
      BY WritesOwn
    <2>2. \A j \in Keys : j # Head(t).key => Table'[j] = Table[j]
      BY <2>1 DEF WriteWork
    <2> QED
      BY <1>1, <2>2
  <1>4. k # HistId /\ k \notin HistKeys
    BY <1>1, KeysApart, KeyTypes
  <1>5. Count(Table', HistId) = Count(Table, HistId)
    BY <1>3, <1>4, KeyTypes DEF Count
  <1>6. \A v : InHist(Table', v) <=> InHist(Table, v)
    BY <1>3, <1>4, KeyTypes DEF InHist
  <1>7. ASSUME NEW m \in 0 .. MaxIds, Table'[<<"hist", m>>] # Absent PROVE m < Count(Table', HistId)
    <2>1. <<"hist", m>> \in HistKeys
      BY KeyTypes
    <2>2. Table[<<"hist", m>>] # Absent
      BY <1>3, <1>4, <1>7, <2>1, KeyTypes
    <2> QED
      BY <1>5, <2>2 DEF HistInv
  <1>8. past' # past => InHist(Table, Table[k])
    <2>1. past' # past => Table[k] # Absent /\ (t[1].kind = "put" => Table[k] # t[1].val)
      BY <1>1 DEF WriteWork
    <2>2. Covered(t, Table, 1)
      BY <1>1 DEF OutTodo
    <2> QED
      BY <1>2, <2>1, <2>2 DEF Covered
  <1>9. ASSUME NEW v \in past' PROVE InHist(Table', v[2])
    <2>1. CASE v \in past
      BY <1>6, <2>1 DEF HistInv
    <2>2. CASE v \notin past
      <3>1. v = <<k, Table[k]>>
        BY <1>1, <2>2 DEF WriteWork
      <3> QED
        BY <1>6, <1>8, <2>2, <3>1
    <2> QED
      BY <2>1, <2>2
  <1>10. OutTodo(proc'[p].todo, Table')
    BY <1>1, <1>2 DEF OutTodo
  <1> QED
    BY <1>1, <1>7, <1>9, <1>10, HistFrom

\* save_output_history begins.
LEMMA HistBegins ==
  ASSUME CoreInv, HistInv, NEW p \in Procs, HistWork(p), "out" \notin overlap
  PROVE  HistInv'
  <1> DEFINE t == proc[p].todo
             n == Count(Table, HistId)
             u == put(HistId, num(n + 1))
             w == put(<<"hist", n>>, t[1].val)
  <1>1. /\ proc[p].op = "out" /\ t # <<>> /\ OthersWork(p) /\ Table' = Table /\ past' = past
        /\ t \in Seq(Stmts) /\ Len(t) \in Nat \ {0} /\ OutTodo(t, Table) /\ t[1] = Head(t)
        /\ t[1].kind = "hist" /\ t[1].key \in OutKeys /\ Len(t) > 1 /\ t[1].val \in Versions
    BY OutHead DEF HistWork, histVars
  <1>2. \/ InHist(Table, t[1].val) /\ proc'[p].todo = Tail(t)
        \/ n < MaxIds /\ proc'[p].todo = <<u, w>> \o Tail(t)
    BY <1>1 DEF HistWork
  <1>3. t[1].key # HistId /\ t[1].key \notin HistKeys /\ HistId \in Counters /\ HistId \notin HistKeys
        /\ HistId \in KeysOf("out")
    BY <1>1, KeysApart, KeyTypes DEF KeysOf
  <1>4. \A i \in 1 .. Len(t) : t[i].key \notin HistKeys
    BY <1>1, <1>3 DEF OutTodo
  <1>5. Covered(t, Table, 1) /\ t[Len(t)].key \in OutKeys /\ t[Len(t)].kind \in {"put", "delete"}
    BY <1>1 DEF OutTodo
  <1>6. CASE InHist(Table, t[1].val) /\ proc'[p].todo = Tail(t)
    <2>1. \A i \in 1 .. Len(t) - 1 : i = 1 \/ i \in 2 .. Len(t) - 1
      BY <1>1
    <2>2. Covered(t, Table, 2)
      BY <1>5, <1>6, <2>1 DEF Covered
    <2>3. \A i \in 2 .. Len(t) : t[i].key \notin HistKeys
      BY <1>4
    <2> HIDE DEF t
    <2>4. OutTodo(Tail(t), Table)
      BY <1>1, <2>2, <2>3, OutTail
    <2>5. OutTodo(proc'[p].todo, Table')
      BY <1>1, <1>6, <2>4
    <2> QED
      BY <1>1, <2>5, HistFrom DEF HistInv
  <1>7. CASE n < MaxIds /\ proc'[p].todo = <<u, w>> \o Tail(t)
    <2> DEFINE z == proc'[p].todo
    <2>1. n \in 0 .. MaxIds /\ num(n + 1) \in {"num"} \X (0 .. MaxIds)
      BY <1>3, <1>7, Counts
    <2>2. u.key = HistId /\ u.val = num(n + 1) /\ u.kind = "put" /\ u \in Stmts
      BY <1>3, <2>1, CounterStmt
    <2>3. w.key = <<"hist", n>> /\ w.val = t[1].val /\ w.kind = "put" /\ w \in Stmts /\ <<"hist", n>> \in HistKeys
      BY ZenonT(30), <1>1, <2>1, HistStmt, KeyTypes
    <2> HIDE DEF u, w, t, n
    <2>4. /\ Tail(t) \in Seq(Stmts) /\ Len(Tail(t)) = Len(t) - 1
          /\ \A i \in 1 .. Len(t) - 1 : Tail(t)[i] = t[i + 1]
      BY <1>1
    <2>5. <<u, w>> \in Seq(Stmts) /\ Len(<<u, w>>) = 2 /\ <<u, w>>[1] = u /\ <<u, w>>[2] = w
      BY <2>2, <2>3
    <2>6. /\ Len(z) = 2 + (Len(t) - 1) /\ z[1] = u /\ z[2] = w
          /\ \A i \in 1 .. Len(t) - 1 : z[i + 2] = t[i + 1]
      <3> DEFINE a == <<u, w>>
                 b == Tail(t)
      <3>1. a \in Seq(Stmts) /\ b \in Seq(Stmts) /\ Len(a) = 2 /\ a[1] = u /\ a[2] = w
        BY <2>4, <2>5
      <3>2. z = a \o b /\ Len(b) = Len(t) - 1 /\ \A i \in 1 .. Len(t) - 1 : b[i] = t[i + 1]
        BY <1>7, <2>4
      <3> HIDE DEF a, b, z
      <3>3. /\ Len(a \o b) = Len(a) + Len(b) /\ \A i \in 1 .. Len(a) : (a \o b)[i] = a[i]
            /\ \A i \in 1 .. Len(b) : (a \o b)[i + Len(a)] = b[i]
        BY <3>1, Appended
      <3>4. Len(z) = 2 + (Len(t) - 1) /\ z[1] = u /\ z[2] = w
        BY <3>1, <3>2, <3>3
      <3>5. \A i \in 1 .. Len(t) - 1 : z[i + 2] = t[i + 1]
        BY <3>1, <3>2, <3>3
      <3> QED
        BY <3>4, <3>5
    <2> HIDE DEF z
    <2>7. Len(z) = Len(t) + 1 /\ Len(z) \in Nat /\ Len(z) > 2
      BY <1>1, <2>6
    <2>8. ASSUME NEW i \in 3 .. Len(z) PROVE i - 1 \in 2 .. Len(t) /\ z[i] = t[i - 1]
      <3>1. i - 2 \in 1 .. Len(t) - 1 /\ i - 1 \in 2 .. Len(t) /\ (i - 2) + 2 = i /\ (i - 2) + 1 = i - 1
        BY <1>1, <2>7
      <3> QED
        BY <2>6, <3>1
    <2>9. z[Len(z)] = t[Len(t)]
      <3>1. Len(z) \in 3 .. Len(z) /\ Len(z) - 1 = Len(t)
        BY <1>1, <2>7
      <3> QED
        BY <2>8, <3>1
    <2>10. ASSUME NEW i \in 1 .. Len(z) - 1 PROVE z[i].kind = "hist" \/ z[i].key \in HistKeys \cup {HistId}
      <3>1. CASE i \in {1, 2}
        BY <2>2, <2>3, <2>6, <3>1
      <3>2. CASE i \notin {1, 2}
        <4>1. i \in 3 .. Len(z) /\ i - 1 \in 1 .. Len(t) - 1
          BY <1>1, <2>7, <3>2
        <4> QED
          BY <1>1, <2>8, <4>1 DEF OutTodo
      <3> QED
        BY <3>1, <3>2
    <2>11. ASSUME NEW i \in 2 .. Len(z) PROVE z[i].key # HistId
      <3>1. CASE i = 2
        BY <1>3, <2>3, <2>6, <3>1
      <3>2. CASE i # 2
        <4>1. i \in 3 .. Len(z)
          BY <2>7, <3>2
        <4>2. i - 1 \in 2 .. Len(t) /\ z[i] = t[i - 1]
          BY <2>8, <4>1
        <4> QED
          BY <1>1, <4>2 DEF OutTodo
      <3> QED
        BY <3>1, <3>2
    <2>12. z[1].key = HistId /\ z[2].key = <<"hist", n>> /\ z[1].val = num(n + 1)
      BY <2>2, <2>3, <2>6
    <2>13. ASSUME NEW i \in 1 .. Len(z), z[i].key \in HistKeys PROVE i = 2
      <3>1. i # 1
        BY <1>3, <2>12, <2>13
      <3>2. CASE i \in 3 .. Len(z)
        <4>1. i - 1 \in 1 .. Len(t) /\ z[i] = t[i - 1]
          BY <1>1, <2>8, <3>2
        <4> QED
          BY <1>4, <2>13, <4>1
      <3> QED
        BY <2>7, <3>1, <3>2
    <2>14. Covered(z, Table, 1)
      <3>1. ASSUME NEW i \in 1 .. Len(t) - 1, t[i].kind = "hist" \/ t[i].key \in HistKeys
            PROVE  \E j \in 1 .. Len(z) - 1 : (z[j].kind = "hist" \/ z[j].key \in HistKeys) /\ z[j].val = t[i].val
        <4>1. CASE i = 1
          <5>1. 2 \in 1 .. Len(z) - 1
            BY <2>7
          <5> QED
            BY <2>3, <2>6, <4>1, <5>1
        <4>2. CASE i # 1
          <5>1. i + 1 \in 3 .. Len(z) /\ i + 1 \in 1 .. Len(z) - 1 /\ (i + 1) - 1 = i
            BY <1>1, <2>7, <4>2
          <5>2. z[i + 1] = t[i]
            BY <2>8, <5>1
          <5> QED
            BY <3>1, <5>1, <5>2
        <4> QED
          BY <4>1, <4>2
      <3> QED
        BY <1>5, <2>9, <3>1 DEF Covered
    <2>15. OutTodo(z, Table)
      BY <1>5, <2>7, <2>9, <2>10, <2>11, <2>12, <2>13, <2>14 DEF OutTodo, n
    <2>16. OutTodo(proc'[p].todo, Table')
      BY <1>1, <2>15 DEF z
    <2> QED
      BY <1>1, <2>16, HistFrom DEF HistInv
  <1> QED
    BY <1>2, <1>6, <1>7

LEMMA HistStep ==
  ASSUME CoreInv, HistInv, NEW p \in Procs, Work(p)
  PROVE  HistInv'
  <1>0. OutRows \subseteq Keys
    BY KeyTypes DEF OutRows
  <1>1. CASE SameWork /\ Table' = Table /\ UNCHANGED others
    BY <1>1 DEF SameWork, HistInv, Alone, others
  <1>2. CASE FailsWork(p) /\ Table' = Table /\ UNCHANGED others
    <2>1. CASE proc'[p].op # "out"
      BY <1>2, <2>1, HistFrame DEF FailsWork, others
    <2>2. CASE proc'[p].op = "out" /\ "out" \notin overlap
      <3>1. /\ proc[p].op = "out" /\ proc'[p].todo = Tail(proc[p].todo) /\ proc[p].todo # <<>>
            /\ Head(proc[p].todo).kind = "delete" /\ Head(proc[p].todo).key \in OutKeys
        BY <1>2, <2>2, FailsOwn
      <3>2. proc'[p].todo = <<>>
        BY <2>2, <3>1, OutHead
      <3>3. OutTodo(proc'[p].todo, Table')
        BY <3>2 DEF OutTodo
      <3>4. OthersWork(p) /\ Table' = Table /\ past' = past
        BY <1>2 DEF FailsWork, others
      <3> QED
        BY <2>2, <3>1, <3>3, <3>4, HistFrom DEF HistInv
    <2>3. CASE "out" \in overlap
      BY <1>2, <2>3 DEF others, HistInv
    <2> QED
      BY <2>1, <2>2, <2>3
  <1>3. CASE WriteWork(p)
    <2>1. CASE proc[p].op = "out" /\ "out" \notin overlap
      <3>1. proc[p].todo # <<>>
        BY <1>3 DEF WriteWork
      <3>2. Head(proc[p].todo).key \in OutRows
        BY <2>1, <3>1, OutHead
      <3> QED
        BY <1>3, <2>1, <3>2, HistIdWrites, HistRowWrites, OutRowWrites DEF OutRows
    <2>2. CASE proc[p].op # "out"
      <3>1. \A k \in OutRows : Table'[k] = Table[k]
        BY <1>0, <1>3, <2>2, WritesOwn, Groupings DEF OutRows
      <3>2. past' = past
        <4>1. Head(proc[p].todo).key \notin OutKeys
          BY <1>3, <2>2, WritesOwn, Groupings DEF StmtOK
        <4> QED
          BY <1>3, <4>1 DEF WriteWork
      <3> QED
        BY <1>3, <2>2, <3>1, <3>2, HistFrame DEF WriteWork
    <2>3. CASE "out" \in overlap
      BY <1>3, <2>3 DEF WriteWork, HistInv
    <2> QED
      BY <2>1, <2>2, <2>3
  <1>4. CASE HistWork(p)
    <2>1. CASE "out" \in overlap
      BY <1>4, <2>1 DEF HistWork, histVars, HistInv
    <2> QED
      BY <1>4, <2>1, HistBegins
  <1>5. CASE ReturnWork(p)
    BY <1>5, HistFrame DEF ReturnWork
  <1>6. CASE LeaveWork(p)
    BY <1>6, HistFrame DEF LeaveWork
  <1>7. CASE OutWork(p)
    <2>1. PICK t : OutProg(t) /\ BeginWork(p, "out", t, 0)
      BY <1>7 DEF OutWork
    <2>2. CASE \E q \in Procs : proc[q].op = "out"
      BY <2>1, <2>2 DEF BeginWork, HistInv
    <2>3. CASE \A q \in Procs : proc[q].op # "out"
      <3>1. \A q \in Procs : proc'[q].op = "out" => q = p
        BY <2>1, <2>3 DEF BeginWork, StartWork, OthersWork
      <3>2. OutTodo(proc'[p].todo, Table')
        BY <2>1 DEF BeginWork, StartWork, OutProg
      <3>3. overlap' = overlap /\ past' = past /\ Table' = Table
        BY <2>1, <2>3 DEF BeginWork, StartWork
      <3> QED
        BY <3>1, <3>2, <3>3 DEF HistInv, Alone
    <2> QED
      BY <2>2, <2>3
  <1>8. CASE LogWork(p) \/ PlainWork(p)
    <2>1. PICK g \in {"log", "plain"} : \E t, n : BeginWork(p, g, t, n)
      BY <1>8 DEF LogWork, PlainWork
    <2>2. PICK t, n : BeginWork(p, g, t, n)
      BY <2>1
    <2> QED
      BY <2>1, <2>2, HistFrame DEF BeginWork, StartWork
  <1>9. CASE ChildWork(p) \/ SaveIndexWork(p)
    <2>1. overlap \subseteq overlap'
      BY <1>9, IndexWorkMeets
    <2>2. PICK t, n : StartWork(p, "child", t, n)
      BY <1>9 DEF ChildWork, SaveIndexWork
    <2> QED
      BY <2>1, <2>2, HistFrame DEF StartWork
  <1>10. CASE ScanWork(p)
    <2>1. "out" \in overlap' <=> "out" \in overlap
      BY <1>10, IndexWorkMeets
    <2> QED
      BY <1>10, <2>1 DEF ScanWork, SameWork, HistInv, Alone
  <1> QED
    BY <1>1, <1>2, <1>3, <1>4, <1>5, <1>6, <1>7, <1>8, <1>9, <1>10 DEF Work

\* Every version of an output that save or delete replaced is in the history, wherever the operation
\* was cut short or a statement failed, for any number of processes of which only one at a time writes
\* outputs.
THEOREM VersionsKept == Spec => []HistoryComplete
  <1>1. Init => HistInv
    <2> SUFFICES ASSUME Init PROVE HistInv
      OBVIOUS
    <2>1. \A n \in 0 .. MaxIds : <<"hist", n>> # Plain
      BY DEF Plain
    <2>2. ASSUME NEW n \in 0 .. MaxIds PROVE Table[<<"hist", n>>] = Absent
      <3>1. <<"hist", n>> \in Keys
        BY KeyTypes
      <3>2. ~\E r \in rows : r.key = <<"hist", n>>
        BY <2>1 DEF Init
      <3> QED
        BY <3>1, <3>2, TableNone DEF Table
    <2> QED
      BY <2>2, IdleTypes DEF Init, HistInv, Alone
  <1>2. CoreInv /\ HistInv /\ [Next]_vars => HistInv'
    <2> SUFFICES ASSUME CoreInv, HistInv, [Next]_vars PROVE HistInv'
      OBVIOUS
    <2>1. CASE \E p \in Procs : Work(p)
      BY <2>1, HistStep
    <2>2. CASE UNCHANGED vars
      <3>1. Table' = Table /\ UNCHANGED <<proc, overlap, past>>
        BY <2>2 DEF vars, Table
      <3> QED
        BY <3>1 DEF HistInv, Alone
    <2> QED
      BY <2>1, <2>2, CoreNext
  <1>3. CoreInv /\ HistInv => HistoryComplete
    <2> SUFFICES ASSUME CoreInv, HistInv PROVE HistoryComplete
      OBVIOUS
    <2>1. ASSUME "out" \notin overlap, NEW v \in past PROVE v[2] \in iter("hist")
      <3>1. PICK k \in HistKeys : Table[k] = v[2]
        BY <2>1 DEF HistInv, InHist
      <3>2. v[2] # Absent
        BY AbsentIsNone DEF CoreInv, TypeOK
      <3> QED
        BY <3>1, <3>2, Reads DEF CoreInv
    <2> QED
      BY <2>1, Zenon DEF HistoryComplete
  <1> QED
    BY <1>1, <1>2, <1>3, CoreAlways, PTL DEF Spec
=============================================================================
