----------------------------- MODULE WalletStore -----------------------------
(***************************************************************************)
(* The wallet's database: the SQLite table of impls/src/backends/db.rs and   *)
(* the operations of the backend (impls/src/backends/lmdb.rs) on it.  A       *)
(* backend operation is a sequence of statements, each committed by itself;   *)
(* a put is a SELECT and then an INSERT or an UPDATE; a writer that meets     *)
(* another one is sent away (SQLITE_BUSY) and tries again a few times.        *)
(* Several processes (a listener, the command line) may have the file open,   *)
(* and each may stop anywhere.  Within a process the wallet's mutex lets one  *)
(* operation run at a time.                                                   *)
(***************************************************************************)
EXTENDS Naturals, Sequences

CONSTANTS
    Procs,       \* processes that have the database open
    Outs,        \* key ids of outputs (numbers)
    MaxOps,      \* bound on the operations that are begun
    MaxCrashes,  \* bound on the times a process stops
    MaxIds,      \* bound on the ids of each counter
    MaxRetries   \* SQLITE_MAX_RETRIES, 3 in the code

Nobody == "nobody"

ASSUME StoreAssumption ==
    /\ Nobody \notin Procs
    /\ Outs \subseteq Nat
    /\ MaxOps \in Nat /\ MaxCrashes \in Nat /\ MaxIds \in Nat \ {0}
    /\ MaxRetries \in Nat

\* to_key, to_key_u64: a prefix and an identifier.
Counters == {<<"child", 0>>, <<"logid", 0>>, <<"histid", 0>>}
OutKeys == {"out"} \X Outs
HistKeys == {"hist"} \X (0 .. MaxIds)
LogKeys == {"log"} \X (0 .. MaxIds)
Plain == <<"plain", 0>>    \* contexts, accounts, heights, the init status: written as they are
Keys == Counters \cup OutKeys \cup HistKeys \cup LogKeys \cup {Plain}

\* Serializable.  A version of an output is its status with its commitment (the same for every
\* version of an output, different from any other output's).
Statuses == {"Unspent", "Locked"}
Versions == (Statuses \cup {"Deleted"}) \X Outs
Values == ({"num"} \X (0 .. MaxIds + 1)) \cup Versions \cup ({"tx"} \X (1 .. MaxOps)) \cup {<<"data", 0>>}
Absent == <<"absent", 0>>

VARIABLES
    rows,     \* the table: records of a key and a value
    writer,   \* the process whose statement has the write lock
    proc,     \* what each process is doing
    ops,      \* how many operations were begun
    crashes,  \* how often a process stopped
    handed,   \* history: child indices that next_child returned or a scan saved
    reused,   \* history: one of them was handed out again
    entries,  \* history: transactions whose log entry was saved
    past,     \* history: versions of outputs that were replaced or deleted
    overlap,  \* history: groups of operations of which two met
    scan      \* the child index that a scan of the process is about to save

vars == <<rows, writer, proc, ops, crashes, handed, reused, entries, past, overlap, scan>>
histVars == <<ops, crashes, handed, reused, entries, past, overlap, scan>>

Groups == {"child", "log", "out", "plain", "open"}
Stmts == [kind : {"put", "delete"}, key : Keys, val : Values] \cup [kind : {"hist"}, key : OutKeys, val : Versions]
Idle == [op |-> "idle", pc |-> "next", todo |-> <<>>, form |-> "none", tries |-> 0,
         beaten |-> FALSE, id |-> 0, res |-> "none"]
Down == [Idle EXCEPT !.op = "down"]
Indices == 0 .. (MaxIds - 1)
NoScan == MaxIds    \* no index

TypeOK ==
    /\ rows \subseteq [key : Keys, val : Values]
    /\ writer \in Procs \cup {Nobody}
    /\ proc \in [Procs -> [op : Groups \cup {"idle", "down"}, pc : {"next", "execute", "write"},
                           todo : Seq(Stmts), form : {"none", "insert", "update", "delete"},
                           tries : 0 .. MaxRetries, beaten : BOOLEAN, id : 0 .. MaxIds,
                           res : {"none", "ok", "failed"}]]
    /\ ops \in 0 .. MaxOps /\ crashes \in 0 .. MaxCrashes
    /\ handed \subseteq 0 .. MaxIds /\ reused \in BOOLEAN
    /\ entries \subseteq 1 .. MaxOps
    /\ past \subseteq OutKeys \X Versions
    /\ overlap \subseteq Groups
    /\ scan \in [Procs -> 0 .. MaxIds]

\* The processes have created and opened the database.
Init ==
    /\ rows = {[key |-> Plain, val |-> <<"data", 0>>]} /\ writer = Nobody
    /\ proc = [p \in Procs |-> Idle]
    /\ ops = 0 /\ crashes = 0 /\ handed = {} /\ reused = FALSE /\ entries = {} /\ past = {} /\ overlap = {}
    /\ scan = [p \in Procs |-> NoScan]

-----------------------------------------------------------------------------
(* Store: reads. *)

exists(k) == \E r \in rows : r.key = k
get(k) == IF exists(k) THEN (CHOOSE r \in rows : r.key = k).val ELSE Absent
iter(prefix) == {r.val : r \in {r \in rows : r.key[1] = prefix}}
number(k) == IF exists(k) THEN get(k)[2] ELSE 0

-----------------------------------------------------------------------------
(* Store: the statements of put and delete. *)

Head1(p) == Head(proc[p].todo)
Writing(p) == proc[p].pc \in {"execute", "write"}
Set(p, r) == proc' = [proc EXCEPT ![p] = r]

\* put looks whether the key exists and chooses the statement; delete has only one.
Prepare(p) ==
    /\ proc[p].todo # <<>> /\ proc[p].pc = "next" /\ Head1(p).kind # "hist"
    /\ Set(p, [proc[p] EXCEPT !.pc = "execute", !.tries = 0, !.beaten = FALSE, !.res = "none",
                 !.form = IF Head1(p).kind = "delete" THEN "delete"
                          ELSE IF exists(Head1(p).key) THEN "update" ELSE "insert"])
    /\ UNCHANGED <<rows, writer, histVars>>

\* The statement has the database.
Execute(p) ==
    /\ proc[p].pc = "execute" /\ writer = Nobody
    /\ writer' = p
    /\ Set(p, [proc[p] EXCEPT !.pc = "write"])
    /\ UNCHANGED <<rows, histVars>>

\* put unwraps the error of execute: the operation ends.  So does delete_private_context, while
\* the deletion of an output goes on as if it had succeeded.
GiveUp(p) ==
    [proc[p] EXCEPT !.pc = "next", !.form = "none", !.tries = 0, !.beaten = FALSE, !.res = "failed",
       !.todo = IF Head1(p).kind = "delete" /\ Head1(p).key \in OutKeys THEN Tail(@) ELSE <<>>,
       !.op = IF Head1(p).kind = "delete" /\ Head1(p).key \in OutKeys THEN @ ELSE "idle"]

\* SQLITE_BUSY: wait and try again, SQLITE_MAX_RETRIES times.
Busy(p) ==
    /\ proc[p].pc = "execute" /\ writer \notin {Nobody, p}
    /\ Set(p, IF proc[p].tries = MaxRetries THEN GiveUp(p) ELSE [proc[p] EXCEPT !.tries = @ + 1])
    /\ UNCHANGED <<rows, writer, histVars>>

\* The history of what happens to the output rows and the log.
Replaced(k, v) == IF k \in OutKeys /\ get(k) \notin {v, Absent} THEN {<<k, get(k)>>} ELSE {}

\* The statement is done: a DELETE overtakes what other processes are about to write.
Done(p, new) ==
    /\ rows' = new
    /\ writer' = Nobody
    /\ proc' = [q \in Procs |->
         IF q = p THEN [proc[p] EXCEPT !.pc = "next", !.todo = Tail(@), !.form = "none", !.tries = 0,
                                       !.beaten = FALSE, !.res = "ok"]
         ELSE IF proc[p].form = "delete" /\ Writing(q) /\ Head1(q).key = Head1(p).key
              THEN [proc[q] EXCEPT !.beaten = TRUE]
              ELSE proc[q]]

\* Mutant: the key is not UNIQUE.
InsertAny(p) ==
    /\ proc[p].pc = "write" /\ proc[p].form = "insert"
    /\ Done(p, rows \cup {[key |-> Head1(p).key, val |-> Head1(p).val]})
    /\ entries' = IF Head1(p).key \in LogKeys THEN entries \cup {Head1(p).val[2]} ELSE entries
    /\ UNCHANGED <<ops, crashes, handed, reused, past, overlap, scan>>

Insert(p) ==
    /\ proc[p].pc = "write" /\ proc[p].form = "insert" /\ ~exists(Head1(p).key)
    /\ Done(p, rows \cup {[key |-> Head1(p).key, val |-> Head1(p).val]})
    /\ entries' = IF Head1(p).key \in LogKeys THEN entries \cup {Head1(p).val[2]} ELSE entries
    /\ UNCHANGED <<ops, crashes, handed, reused, past, overlap, scan>>

\* Mutant: every error is worth another attempt.
InsertFailsAgain(p) ==
    /\ proc[p].pc = "write" /\ proc[p].form = "insert" /\ exists(Head1(p).key)
    /\ writer' = Nobody
    /\ Set(p, [proc[p] EXCEPT !.pc = "execute"])
    /\ UNCHANGED <<rows, histVars>>

\* The key is UNIQUE: an INSERT that another process was faster with is an error, and put panics.
InsertFails(p) ==
    /\ proc[p].pc = "write" /\ proc[p].form = "insert" /\ exists(Head1(p).key)
    /\ writer' = Nobody
    /\ Set(p, GiveUp(p))
    /\ UNCHANGED <<rows, histVars>>

Update(p) ==
    /\ proc[p].pc = "write" /\ proc[p].form = "update"
    /\ Done(p, {IF r.key = Head1(p).key THEN [r EXCEPT !.val = Head1(p).val] ELSE r : r \in rows})
    /\ past' = past \cup Replaced(Head1(p).key, Head1(p).val)
    /\ entries' = IF Head1(p).key \in LogKeys THEN entries \cup {Head1(p).val[2]} ELSE entries
    /\ UNCHANGED <<ops, crashes, handed, reused, overlap, scan>>

Delete(p) ==
    /\ proc[p].pc = "write" /\ proc[p].form = "delete"
    /\ Done(p, {r \in rows : r.key # Head1(p).key})
    /\ past' = past \cup Replaced(Head1(p).key, Absent)
    /\ UNCHANGED <<ops, crashes, handed, reused, entries, overlap, scan>>

-----------------------------------------------------------------------------
(* The operations of the backend.  What an operation reads before its first   *)
(* write is one step, and so is what save_output_history reads.               *)

put(k, v) == [kind |-> "put", key |-> k, val |-> v]
del(k) == [kind |-> "delete", key |-> k, val |-> <<"data", 0>>]
hist(k, v) == [kind |-> "hist", key |-> k, val |-> v]
num(n) == <<"num", n>>

Meet(group, met) == overlap' = IF met THEN overlap \cup {group} ELSE overlap

Start(p, group, prog, n) ==
    /\ proc[p].op = "idle" /\ ops < MaxOps
    /\ ops' = ops + 1
    /\ Set(p, [Idle EXCEPT !.op = group, !.todo = prog, !.id = n, !.res = proc[p].res])
    /\ UNCHANGED <<rows, writer, crashes, handed, reused, entries, past>>

Begin(p, group, prog, n) ==
    /\ Start(p, group, prog, n)
    /\ Meet(group, group # "plain" /\ \E q \in Procs : proc[q].op = group)
    /\ UNCHANGED scan

\* LMDBBackend::new makes sure that the default account exists.
Open(p) ==
    /\ proc[p].op = "down"
    /\ Set(p, [Idle EXCEPT !.op = "open", !.todo = <<put(Plain, <<"data", 0>>)>>, !.res = proc[p].res])
    /\ UNCHANGED <<rows, writer, histVars>>

\* The child index is being counted: by next_child, or by a scan between its comparison and its save.
Counting == \E q \in Procs : proc[q].op = "child" \/ scan[q] # NoScan

\* next_child
NextChild(p) ==
    LET n == number(<<"child", 0>>)
    IN  /\ n < MaxIds
        /\ Start(p, "child", <<put(<<"child", 0>>, num(n + 1))>>, n)
        /\ Meet("child", Counting) /\ UNCHANGED scan

\* scan, which restored outputs up to child index m: the comparison with current_child_index, in a
\* section of its own.
ScanReadChildIndex(p, m) ==
    /\ proc[p].op = "idle" /\ scan[p] = NoScan /\ m >= number(<<"child", 0>>)
    /\ ops < MaxOps /\ ops' = ops + 1
    /\ scan' = [scan EXCEPT ![p] = m]
    /\ Meet("child", Counting)
    /\ UNCHANGED <<rows, writer, proc, crashes, handed, reused, entries, past>>

\* Mutant: the index that was found is saved, not the one after it.
SaveChildIndexFound(p) ==
    /\ scan[p] # NoScan
    /\ Start(p, "child", <<put(<<"child", 0>>, num(scan[p]))>>, scan[p])
    /\ Meet("child", \E q \in Procs : proc[q].op = "child")
    /\ scan' = [scan EXCEPT ![p] = NoScan]

\* save_child_index, in the next section: the counter is not read again.
SaveChildIndex(p) ==
    /\ scan[p] # NoScan
    /\ Start(p, "child", <<put(<<"child", 0>>, num(scan[p] + 1))>>, scan[p])
    /\ Meet("child", \E q \in Procs : proc[q].op = "child")
    /\ scan' = [scan EXCEPT ![p] = NoScan]

\* The scan ends with an error in between.
ScanFails(p) ==
    /\ proc[p].op = "idle" /\ scan[p] # NoScan
    /\ scan' = [scan EXCEPT ![p] = NoScan]
    /\ UNCHANGED <<rows, writer, proc, ops, crashes, handed, reused, entries, past, overlap>>

\* Mutant: the entry is saved before its id is taken.
NewLogEntryFirst(p) ==
    LET n == number(<<"logid", 0>>)
        t == ops + 1
    IN  /\ n < MaxIds
        /\ Begin(p, "log", <<put(<<"log", n>>, <<"tx", t>>), put(<<"logid", 0>>, num(n + 1))>>, 0)

\* next_tx_log_id and save_tx_log_entry of a new transaction.
NewLogEntry(p) ==
    LET n == number(<<"logid", 0>>)
        t == ops + 1
    IN  /\ n < MaxIds
        /\ Begin(p, "log", <<put(<<"logid", 0>>, num(n + 1)), put(<<"log", n>>, <<"tx", t>>)>>, 0)

\* Mutant: save overwrites the output first.
SaveFirst(p, o, s) ==
    LET k == <<"out", o>>
        v == <<s, o>>
    IN  Begin(p, "out", <<put(k, v)>> \o (IF get(k) \notin {v, Absent} THEN <<hist(k, get(k))>> ELSE <<>>), 0)

\* save, and lock_output: the version that is replaced goes to the history.
Save(p, o, s) ==
    LET k == <<"out", o>>
        v == <<s, o>>
    IN  Begin(p, "out", (IF get(k) \notin {v, Absent} THEN <<hist(k, get(k))>> ELSE <<>>) \o <<put(k, v)>>, 0)

\* delete: the last version goes to the history, and again as deleted.
DeleteOutput(p, o) ==
    LET k == <<"out", o>>
    IN  Begin(p, "out", (IF exists(k) THEN <<hist(k, get(k)), hist(k, <<"Deleted", o>>)>> ELSE <<>>)
                        \o <<del(k)>>, 0)

\* save_output_history: unless the version is registered, a new id and a row for it.
SaveOutputHistory(p) ==
    LET n == number(<<"histid", 0>>)
        s == Head1(p)
    IN  /\ proc[p].todo # <<>> /\ s.kind = "hist" /\ (s.val \in iter("hist") \/ n < MaxIds)
        /\ Set(p, [proc[p] EXCEPT !.todo =
                     (IF s.val \in iter("hist") THEN <<>>
                      ELSE <<put(<<"histid", 0>>, num(n + 1)), put(<<"hist", n>>, s.val)>>) \o Tail(@)])
        /\ UNCHANGED <<rows, writer, histVars>>

\* save_last_confirmed_height, save_last_scanned_block, save_init_status, save_acct_path,
\* save_private_context.
SavePlain(p) == Begin(p, "plain", <<put(Plain, <<"data", 0>>)>>, 0)

DeletePrivateContext(p) == Begin(p, "plain", <<del(Plain)>>, 0)

\* The operation returns: next_child hands out its index.  commit only drops the batch.
Return(p) ==
    /\ proc[p].op \notin {"idle", "down"} /\ proc[p].todo = <<>>
    /\ Set(p, [Idle EXCEPT !.res = proc[p].res])
    /\ handed' = IF proc[p].op = "child" THEN handed \cup {proc[p].id} ELSE handed
    /\ reused' = (reused \/ (proc[p].op = "child" /\ proc[p].id \in handed))
    /\ UNCHANGED <<rows, writer, ops, crashes, entries, past, overlap, scan>>

\* The process stops; SQLite rolls back the statement that was not finished.
Crash(p) ==
    /\ proc[p].op # "down" /\ crashes < MaxCrashes
    /\ crashes' = crashes + 1
    /\ Set(p, [Down EXCEPT !.res = IF Writing(p) THEN "failed" ELSE proc[p].res])
    /\ writer' = IF writer = p THEN Nobody ELSE writer
    /\ scan' = [scan EXCEPT ![p] = NoScan]
    /\ UNCHANGED <<rows, ops, handed, reused, entries, past, overlap>>

-----------------------------------------------------------------------------
Step(p) ==
    \/ Prepare(p) \/ Execute(p) \/ Busy(p)
    \/ Insert(p) \/ InsertFails(p) \/ Update(p) \/ Delete(p)
    \/ SaveOutputHistory(p) \/ Return(p)

Next ==
    \E p \in Procs :
        \/ Step(p)
        \/ Open(p) \/ NextChild(p) \/ NewLogEntry(p)
        \/ \E m \in Indices : ScanReadChildIndex(p, m)
        \/ SaveChildIndex(p) \/ ScanFails(p)
        \/ \E o \in Outs, s \in Statuses : Save(p, o, s)
        \/ \E o \in Outs : DeleteOutput(p, o)
        \/ SavePlain(p) \/ DeletePrivateContext(p)
        \/ Crash(p)

Spec == Init /\ [][Next]_vars

\* A statement that is under way is executed or sent away.
FairSpec == Spec /\ \A p \in Procs : WF_vars(Step(p))

-----------------------------------------------------------------------------
(* Properties. *)

\* The table is a map that the processes write atomically (see KeyValue).
Pending(p) ==
    IF Writing(p)
    THEN [kind |-> Head1(p).kind, key |-> Head1(p).key, val |-> Head1(p).val, beaten |-> proc[p].beaten]
    ELSE [kind |-> "none", key |-> Absent, val |-> Absent, beaten |-> FALSE]
KV == INSTANCE KeyValue WITH
        kv <- [k \in Keys |-> get(k)],
        call <- [p \in Procs |-> Pending(p)],
        res <- [p \in Procs |-> proc[p].res]

\* The two statements of put, the retries and the UNIQUE key implement an atomic write, whatever
\* the other processes do in between: an UPDATE finds no row only if a DELETE overtook it.
AtomicWrites == KV!KVSpec

\* next_child never hands out an index twice, nor one that a scan saved the counter past, also
\* when the process stops between the write and the return, unless two of them met: two processes
\* in next_child, or a call of next_child between a scan's comparison and its save.
ChildOnce == "child" \notin overlap => ~reused

\* Every transaction whose log entry was saved still has one: an id is not given to a second
\* transaction, also when the process stops after next_tx_log_id.
EntryKept == "log" \notin overlap => \A t \in entries : <<"tx", t>> \in iter("log")

\* A version of an output that is no longer in the table is in the history, wherever save or
\* delete was cut short.
HistoryComplete ==
    "out" \notin overlap => \A v \in past : v[2] \in iter("hist") \/ get(v[1]) = v[2]

\* A statement never waits for ever: it is executed or, if the database stays busy, given up.
StatementEnds == \A p \in Procs : Writing(p) ~> ~Writing(p)
=============================================================================
