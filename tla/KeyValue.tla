------------------------------ MODULE KeyValue ------------------------------
(***************************************************************************)
(* What impls/src/backends/db.rs promises to the wallet backend: a map from   *)
(* keys to values shared by several processes.  A write takes effect at one   *)
(* moment between its call and its return, once, and on one key only; a write *)
(* that fails, or whose process stops, may have had no effect, and nothing in *)
(* between.  A put that returns Ok without effect was overtaken by a delete.  *)
(***************************************************************************)
CONSTANTS Procs, Keys, Values, Absent

VARIABLES
    kv,    \* the map
    call,  \* the write each process waits for
    res    \* how its last write ended

kvVars == <<kv, call, res>>

NoCall == [kind |-> "none", key |-> Absent, val |-> Absent, beaten |-> FALSE]

KVInit ==
    /\ kv \in [Keys -> Values \cup {Absent}]
    /\ call = [p \in Procs |-> NoCall]
    /\ res = [p \in Procs |-> "none"]

Calls == [kind : {"put", "delete"}, key : Keys, val : Values, beaten : {FALSE}]

Call(p) ==
    /\ call[p] = NoCall
    /\ call'[p] \in Calls
    /\ call' = [call EXCEPT ![p] = call'[p]]
    /\ res' = [res EXCEPT ![p] = "none"]
    /\ UNCHANGED kv

\* p's write takes effect and returns; a delete overtakes the other writes of its key.
Effect(p) ==
    LET c == call[p]
    IN  /\ c.kind # "none"
        /\ kv' = [kv EXCEPT ![c.key] = IF c.kind = "put" THEN c.val ELSE Absent]
        /\ call' = [q \in Procs |->
                      IF q = p THEN NoCall
                      ELSE IF c.kind = "delete" /\ call[q].kind # "none" /\ call[q].key = c.key
                           THEN [call[q] EXCEPT !.beaten = TRUE]
                           ELSE call[q]]
        /\ res' = [res EXCEPT ![p] = "ok"]

Overtaken(p) ==
    /\ call[p].beaten
    /\ call' = [call EXCEPT ![p] = NoCall]
    /\ res' = [res EXCEPT ![p] = "ok"]
    /\ UNCHANGED kv

\* The write fails, or its process stops.
NoEffect(p) ==
    /\ call' = [call EXCEPT ![p] = NoCall]
    /\ res' = [res EXCEPT ![p] = "failed"]
    /\ UNCHANGED kv

KVNext ==
    \E p \in Procs : Call(p) \/ Effect(p) \/ Overtaken(p) \/ NoEffect(p)

KVSpec == KVInit /\ [][KVNext]_kvVars
=============================================================================
